----------------------------- MODULE CommandLine -----------------------------
(***************************************************************************)
(* What EHLO, MAIL and RCPT make of the rest of their line (ehlo, mail,     *)
(* mail_param and rcpt of smtp/src/session/commands.cpp over the parsers of *)
(* Parse).  When a command is refused for another reason than its line is   *)
(* in Commands.                                                             *)
(***************************************************************************)
EXTENDS Parse, FiniteSets

CONSTANTS
  Greetings,   \* what may follow EHLO or HELO
  Arguments,   \* what may follow MAIL FROM: or RCPT TO:
  Lower,       \* tolower
  BodyKey,     \* BODY
  BodyValues   \* 7BIT and 8BITMIME

ASSUME TextsAssumption == Greetings \cup Arguments \subseteq Seq(DOMAIN Lower)

(* The characters of BODY are letters; no value is empty.                   *)
ASSUME BodyAssumption ==
  /\ BodyKey \in Seq(DOMAIN Lower) \ {<<>>}
  /\ \A c \in DOMAIN Lower, i \in DOMAIN BodyKey : Lower[c] = Lower[BodyKey[i]] => c \in Alnum
  /\ BodyValues \subseteq Seq(ParamValue) \ {<<>>}

VARIABLES
  verb,
  line,
  cmd,   \* the place in line where cmd starts
  path,  \* reverse or path: the result of the parser
  kept,  \* what is stored: metadata.from, reverse_path or the new forward_path
  pc     \* "start", "params", and then "ok" or "invalid_parameters"

vars == <<verb, line, cmd, path, kept, pc>>

Init ==
  /\ \/ verb = "EHLO" /\ line \in Greetings
     \/ verb \in {"MAIL", "RCPT"} /\ line \in Arguments
  /\ cmd = 1
  /\ path = NoMailbox
  /\ kept = <<>>
  /\ pc = "start"

Refuse ==
  /\ pc' = "invalid_parameters"
  /\ UNCHANGED <<verb, line, cmd, path, kept>>

Ehlo ==
  /\ verb = "EHLO" /\ pc = "start"
  /\ \/ Domain(line, 1) = Bad /\ Refuse
     \/ /\ Domain(line, 1) # Bad
        /\ kept' = SubSeq(line, 1, Domain(line, 1) - 1)
        /\ pc' = "ok"
        /\ UNCHANGED <<verb, line, cmd, path>>

(* A malformed result is NoMailbox.                                         *)
MailPath ==
  /\ verb = "MAIL" /\ pc = "start"
  /\ path' = ReversePath(line, 1)
  /\ \/ path'.rest = Bad /\ pc' = "invalid_parameters" /\ UNCHANGED cmd
     \/ path'.rest # Bad /\ pc' = "params" /\ cmd' = path'.rest
  /\ UNCHANGED <<verb, line, kept>>

Same(a, b) == Len(a) = Len(b) /\ \A i \in DOMAIN a : Lower[a[i]] = Lower[b[i]]

MailParam(i, p) ==
  /\ Same(SubSeq(line, i, p.equals - 1), BodyKey)
  /\ SubSeq(line, p.equals + 1, p.rest - 1) \in BodyValues

AnySeparator == TRUE  \* mutant: what separates the parameters is not looked at

Separated == line[cmd] = Space

TakeParam ==
  /\ verb = "MAIL" /\ pc = "params" /\ cmd <= Len(line)
  /\ LET parameter == ESMTPParam(line, cmd + 1)
         taken == Separated /\ parameter.rest # Bad /\ MailParam(cmd + 1, parameter)
     IN \/ ~taken /\ Refuse
        \/ /\ taken
           /\ cmd' = parameter.rest
           /\ UNCHANGED <<verb, line, path, kept, pc>>

MailEnd ==
  /\ verb = "MAIL" /\ pc = "params" /\ cmd > Len(line)
  /\ kept' = MailboxText(line, path)
  /\ pc' = "ok"
  /\ UNCHANGED <<verb, line, cmd, path>>

(* What follows the path is not looked at.                                  *)
Rcpt ==
  /\ verb = "RCPT" /\ pc = "start"
  /\ path' = Path(line, 1)
  /\ kept' = MailboxText(line, path')
  /\ pc' = IF path'.rest = Bad THEN "invalid_parameters" ELSE "ok"
  /\ UNCHANGED <<verb, line, cmd>>

Next == Ehlo \/ MailPath \/ TakeParam \/ MailEnd \/ Rcpt

Spec == Init /\ [][Next]_vars

TypeOK ==
  /\ verb \in {"EHLO", "MAIL", "RCPT"}
  /\ cmd \in 1 .. Len(line) + 1
  /\ path \in [{"local", "at", "rest"} -> 0 .. Len(line) + 1]
  /\ \E i, j \in 0 .. Len(line) : kept = SubSeq(line, i + 1, j)
  /\ pc \in {"start", "params", "ok", "invalid_parameters"}

-----------------------------------------------------------------------------
(* The grammar, of whole texts.                                             *)
Done == pc \in {"ok", "invalid_parameters"}

Upto(t, n) == SubSeq(t, 1, n)
From(t, n) == SubSeq(t, n, Len(t))

(* One or more words of the characters of C with dots between them.         *)
Dotted(t, C) ==
  /\ t # <<>> /\ t[1] # "." /\ t[Len(t)] # "."
  /\ \A i \in DOMAIN t : t[i] \in C \cup {"."}
  /\ \A i \in 2 .. Len(t) : ~(t[i - 1] = "." /\ t[i] = ".")

IsDomain(t) == Dotted(t, Label) /\ Len(t) <= DomainMax

(* An odd number of backslashes stands before the place.                    *)
Escaped(t, i) ==
  \E n \in 1 .. i - 1 :
    /\ n % 2 = 1 /\ \A j \in i - n .. i - 1 : t[j] = Backslash
    /\ i - n = 1 \/ t[i - n - 1] # Backslash

IsQuoted(t) ==
  /\ Len(t) > 1 /\ t[1] = Quote
  /\ \A i \in DOMAIN t : t[i] \in Printable
  /\ \A i \in 2 .. Len(t) : i = Len(t) <=> t[i] = Quote /\ ~Escaped(t, i)

IsLocal(t) == (Dotted(t, Atext) \/ IsQuoted(t)) /\ Len(t) <= LocalMax

(* Every piece between commas is an at sign and a domain.                   *)
IsRoute(t) ==
  LET end == Len(t)
      cuts == {0, end} \cup {i \in DOMAIN t : t[i] = Comma}
  IN \/ t = <<>>
     \/ /\ t[end] = ":"
        /\ \A a, b \in cuts : a < b /\ (\A c \in cuts : c <= a \/ c >= b) =>
             b > a + 1 /\ t[a + 1] = "@" /\ IsDomain(SubSeq(t, a + 2, b - 1))

(* Where the route and the local part of a mailbox end.                     *)
Parts(t) ==
  {p \in (0 .. Len(t)) \X (0 .. Len(t)) :
     /\ p[1] <= p[2] /\ p[2] < Len(t) /\ t[p[2] + 1] = "@"
     /\ IsDomain(From(t, p[2] + 2))
     /\ IsLocal(SubSeq(t, p[1] + 1, p[2]))
     /\ IsRoute(Upto(t, p[1]))}

Inside(t) == SubSeq(t, 2, Len(t) - 1)

IsPath(t) ==
  /\ Len(t) > 1 /\ t[1] = "<" /\ t[Len(t)] = ">"
  /\ Parts(Inside(t)) # {}

IsParam(t) ==
  \E i \in DOMAIN t : t[i] = "=" /\ Same(Upto(t, i - 1), BodyKey) /\ From(t, i + 1) \in BodyValues

(* Every piece that starts with a space is a parameter.                     *)
IsParams(t) ==
  LET cuts == {i \in DOMAIN t : t[i] = Space} \cup {Len(t) + 1}
  IN /\ t # <<>> => t[1] = Space
     /\ \A a, b \in cuts : a < b /\ (\A c \in cuts : c <= a \/ c >= b) =>
          IsParam(SubSeq(t, a + 1, b - 1))

StartsEmpty(t) == At(t, 1, "<") /\ At(t, 2, ">")

(* What the path is, if the command is accepted as it should be.            *)
PathsOf(t) == {n \in 0 .. Len(t) : IsPath(Upto(t, n))}

MailPathsOf(t) ==
  {n \in PathsOf(t) \cup (IF StartsEmpty(t) THEN {2} ELSE {}) :
     IsParams(From(t, n + 1))}

(* MAIL is accepted exactly for a path of the grammar, or the empty one,    *)
(* with nothing behind it but parameters; RCPT for any line that starts     *)
(* with a path.                                                             *)
PathsAreGrammatical ==
  Done /\ verb # "EHLO" =>
    (pc = "ok" <=> (IF verb = "MAIL" THEN MailPathsOf(line) ELSE PathsOf(line)) # {})

(* What is kept of a path is its mailbox, whole and without the route.      *)
KeptIsMailbox ==
  pc = "ok" /\ verb # "EHLO" =>
    \/ verb = "MAIL" /\ kept = <<>> /\ StartsEmpty(line)
    \/ \E n \in PathsOf(line) :
         LET t == Inside(Upto(line, n))
         IN \E p \in Parts(t) : kept = From(t, p[1] + 1)

(* The buffer of the local part holds what a quoted string stands for, and  *)
(* no more than it has room for.                                            *)
BufferIsUnquoted ==
  pc = "ok" /\ path.local # Bad =>
    LET body == SubSeq(line, path.local, path.at - 1)
        buffer == LocalBuffer(line, path)
        quoted == body[1] = Quote
        meant == {i \in DOMAIN body :
                    quoted => /\ i \notin {1, Len(body)}
                              /\ body[i] = Backslash => Escaped(body, i)}
        Nth(i) == Cardinality({j \in meant : j <= i})
    IN /\ Len(buffer) = Cardinality(meant) /\ Len(buffer) <= LocalMax
       /\ \A i \in meant : buffer[Nth(i)] = body[i]

(* The result of a path that is accepted is what the client meant.          *)
PathIsMeant == KeptIsMailbox /\ BufferIsUnquoted

(* A greeting is accepted for a domain, whatever follows it; for nothing at *)
(* all; and for a domain with a dot at the end of the line.                 *)
GreetingIsDomain ==
  Done /\ verb = "EHLO" =>
    LET longest == Upto(line, Run(line, 1, Label \cup {"."}) - 1)
        bare == IF longest # <<>> /\ longest = line /\ line[Len(line)] = "."
                THEN Upto(line, Len(line) - 1) ELSE longest
    IN /\ pc = "ok" <=> /\ line = <<>> \/ IsDomain(bare)
                        /\ Len(longest) <= DomainMax
       /\ pc = "ok" => kept = longest

=============================================================================
