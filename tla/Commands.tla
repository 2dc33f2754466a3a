------------------------------ MODULE Commands ------------------------------
(***************************************************************************)
(* The SMTP commands: smtp/src/session/commands.cpp, and their dispatch in  *)
(* session::call_command.  Each action receives one command line and        *)
(* answers it; DATA, which opens a file, is in MessageFile.                 *)
(***************************************************************************)
EXTENDS SessionState

(* EHLO and HELO: a domain that does not parse changes nothing.             *)
Helo(c) ==
  /\ AtCommand(c)
  /\ \/ Become(c, Answer(sess[c], "refused"))
     \/ \E d \in Domains :
          Become(c, Answer([Reset(sess[c]) EXCEPT !.from = d, !.begun = TRUE], "ok"))
  /\ OnlySessions

MailBadPath(c) ==
  /\ AtCommand(c)
  /\ Become(c, Answer(sess[c], "refused"))
  /\ OnlySessions

MailOutOfSequence(c) ==
  /\ AtCommand(c)
  /\ sess[c].reverseSet \/ ~sess[c].begun
  /\ Become(c, Answer(sess[c], "refused"))
  /\ OnlySessions

(* A transaction starts with the reverse path and no recipients.  "MAIL     *)
(* FROM:" puts an 'M' at index 8 of _cmd_buffer, hence the tail.            *)
KeepRecipients(s, p) ==  \* mutant: the recipients are not cleared
  [s EXCEPT !.reverse = p, !.reverseSet = TRUE, !.acked = {}, !.tail = None]

OpenEnvelope(s, p) ==
  [s EXCEPT !.reverse = p, !.forward = <<>>, !.reverseSet = TRUE, !.acked = {}, !.tail = None]

MailAccepted(c) ==
  /\ AtCommand(c)
  /\ ~sess[c].reverseSet /\ sess[c].begun
  /\ \E p \in ReversePaths : Become(c, Answer(OpenEnvelope(sess[c], p), "ok"))
  /\ OnlySessions

Mail(c) == MailBadPath(c) \/ MailOutOfSequence(c) \/ MailAccepted(c)

-----------------------------------------------------------------------------
(* RCPT for the path p, None if it does not parse; the client named it, or  *)
(* nobody.                                                                  *)
RcptFor(c, s, p, named) ==
  \/ /\ ~s.begun
     /\ Become(c, Answer(s, "refused"))
  \/ /\ s.begun /\ Len(s.forward) >= MaxRcpt
     /\ Become(c, Answer(s, "refused"))
  \/ /\ s.begun /\ Len(s.forward) < MaxRcpt /\ p = None
     /\ Become(c, Answer(s, "refused"))
  \/ /\ s.begun /\ Len(s.forward) < MaxRcpt /\ p # None
     /\ Become(c, Answer([s EXCEPT !.forward = Append(@, p), !.acked = @ \cup named], "ok"))

(* A line too short for "TO:" is refused before anything else is looked at. *)
RcptTooShort(c) ==
  /\ AtCommand(c)
  /\ Become(c, Answer(sess[c], "refused"))
  /\ OnlySessions

(* The path of "RCPT TO:" starts at index 8 of _cmd_buffer and stays there. *)
Rcpt(c) ==
  /\ AtCommand(c)
  /\ \E p \in Mailboxes \cup {None} :
       RcptFor(c, [sess[c] EXCEPT !.tail = p], p, {p})
  /\ OnlySessions

(* A bare "RCPT": call_command steps over its end, accept writes "TO:" into *)
(* the buffer, and the path is what an earlier line left at index 8, unless *)
(* a longer line has overwritten it since.                                  *)
BareRcpt(c) ==
  /\ AtCommand(c)
  /\ \E p \in {sess[c].tail, None} : RcptFor(c, sess[c], p, {})
  /\ OnlySessions

-----------------------------------------------------------------------------
Rset(c) ==
  /\ AtCommand(c)
  /\ Become(c, Answer(Reset(sess[c]), "ok"))
  /\ OnlySessions

(* NOOP, VRFY, a line that is no command and one longer than _cmd_buffer.   *)
Noop(c) ==
  /\ AtCommand(c)
  /\ \E code \in {"ok", "refused"} : Become(c, Answer(sess[c], code))
  /\ OnlySessions

(* QUIT: STATE_CLOSED ends the loop of session::handle.                     *)
Quit(c) ==
  /\ AtCommand(c)
  /\ Become(c, NoSession)
  /\ OnlySessions

Command(c) ==
  \/ Helo(c) \/ Mail(c) \/ RcptTooShort(c) \/ Rcpt(c) \/ BareRcpt(c)
  \/ Rset(c) \/ Noop(c) \/ Quit(c)

=============================================================================
