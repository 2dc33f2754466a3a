---------------------------- MODULE SessionState ----------------------------
(***************************************************************************)
(* The state of the SMTP receiver of Ervan 2: one `session` object per      *)
(* connection (smtp/include/ervan/smtp/session.hpp), the message files      *)
(* below ./ingoing/, the process that owns both, and the record of what     *)
(* the clients have been told.                                             *)
(*                                                                         *)
(* The receiver is one thread that runs many coroutines: a session runs    *)
(* without interruption from one co_await to the next, so an action is the *)
(* code between two awaits and `pc` names the await a session is           *)
(* suspended at.                                                           *)
(***************************************************************************)
EXTENDS Naturals, Sequences, FiniteSets, Functions

CONSTANTS
  Conns,      \* connections the process can serve at the same time
  Domains,    \* domains a client greets with
  Mailboxes,  \* mailboxes named in paths
  ReversePaths, \* reverse paths of MAIL: mailboxes, or None for the null path
  Lines,      \* lines of text clients send: [dots, len], leading dots and the rest
  None,       \* no domain, path, file or connection
  MaxRcpt,    \* config_maxrcpt
  MaxSize,    \* config_maxmessagesize, in characters
  MaxLine,    \* rfc5322::max_line_length - 2, the longest line without its CRLF
  LineCap,    \* what _line_buffer holds without its CRLF
  MaxFiles,   \* bound: message files created by one process
  MaxLines,   \* bound: lines of text in one message
  MaxBoots    \* bound: restarts of the process

LineType == [dots : Nat, len : Nat]
NoLine   == [dots |-> 0, len |-> 0]

ASSUME InputsAssumption ==
  /\ Lines \subseteq LineType
  /\ ReversePaths \subseteq Mailboxes \cup {None}

ASSUME LimitsAssumption ==
  /\ MaxRcpt \in Nat /\ MaxSize \in Nat /\ MaxLine \in Nat
  /\ LineCap \in Nat /\ MaxLine < LineCap
  /\ MaxFiles \in Nat /\ MaxLines \in Nat /\ MaxBoots \in Nat

ASSUME NoneAssumption == None \notin Conns \cup Domains \cup Mailboxes \cup (Nat \X Nat)

VARIABLES
  sess,       \* the session of each connection
  disk,       \* the files below ./ingoing/, by name
  boot,       \* the incarnation of the process: its pid and starting time
  counter,    \* the static counter of get_unique_filename
  sigio,      \* the session named by the pending SIGIO, or None
  listening,  \* the accept loop is running
  accepted,   \* history: the messages whose DATA was answered 250
  abandoned,  \* history: names of files that no session will touch again
  syncFailed, \* history: names of files whose asynchronous fsync failed
  lost        \* history: names of files that a power failure took, or their data

vars ==
  <<sess, disk, boot, counter, sigio, listening, accepted, abandoned, syncFailed, lost>>

-----------------------------------------------------------------------------
(* The writes that make up a message file, in the order open_files and      *)
(* finish_data perform them; the lines of text come between the two groups. *)

OpenParts   == {"space", "trace"}
FinishParts == {"header", "pad", "metaspace", "meta", "metaheader", "metapad"}
Parts       == OpenParts \cup FinishParts

(* Where a session is suspended: at recv, at one of the writes above, at    *)
(* the write of a line, before aio_fsync ("sync"), at the await for its     *)
(* completion ("syncwait"), with the SIGIO that names it pending            *)
(* ("notify"), or at that await after the notification was lost ("hung").   *)
PCs == {"down", "recv", "write", "sync", "syncwait", "notify", "hung"} \cup Parts

(* The replies of types.hpp that the properties tell apart.  "refused" is    *)
(* any that leaves a command without effect: too_many_recipients,           *)
(* invalid_command, invalid_parameters, not_implemented, bad_sequence and   *)
(* exceeded_line for a command; "none": an answer is due.                   *)
Replies ==
  {"ok", "start_data", "local_error", "exceeded_line", "exceeded_storage", "refused", "none"}

Names == Nat \X Nat

FileType ==
  [parts   : SUBSET Parts,
   lines   : Seq(LineType),
   from    : Domains \cup {None},
   reverse : Mailboxes \cup {None},
   forward : Seq(Mailboxes),
   synced  : BOOLEAN]

SessionType ==
  [pc : PCs, state : {"CMD", "DATA"}, begun : BOOLEAN, reverseSet : BOOLEAN,
   from : Domains \cup {None}, reverse : Mailboxes \cup {None}, forward : Seq(Mailboxes),
   dataSize : Nat, dataTooLong : BOOLEAN, lineTooLong : BOOLEAN, dataError : BOOLEAN,
   path : Names \cup {None}, line : LineType,
   tail : Mailboxes \cup {None}, \* the path left behind in _cmd_buffer
   reply : Replies,              \* the last reply sent
   sent : Seq(LineType),         \* history: the lines of text the client sent
   acked : SUBSET Mailboxes,     \* history: recipients answered 250 since MAIL was
   fault : BOOLEAN]              \* history: a write of this message failed

MessageType ==
  [name : Names, lines : Seq(LineType), reverse : Mailboxes \cup {None},
   acked : SUBSET Mailboxes]

TypeOK ==
  /\ sess \in [Conns -> SessionType]
  /\ DOMAIN disk \subseteq Names
  /\ disk \in [DOMAIN disk -> FileType]
  /\ boot \in Nat
  /\ counter \in Nat
  /\ sigio \in Conns \cup {None}
  /\ listening \in BOOLEAN
  /\ accepted \subseteq MessageType
  /\ abandoned \subseteq Names
  /\ syncFailed \subseteq Names
  /\ lost \subseteq Names

-----------------------------------------------------------------------------
EmptyFile ==
  [parts |-> {}, lines |-> <<>>, from |-> None, reverse |-> None, forward |-> <<>>,
   synced |-> FALSE]

(* session::session and its reset.  `e` is what the heap held where         *)
(* _data_error is: the constructor does not write it.  The other members it *)
(* leaves alone are assigned by DATA before they are read.                  *)
NewSession(e) ==
  [pc |-> "recv", state |-> "CMD", begun |-> FALSE, reverseSet |-> FALSE,
   from |-> None, reverse |-> None, forward |-> <<>>,
   dataSize |-> 0, dataTooLong |-> FALSE, lineTooLong |-> FALSE, dataError |-> e,
   path |-> None, line |-> NoLine, tail |-> None,
   reply |-> "ok", sent |-> <<>>, acked |-> {}, fault |-> FALSE]

NoSession == [NewSession(FALSE) EXCEPT !.pc = "down", !.reply = "none"]

(* session::reset: the whole of _metadata goes, the greeting does not.      *)
Reset(s) ==
  [s EXCEPT !.state = "CMD", !.from = None, !.reverse = None, !.forward = <<>>,
            !.reverseSet = FALSE]

(* session::reply, after which the session is back at recv.                 *)
Answer(s, code) == [s EXCEPT !.pc = "recv", !.reply = code]

Become(c, s) == sess' = [sess EXCEPT ![c] = s]

AtCommand(c) == sess[c].pc = "recv" /\ sess[c].state = "CMD"

(* Nothing but sessions changes.                                            *)
OnlySessions ==
  UNCHANGED <<disk, boot, counter, sigio, listening, accepted, abandoned, syncFailed, lost>>

=============================================================================
