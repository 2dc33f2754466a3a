------------------------------ MODULE Session ------------------------------
(***************************************************************************)
(* The receiving process: its accept loop (smtp/src/main.cpp), the life of  *)
(* a session (session::handle), its commands and its message files, and the *)
(* death and restart of the process.                                        *)
(***************************************************************************)
EXTENDS Commands, MessageFile

Init ==
  /\ sess = [c \in Conns |-> NoSession]
  /\ disk = [n \in {} |-> EmptyFile]
  /\ boot = 0
  /\ counter = 0
  /\ sigio = None
  /\ listening = TRUE
  /\ accepted = {}
  /\ abandoned = {}
  /\ syncFailed = {}
  /\ lost = {}

(* The accept loop spawns a session, whose _data_error is whatever the heap *)
(* holds.                                                                   *)
Connect(c) ==
  /\ listening
  /\ sess[c].pc = "down"
  /\ \E e \in BOOLEAN : Become(c, NewSession(e))
  /\ OnlySessions

(* An accept that fails, for any reason, ends the loop for good.            *)
AcceptFails ==
  /\ listening
  /\ listening' = FALSE
  /\ UNCHANGED <<sess, disk, boot, counter, sigio, accepted, abandoned, syncFailed, lost>>

Open(s) == s.state = "DATA" \/ s.pc \in OpenParts

(* recv fails or returns 0.  In the midst of a message its file stays.      *)
Disconnect(c) ==
  /\ sess[c].pc = "recv"
  /\ Become(c, NoSession)
  /\ abandoned' = IF Open(sess[c]) THEN abandoned \cup {sess[c].path} ELSE abandoned
  /\ UNCHANGED <<disk, boot, counter, sigio, listening, accepted, syncFailed, lost>>

(* The process is gone and is started again.  A new incarnation is another  *)
(* pid or another second and counts from 0.                                 *)
Restart ==
  /\ boot < MaxBoots
  /\ boot' = boot + 1
  /\ counter' = 0
  /\ sess' = [c \in Conns |-> NoSession]
  /\ sigio' = None
  /\ listening' = TRUE
  /\ abandoned' = abandoned \cup {sess[c].path : c \in {x \in Conns : Open(sess[x])}}
  /\ UNCHANGED <<accepted, syncFailed>>

(* The process dies; what it has written stays.                             *)
Crash == Restart /\ UNCHANGED <<disk, lost>>

(* The machine dies.  What is synced is a file, and never ./ingoing/, where *)
(* O_CREAT made its entry: any entry may be gone, and of the files that are *)
(* left those that are not synced may have lost their data.                 *)
PowerFailure ==
  /\ Restart
  /\ \E gone \in SUBSET DOMAIN disk :
       \E bare \in SUBSET {n \in DOMAIN disk \ gone : ~disk[n].synced} :
         /\ disk' = [n \in DOMAIN disk \ gone |-> IF n \in bare THEN EmptyFile ELSE disk[n]]
         /\ lost' = lost \cup gone \cup bare

Next ==
  \/ \E c \in Conns :
       \/ Connect(c) \/ Disconnect(c)
       \/ Command(c) \/ DataOutOfSequence(c) \/ Data(c)
       \/ ReceiveLine(c) \/ EndOfData(c)
       \/ Progress(c) \/ SyncCompletes(c) \/ Acknowledge(c)
  \/ AcceptFails
  \/ Crash
  \/ PowerFailure

Spec == Init /\ [][Next]_vars

(* The dispatcher resumes a session whose write has completed, the kernel   *)
(* completes an fsync and delivers a pending signal.  Clients owe nothing.  *)
Fairness ==
  \A c \in Conns : WF_vars(Progress(c)) /\ WF_vars(SyncCompletes(c)) /\ WF_vars(Acknowledge(c))

FairSpec == Spec /\ Fairness

-----------------------------------------------------------------------------
(* Safety *)

AcceptedNames == {m.name : m \in accepted}

(* A message answered 250 is on disk until a power failure takes its entry, *)
(* however often the process died and whatever other transactions did to    *)
(* their files; and while it is there it is synced, so that no failure of   *)
(* power can have taken a part of it only: finish_data's order of writes,   *)
(* fsync and reply.  Excepted from the second is a message whose            *)
(* asynchronous fsync failed, which sync_file does not find out.            *)
AcceptedIsDurable ==
  \A n \in AcceptedNames :
    /\ n \in DOMAIN disk \cup lost
    /\ n \in DOMAIN disk \ syncFailed => disk[n].synced

(* The file of a message answered 250 has every part of the archive, the    *)
(* lines the client sent, unstuffed and none of them missing, and in its    *)
(* metadata the reverse path and the recipients that MAIL and RCPT of this  *)
(* transaction were answered 250 for.  Excepted is a file that a power      *)
(* failure emptied, which its fsync must have failed for.                   *)
AcceptedIsWhole ==
  \A m \in accepted : m.name \in DOMAIN disk \ (lost \cap syncFailed) =>
    /\ disk[m.name].parts = Parts
    /\ disk[m.name].lines = m.lines
    /\ disk[m.name].reverse = m.reverse
    /\ Range(disk[m.name].forward) = m.acked

(* The recipients of an open transaction are those RCPT accepted since MAIL *)
(* did: none from before MAIL, from the last message, or from the bytes     *)
(* that a bare RCPT finds in the command buffer.                            *)
EnvelopeIsOwn ==
  \A c \in Conns : sess[c].reverseSet => Range(sess[c].forward) = sess[c].acked

Writing(c) == Open(sess[c])

(* A session in the midst of a message has its file to itself: it exists,   *)
(* no other session writes it, and it is neither one that was answered 250  *)
(* nor one that was left behind, across sessions and restarts.              *)
FileIsOwn ==
  \A c \in Conns : Writing(c) =>
    /\ sess[c].path \in DOMAIN disk \ (AcceptedNames \cup abandoned)
    /\ \A d \in Conns \ {c} : Writing(d) => sess[d].path # sess[c].path

(* Every file below ./ingoing/ is a message answered 250, one in the midst  *)
(* of its transaction, or one that a failed open_files, a lost connection   *)
(* or a crash left behind: an aborted message leaves nothing.               *)
SpoolAccounted ==
  DOMAIN disk \subseteq
    AcceptedNames \cup abandoned \cup {sess[c].path : c \in {x \in Conns : Writing(x)}}

-----------------------------------------------------------------------------
(* The inductive invariant that the safety properties follow from.          *)

(* Where a session can be suspended in which state.                         *)
WellSuspended(s) ==
  /\ s.pc \in OpenParts \cup {"down"} => s.state = "CMD"
  /\ s.pc \in FinishParts \cup {"write", "sync", "syncwait", "notify", "hung"} =>
       s.state = "DATA"

(* What a bare RCPT can find is a recipient already, once MAIL is accepted. *)
KnownTail(s) ==
  s.reverseSet =>
    /\ s.begun
    /\ Range(s.forward) = s.acked
    /\ s.tail \in s.acked \cup {None} \/ Len(s.forward) >= MaxRcpt

Used(n) == n \in Names /\ (n[1] < boot \/ (n[1] = boot /\ n[2] < counter))

(* Whatever has a name had it from get_unique_filename before.              *)
NamesUsed ==
  /\ \A n \in DOMAIN disk \cup AcceptedNames \cup abandoned \cup syncFailed : Used(n)
  /\ \A c \in Conns : Writing(c) => Used(sess[c].path)

(* The pending SIGIO names the one session that it will resume.             *)
SignalNames == \A c \in Conns : sess[c].pc = "notify" <=> sigio = c

(* A session whose request is complete has a synced file or a failed fsync; *)
(* until then it has neither.                                               *)
SyncKnown ==
  \A c \in Conns : Writing(c) =>
    IF sess[c].pc \in {"notify", "hung"}
    THEN sess[c].path \in syncFailed \/ disk[sess[c].path].synced
    ELSE sess[c].path \notin syncFailed /\ ~disk[sess[c].path].synced

(* What a power failure met was a message's or nobody's any more, and what  *)
(* it left without data stays as it is.                                     *)
LossKnown ==
  /\ lost \subseteq AcceptedNames \cup abandoned
  /\ \A n \in lost \cap DOMAIN disk : ~disk[n].synced

IInv ==
  /\ TypeOK
  /\ \A c \in Conns : WellSuspended(sess[c]) /\ KnownTail(sess[c])
  /\ NamesUsed
  /\ SignalNames
  /\ FileIsOwn
  /\ SyncKnown
  /\ LossKnown
  /\ AcceptedIsDurable
  /\ SpoolAccounted

-----------------------------------------------------------------------------
(* What AcceptedIsWhole, VerdictIsTrue and KeepsPromise follow from, on top *)
(* of IInv: what the file and the flags of a session hold at each await.    *)

(* The parts that are written when a session is suspended at pc.            *)
PartsBefore(pc) ==
  CASE pc = "space"                       -> {}
    [] pc = "trace"                       -> {"space"}
    [] pc \in {"recv", "write", "header"} -> OpenParts
    [] pc = "pad"                         -> OpenParts \cup {"header"}
    [] pc = "metaspace"                   -> OpenParts \cup {"header", "pad"}
    [] pc = "meta"                        -> OpenParts \cup {"header", "pad", "metaspace"}
    [] pc = "metaheader"                  -> Parts \ {"metaheader", "metapad"}
    [] pc = "metapad"                     -> Parts \ {"metapad"}
    [] OTHER                              -> Parts

Syncing == {"sync", "syncwait", "notify", "hung"}

(* The lines in the file are those the client sent, up to the one that is   *)
(* being written, for as long as nothing went wrong.                        *)
LinesAreSent(s, f) ==
  /\ s.pc \in OpenParts => f.lines = <<>>
  /\ s.pc = "recv" /\ Keeps(s) => f.lines = s.sent
  /\ s.pc = "write" => Keeps(s) /\ Append(f.lines, s.line) = s.sent
  /\ s.pc \in FinishParts \cup Syncing => Keeps(s) /\ f.lines = s.sent

(* The metadata are those of the session once they are written.             *)
EnvelopeIsStored(s, f) ==
  s.pc \in {"metaheader", "metapad"} \cup Syncing =>
    f.reverse = s.reverse /\ f.forward = s.forward

InProgress(s, f) ==
  /\ s.reverseSet
  /\ f.parts = PartsBefore(s.pc)
  /\ LinesAreSent(s, f)
  /\ EnvelopeIsStored(s, f)

(* The characters of a text with the CRLF of each line, and whether one of  *)
(* its lines is too long.                                                   *)
TextSize(lines) ==
  LET size[i \in 0 .. Len(lines)] == IF i = 0 THEN 0 ELSE size[i - 1] + Size(lines[i]) + 2
  IN size[Len(lines)]

TooLong(lines) == \E i \in DOMAIN lines : Size(lines[i]) > MaxLine

(* What is counted is the size of the text, but for lines that did not fit  *)
(* _line_buffer; the flags are those of this text.                          *)
Counted(s) ==
  s.state = "DATA" =>
    /\ s.dataSize <= TextSize(s.sent)
    /\ ~s.lineTooLong => s.dataSize = TextSize(s.sent)
    /\ s.dataTooLong <=> s.dataSize > MaxSize
    /\ s.lineTooLong <=> TooLong(s.sent)

ContentInv ==
  /\ \A c \in Conns : /\ sess[c].state = "CMD" => sess[c].sent = <<>>
                      /\ Writing(c) => InProgress(sess[c], disk[sess[c].path])
                      /\ Counted(sess[c])
  /\ AcceptedIsWhole

-----------------------------------------------------------------------------
(* Actions *)

(* The end of data is answered 552 only for a text longer than the limit,   *)
(* 500 only for one with a line too long, and 250 for neither: the flags    *)
(* that decide it say what this text was, not what the last one was.        *)
VerdictIsTrue ==
  [][\A c \in Conns :
       sess[c].state = "DATA" /\ sess[c].pc # "down" /\ sess'[c].state = "CMD" =>
         /\ sess'[c].reply = "exceeded_storage" => TextSize(sess[c].sent) > MaxSize
         /\ sess'[c].reply = "exceeded_line" => TooLong(sess[c].sent)
         /\ sess'[c].reply = "ok" => TextSize(sess[c].sent) <= MaxSize /\ ~TooLong(sess[c].sent)
    ]_vars

(* The end of data goes unanswered only at its own line, with no flag set:  *)
(* abort_data, called because tellg failed, has nothing to say then.  A     *)
(* failure of any later write, or of aio_fsync, is answered.                *)
OnlyTellIsSilent ==
  [][\A c \in Conns :
       sess[c].state = "DATA" /\ sess'[c].state = "CMD" /\ sess'[c].pc = "recv"
         /\ sess'[c].reply = "none"
       => sess[c].pc = "recv" /\ Keeps(sess[c])]_vars

(* Nothing that the receiver does, before or after a restart, writes,       *)
(* truncates or unlinks a file once its message has been answered 250:      *)
(* neither a later message of its session, nor another session, nor one of  *)
(* the next incarnation, which take their names from the same directory.    *)
AcceptedIsUntouched ==
  [][boot' = boot =>
       \A n \in AcceptedNames \cap DOMAIN disk : n \in DOMAIN disk' /\ disk'[n] = disk[n]]_vars

-----------------------------------------------------------------------------
(* The receiver keeps the promise of Delivery: a file is stored once it is  *)
(* synced, with the lines, the reverse path and the recipients it holds;    *)
(* what is promised is what the client of an accepted message sent; and     *)
(* what goes, goes by a power failure.                                      *)

Content(lines, reverse, recipients) ==
  [lines |-> lines, reverse |-> reverse, recipients |-> recipients]

FileContent(f) == Content(f.lines, f.reverse, Range(f.forward))

Stored == [n \in {x \in DOMAIN disk : disk[x].synced} |-> FileContent(disk[n])]

MessagePromise(m) == [name |-> m.name, content |-> Content(m.lines, m.reverse, m.acked)]

Promised == {MessagePromise(m) : m \in accepted}

D == INSTANCE Delivery WITH stored <- Stored, promised <- Promised, doubtful <- syncFailed

KeepsPromise == D!Spec

-----------------------------------------------------------------------------
(* Claims the program does not keep *)

(* 451 is "Requested action aborted: local error in processing".  At the    *)
(* line that ends the data, before finish_data has written anything, it can *)
(* only mean that a line of this message could not be written.              *)
LocalErrorIsReal ==
  [][\A c \in Conns :
       sess[c].state = "DATA" /\ sess[c].pc = "recv" /\ sess'[c].state = "CMD"
         /\ sess'[c].reply = "local_error"
       => sess[c].fault]_vars

-----------------------------------------------------------------------------
(* Liveness *)

Finishing(c) == sess[c].pc \in FinishParts \cup {"sync", "syncwait", "notify"}

(* A session that completes a message gets back to its client, with 250 or  *)
(* with an error, unless the process dies or the completion of its fsync    *)
(* meets the pending signal of another session and is lost.                 *)
EndOfDataAnswered ==
  \A c \in Conns : Finishing(c) ~> (sess[c].pc \in {"recv", "down", "hung"})

=============================================================================
