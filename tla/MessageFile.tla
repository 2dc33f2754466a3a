---------------------------- MODULE MessageFile ----------------------------
(***************************************************************************)
(* The message file of a transaction: opened by DATA, filled line by line, *)
(* completed, synced and acknowledged or unlinked at the end of data        *)
(* (smtp/src/session/file.cpp, session::data, session::feed_data and        *)
(* io::sync_file).                                                          *)
(***************************************************************************)
EXTENDS SessionState

Create(n) ==
  disk' = [m \in DOMAIN disk \cup {n} |-> IF m \in DOMAIN disk THEN disk[m] ELSE EmptyFile]

Write(n, f) == disk' = [disk EXCEPT ![n] = f]

KeepFile(n) == UNCHANGED disk  \* mutant: the file is left

Unlink(n) == disk' = Restrict(disk, DOMAIN disk \ {n})

(* pid and time tell incarnations apart, the static counter the files of    *)
(* one.                                                                     *)
FirstName == <<boot, 0>>        \* mutant: the counter is not used
SameBootName == <<0, counter>>  \* mutant: incarnations are not told apart

UniqueName == <<boot, counter>>

-----------------------------------------------------------------------------
(* DATA *)

DataOutOfSequence(c) ==
  /\ AtCommand(c)
  /\ ~sess[c].reverseSet \/ sess[c].forward = <<>>
  /\ Become(c, Answer(sess[c], "refused"))
  /\ OnlySessions

(* open_files names the file before it opens it: O_CREAT without O_EXCL or  *)
(* O_TRUNC, so a file of that name would be written over.                   *)
Data(c) ==
  /\ AtCommand(c)
  /\ sess[c].reverseSet /\ sess[c].forward # <<>>
  /\ counter < MaxFiles
  /\ counter' = counter + 1
  /\ LET s == [sess[c] EXCEPT !.path = UniqueName]
     IN \/ /\ Become(c, [s EXCEPT !.pc = "space", !.reply = "none"])
           /\ Create(UniqueName)
        \/ /\ Become(c, Answer(s, "local_error"))
           /\ UNCHANGED disk
  /\ UNCHANGED <<boot, sigio, listening, accepted, abandoned, syncFailed, lost>>

(* The flags of the last message are cleared here, but not _data_error.     *)
StaleStart(s) ==  \* mutant: the flags of the last message stay
  [Answer(s, "start_data") EXCEPT !.state = "DATA", !.dataSize = 0]

StartData(s) ==
  [Answer(s, "start_data") EXCEPT !.state = "DATA", !.dataSize = 0, !.dataTooLong = FALSE,
                         !.lineTooLong = FALSE]

(* The header space and the trace header.  A failure refuses DATA and       *)
(* leaves what was created where it is: no session unlinks it.              *)
OpenWrite(c) ==
  /\ sess[c].pc \in OpenParts
  /\ LET s == sess[c]
         f == disk[s.path]
     IN \/ /\ Write(s.path, [f EXCEPT !.parts = @ \cup {s.pc}])
           /\ Become(c, IF s.pc = "space" THEN [s EXCEPT !.pc = "trace"] ELSE StartData(s))
           /\ UNCHANGED abandoned
        \/ /\ Become(c, Answer(s, "local_error"))
           /\ abandoned' = abandoned \cup {s.path}
           /\ UNCHANGED disk
  /\ UNCHANGED <<boot, counter, sigio, listening, accepted, syncFailed, lost>>

-----------------------------------------------------------------------------
(* Lines of text *)

Size(l) == l.dots + l.len

(* What a client sends for a line of text: a dot more before a dot.         *)
Stuff(l) == IF l.dots > 0 THEN [l EXCEPT !.dots = @ + 1] ELSE l

(* What feed_data makes of it.  A single dot is left alone, but a client    *)
(* that stuffs sends one only as the end of data.                           *)
NoUnstuff(l) == l                            \* mutant: the added dot stays
DropFirst(l) == [l EXCEPT !.dots = @ - 1]    \* mutant: a dot is dropped unseen

Unstuff(l) == IF l.dots > 1 THEN [l EXCEPT !.dots = @ - 1] ELSE l

(* A line that does not fit _line_buffer is dropped by join, a longer one   *)
(* or one too many only remembered; the rest is written unless something    *)
(* went wrong before.                                                       *)
Measure(s, l) ==
  LET size == s.dataSize + Size(l) + 2
  IN [s EXCEPT !.dataSize = size,
               !.lineTooLong = @ \/ Size(l) > MaxLine,
               !.dataTooLong = @ \/ size > MaxSize]

Keeps(s) == ~s.lineTooLong /\ ~s.dataTooLong /\ ~s.dataError

ReceiveLine(c) ==
  /\ sess[c].pc = "recv" /\ sess[c].state = "DATA"
  /\ Len(sess[c].sent) < MaxLines
  /\ \E text \in Lines :
       LET s == [sess[c] EXCEPT !.sent = Append(@, text)]
           wire == Stuff(text)
           l == Unstuff(wire)
           m == Measure(s, l)
       IN \/ /\ Size(wire) > LineCap
             /\ Become(c, [s EXCEPT !.lineTooLong = TRUE])
          \/ /\ Size(wire) <= LineCap /\ ~Keeps(m)
             /\ Become(c, m)
          \/ /\ Size(wire) <= LineCap /\ Keeps(m)
             /\ Become(c, [m EXCEPT !.line = l, !.pc = "write"])
  /\ OnlySessions

QuietError(s) == [s EXCEPT !.fault = TRUE]  \* mutant: the error is not remembered

Errored(s) == [s EXCEPT !.dataError = TRUE, !.fault = TRUE]

WriteLine(c) ==
  /\ sess[c].pc = "write"
  /\ LET s == sess[c]
         f == disk[s.path]
     IN \/ /\ Write(s.path, [f EXCEPT !.lines = Append(@, s.line)])
           /\ Become(c, [s EXCEPT !.pc = "recv", !.line = NoLine])
        \/ /\ Become(c, [Errored(s) EXCEPT !.pc = "recv", !.line = NoLine])
           /\ UNCHANGED disk
  /\ UNCHANGED <<boot, counter, sigio, listening, accepted, abandoned, syncFailed, lost>>

-----------------------------------------------------------------------------
(* The end of data *)

(* The answer of abort_data: none if no flag is set.                        *)
Verdict(s) ==
  CASE s.dataTooLong                                      -> "exceeded_storage"
    [] ~s.dataTooLong /\ s.lineTooLong                    -> "exceeded_line"
    [] ~s.dataTooLong /\ ~s.lineTooLong /\ s.dataError    -> "local_error"
    [] ~s.dataTooLong /\ ~s.lineTooLong /\ ~s.dataError   -> "none"

(* The session lets go of its file; what the client sent is history.        *)
LetGo(s) == [Reset(s) EXCEPT !.path = None, !.sent = <<>>, !.fault = FALSE]

(* abort_data *)
Abort(c, s) ==
  /\ Unlink(s.path)
  /\ Become(c, Answer(LetGo(s), Verdict(s)))
  /\ UNCHANGED <<boot, counter, sigio, listening, accepted, abandoned, syncFailed, lost>>

(* The line with the single dot.  finish_data starts with a tellg that may  *)
(* fail; with _data_error set it writes nothing and aborts.                 *)
EndOfData(c) ==
  /\ sess[c].pc = "recv" /\ sess[c].state = "DATA"
  /\ LET s == [sess[c] EXCEPT !.reply = "none"]
     IN \/ /\ ~Keeps(s)
           /\ Abort(c, s)
        \/ /\ ~s.lineTooLong /\ ~s.dataTooLong
           /\ Abort(c, s)
        \/ /\ Keeps(s)
           /\ Become(c, [s EXCEPT !.pc = "header"])
           /\ OnlySessions

(* What finish_data does after each of its writes.                          *)
SkipMetadata ==  \* mutant: metadata::write_to is not called
  [p \in FinishParts |->
     CASE p = "header"     -> "pad"
       [] p = "pad"        -> "metaspace"
       [] p = "metaspace"  -> "metaheader"
       [] p = "meta"       -> "metaheader"
       [] p = "metaheader" -> "metapad"
       [] p = "metapad"    -> "sync"]

After ==
  [p \in FinishParts |->
     CASE p = "header"     -> "pad"
       [] p = "pad"        -> "metaspace"
       [] p = "metaspace"  -> "meta"
       [] p = "meta"       -> "metaheader"
       [] p = "metaheader" -> "metapad"
       [] p = "metapad"    -> "sync"]

(* metadata::write_to *)
Written(f, s) ==
  IF s.pc = "meta"
  THEN [f EXCEPT !.parts = @ \cup {"meta"}, !.from = s.from, !.reverse = s.reverse,
                 !.forward = s.forward]
  ELSE [f EXCEPT !.parts = @ \cup {s.pc}]

FinishWrite(c) ==
  /\ sess[c].pc \in FinishParts
  /\ LET s == sess[c]
     IN \/ /\ Write(s.path, Written(disk[s.path], s))
           /\ Become(c, [s EXCEPT !.pc = After[s.pc]])
           /\ UNCHANGED <<boot, counter, sigio, listening, accepted, abandoned, syncFailed, lost>>
        \/ Abort(c, Errored(s))

-----------------------------------------------------------------------------
(* io::sync_file: aio_fsync is refused, which aborts, or queued.            *)
EagerSync(c) ==  \* mutant: the completion is not awaited
  /\ sess[c].pc = "sync"
  /\ sigio = None
  /\ sigio' = c
  /\ Become(c, [sess[c] EXCEPT !.pc = "notify"])
  /\ UNCHANGED <<disk, boot, counter, listening, accepted, abandoned, syncFailed, lost>>

Sync(c) ==
  /\ sess[c].pc = "sync"
  /\ \/ Abort(c, Errored(sess[c]))
     \/ /\ Become(c, [sess[c] EXCEPT !.pc = "syncwait"])
        /\ OnlySessions

(* SIGIO is a standard signal: while one is pending another is dropped, and *)
(* with it the handle of the session that waits for it.                     *)
NoSignal(c) ==  \* mutant: the request does not carry the handle
  /\ Become(c, [sess[c] EXCEPT !.pc = "notify"])
  /\ UNCHANGED sigio

Signal(c) ==
  \/ /\ sigio = None
     /\ sigio' = c
     /\ Become(c, [sess[c] EXCEPT !.pc = "notify"])
  \/ /\ sigio # None
     /\ Become(c, [sess[c] EXCEPT !.pc = "hung"])
     /\ UNCHANGED sigio

(* The kernel completes the request, well or not: nobody asks aio_error.    *)
SyncCompletes(c) ==
  /\ sess[c].pc = "syncwait"
  /\ \/ /\ Write(sess[c].path, [disk[sess[c].path] EXCEPT !.synced = TRUE])
        /\ UNCHANGED syncFailed
     \/ /\ syncFailed' = syncFailed \cup {sess[c].path}
        /\ UNCHANGED disk
  /\ Signal(c)
  /\ UNCHANGED <<boot, counter, listening, accepted, abandoned, lost>>

Message(s) ==
  [name |-> s.path, lines |-> s.sent, reverse |-> s.reverse, acked |-> s.acked]

(* io_signal resumes the session, which finishes with 250.                  *)
Acknowledge(c) ==
  /\ sigio = c
  /\ sigio' = None
  /\ Become(c, Answer(LetGo(sess[c]), "ok"))
  /\ accepted' = accepted \cup {Message(sess[c])}
  /\ UNCHANGED <<disk, boot, counter, listening, abandoned, syncFailed, lost>>

(* What a session does next without its client.                             *)
Progress(c) == OpenWrite(c) \/ WriteLine(c) \/ FinishWrite(c) \/ Sync(c)

=============================================================================
