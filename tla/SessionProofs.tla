--------------------------- MODULE SessionProofs ---------------------------
(***************************************************************************)
(* The inductive invariants of Session and what follows from them, for      *)
(* every value of the constants.  IInv has a part about single sessions     *)
(* (AllOK): their type, the relation of their state to where they are       *)
(* suspended (WellSuspended) and that of their recipients to what the       *)
(* client was told (KnownTail); the types of the other variables; and a     *)
(* part about who owns which file (Own).  A step of a session is, for the   *)
(* owners of files, of one of a few kinds: it owns what it owned before, it *)
(* creates its file, unlinks it, leaves it behind, or hands it over to its  *)
(* client.  ContentInv, behind IInv, says what is in the file of a session  *)
(* at each of its awaits; from both follow what the answers at the end of   *)
(* data say and that the receiver implements Delivery.                      *)
(***************************************************************************)
EXTENDS Session, SetInduction

-----------------------------------------------------------------------------
(* What the operators of the receiver do to one session.                    *)

(* The part of SessionOK that does not depend on pc.                        *)
Sound(s) == s \in SessionType /\ KnownTail(s)

SessionOK(s) == Sound(s) /\ WellSuspended(s)

AllOK == sess \in [Conns -> SessionType] /\ \A c \in Conns : SessionOK(sess[c])

(* The empty sequences of the model.                                        *)
LEMMA EmptySeqType == <<>> \in Seq(Mailboxes) /\ <<>> \in Seq(LineType)
OBVIOUS

(* A recipient more is a member more of the range.                          *)
LEMMA RangeAppend ==
  ASSUME NEW q \in Seq(Mailboxes), NEW p \in Mailboxes
  PROVE  /\ Append(q, p) \in Seq(Mailboxes)
         /\ Len(Append(q, p)) = Len(q) + 1
         /\ Range(Append(q, p)) = Range(q) \cup {p}
<1> DEFINE a == Append(q, p)
<1>1. a \in Seq(Mailboxes) /\ Len(a) = Len(q) + 1
  OBVIOUS
<1>2. Len(q) \in Nat /\ DOMAIN q = 1 .. Len(q) /\ DOMAIN a = 1 .. Len(q) + 1
  OBVIOUS
<1>3. (\A i \in 1 .. Len(q) : a[i] = q[i]) /\ a[Len(q) + 1] = p
  OBVIOUS
<1>4. \A i : i \in DOMAIN a <=> i \in DOMAIN q \/ i = Len(q) + 1
  BY <1>2
<1>5. \A i \in DOMAIN q : a[i] = q[i]
  BY <1>2, <1>3
<1> HIDE DEF a
<1>6. Range(a) = Range(q) \cup {p}
  BY <1>3, <1>4, <1>5, Zenon DEF Range
<1> QED
  BY <1>1, <1>6 DEF a

(* The range of the empty sequence.                                         *)
LEMMA RangeEmpty == Range(<<>>) = {}
BY DEF Range

-----------------------------------------------------------------------------
(* Operators                                                                *)

(* A new session, and one that is not there.                                *)
LEMMA NewSessionOK ==
  /\ \A e \in BOOLEAN : SessionOK(NewSession(e))
  /\ SessionOK(NoSession)
<1>1. /\ \A e \in BOOLEAN : NewSession(e) \in SessionType
      /\ NoSession \in SessionType
  BY EmptySeqType
  DEF NewSession, NoSession, SessionType, PCs, Parts, Replies, NoLine, LineType, Names
<1> QED
  BY <1>1 DEF SessionOK, Sound, WellSuspended, KnownTail, NewSession, NoSession, OpenParts,
              FinishParts

(* session::reset: no transaction, so nothing to say about its recipients.  *)
LEMMA ResetSound ==
  ASSUME NEW s \in SessionType
  PROVE  Sound(Reset(s)) /\ Reset(s).state = "CMD"
<1>1. Reset(s) \in SessionType
  BY EmptySeqType DEF Reset, SessionType
<1>2. ~Reset(s).reverseSet /\ Reset(s).state = "CMD"
  BY DEF Reset, SessionType
<1> QED
  BY <1>1, <1>2 DEF Sound, KnownTail

(* Replying brings a session back to recv, where it may be in either state. *)
LEMMA AnswerOK ==
  ASSUME NEW s, Sound(s), NEW r \in Replies
  PROVE  SessionOK(Answer(s, r))
<1>1. Answer(s, r) \in SessionType
  BY DEF Answer, SessionType, PCs, Sound
<1>2. /\ Answer(s, r).pc = "recv" /\ Answer(s, r).begun = s.begun
      /\ Answer(s, r).reverseSet = s.reverseSet /\ Answer(s, r).forward = s.forward
      /\ Answer(s, r).acked = s.acked /\ Answer(s, r).tail = s.tail
  BY DEF Answer, SessionType, Sound
<1> QED
  BY <1>1, <1>2 DEF SessionOK, Sound, WellSuspended, KnownTail, OpenParts, FinishParts

(* Letting go of the file.                                                  *)
LEMMA LetGoSound ==
  ASSUME NEW s \in SessionType
  PROVE  Sound(LetGo(s))
<1>1. Reset(s) \in SessionType /\ ~Reset(s).reverseSet
  BY ResetSound DEF Sound, Reset, SessionType
<1>2. LetGo(s) \in SessionType /\ ~LetGo(s).reverseSet
  BY <1>1, EmptySeqType DEF LetGo, SessionType
<1> QED
  BY <1>2 DEF Sound, KnownTail

(* The answer of abort_data is a reply.                                     *)
LEMMA VerdictType ==
  ASSUME NEW s \in SessionType
  PROVE  Verdict(s) \in Replies
BY DEF Verdict, SessionType, Replies

(* A step that replaces one session by another.                             *)
LEMMA BecomeOK ==
  ASSUME AllOK, NEW c \in Conns, NEW s, SessionOK(s), Become(c, s)
  PROVE  AllOK'
BY DEF AllOK, Become, SessionOK, Sound

-----------------------------------------------------------------------------
(* Commands                                                                 *)

(* A recipient is added only to its own transaction: the one that RCPT      *)
(* names, or, for a bare RCPT, one that is there already.                   *)
LEMMA RcptForOK ==
  ASSUME AllOK, NEW c \in Conns, NEW t \in SessionType, NEW p \in Mailboxes \cup {None},
         NEW named \in SUBSET Mailboxes,
         t.reverseSet => t.begun /\ Range(t.forward) = t.acked,
         \/ t.tail = p /\ (p # None => named = {p})
         \/ named = {} /\ KnownTail(t) /\ p \in {t.tail, None},
         RcptFor(c, t, p, named)
  PROVE  AllOK'
<1> DEFINE u == [t EXCEPT !.forward = Append(@, p), !.acked = @ \cup named]
<1>0. "ok" \in Replies /\ "refused" \in Replies
  BY DEF Replies
<1>1. ASSUME ~t.begun \/ Len(t.forward) >= MaxRcpt \/ p = None
      PROVE  Sound(t)
  BY <1>1 DEF Sound, KnownTail, SessionType
<1>2. ASSUME t.begun, Len(t.forward) < MaxRcpt, p # None
      PROVE  Sound(u)
  <2>1. t.forward \in Seq(Mailboxes) /\ t.acked \subseteq Mailboxes /\ p \in Mailboxes
    BY <1>2 DEF SessionType
  <2>2. /\ Append(t.forward, p) \in Seq(Mailboxes)
        /\ Range(Append(t.forward, p)) = Range(t.forward) \cup {p}
    BY <2>1, RangeAppend
  <2>3. u \in SessionType
    BY <2>1, <2>2 DEF SessionType
  <2>4. /\ u.reverseSet = t.reverseSet /\ u.begun = t.begun /\ u.tail = t.tail
        /\ u.forward = Append(t.forward, p) /\ u.acked = t.acked \cup named
    BY DEF SessionType
  <2>5. Len(t.forward) \in Nat /\ MaxRcpt \in Nat /\ ~(Len(t.forward) >= MaxRcpt)
    BY <1>2, <2>1, LimitsAssumption
  <2>6. t.reverseSet => p \in t.acked \cup named /\ t.tail \in t.acked \cup named \cup {None}
                        /\ t.acked \cup {p} = t.acked \cup named
    BY <1>2, <2>5 DEF KnownTail
  <2> QED
    BY <2>2, <2>3, <2>4, <2>6 DEF Sound, KnownTail
<1>3. CASE Become(c, Answer(t, "refused")) /\ (~t.begun \/ Len(t.forward) >= MaxRcpt \/ p = None)
  BY <1>0, <1>1, <1>3, AnswerOK, BecomeOK
<1>4. CASE /\ Become(c, Answer(u, "ok"))
           /\ t.begun /\ Len(t.forward) < MaxRcpt /\ p # None
  BY <1>0, <1>2, <1>4, AnswerOK, BecomeOK
<1> QED
  BY <1>3, <1>4 DEF RcptFor

(* Every command keeps the sessions well-formed.                            *)
LEMMA CommandOK ==
  ASSUME AllOK, NEW c \in Conns, Command(c)
  PROVE  AllOK'
<1> DEFINE s == sess[c]
<1>1. Sound(s) /\ s \in SessionType
  BY DEF AllOK, SessionOK, Sound
<1>2. "ok" \in Replies /\ "refused" \in Replies
  BY DEF Replies
<1>3. SessionOK(Answer(s, "refused")) /\ SessionOK(Answer(s, "ok"))
  BY <1>1, <1>2, AnswerOK
<1>4. CASE Helo(c)
  <2>1. \A d \in Domains : Sound([Reset(s) EXCEPT !.from = d, !.begun = TRUE])
    <3>1. Reset(s) \in SessionType /\ ~Reset(s).reverseSet
      BY <1>1, ResetSound DEF Sound, Reset, SessionType
    <3> SUFFICES ASSUME NEW d \in Domains
                 PROVE  Sound([Reset(s) EXCEPT !.from = d, !.begun = TRUE])
      OBVIOUS
    <3>2. /\ [Reset(s) EXCEPT !.from = d, !.begun = TRUE] \in SessionType
          /\ ~[Reset(s) EXCEPT !.from = d, !.begun = TRUE].reverseSet
      BY <3>1 DEF SessionType
    <3> QED
      BY <3>2 DEF Sound, KnownTail
  <2> QED
    BY <1>2, <1>3, <1>4, <2>1, AnswerOK, BecomeOK DEF Helo
<1>5. CASE Mail(c)
  <2>1. \A p \in ReversePaths : s.begun => Sound(OpenEnvelope(s, p))
    <3> SUFFICES ASSUME NEW p \in ReversePaths, s.begun
                 PROVE  Sound(OpenEnvelope(s, p))
      OBVIOUS
    <3> DEFINE u == OpenEnvelope(s, p)
    <3>1. u \in SessionType
      BY <1>1, InputsAssumption, EmptySeqType DEF SessionType, OpenEnvelope
    <3>2. u.begun /\ u.forward = <<>> /\ u.acked = {} /\ u.tail = None
      BY <1>1 DEF SessionType, OpenEnvelope
    <3> QED
      BY <3>1, <3>2, RangeEmpty DEF Sound, KnownTail
  <2> QED
    BY <1>2, <1>3, <1>5, <2>1, AnswerOK, BecomeOK
    DEF Mail, MailBadPath, MailOutOfSequence, MailAccepted
<1>6. CASE Rcpt(c)
  <2>1. PICK p \in Mailboxes \cup {None} : RcptFor(c, [s EXCEPT !.tail = p], p, {p})
    BY <1>6 DEF Rcpt
  <2> DEFINE t == [s EXCEPT !.tail = p]
             named == IF p = None THEN {} ELSE {p}
  <2>2. t \in SessionType /\ t.tail = p /\ named \in SUBSET Mailboxes
    BY <1>1 DEF SessionType
  <2>3. t.reverseSet => t.begun /\ Range(t.forward) = t.acked
    BY <1>1 DEF SessionType, Sound, KnownTail
  <2>4. RcptFor(c, t, p, named)
    BY <2>1 DEF RcptFor
  <2> HIDE DEF t
  <2> QED
    BY <2>2, <2>3, <2>4, RcptForOK
<1>7. CASE BareRcpt(c)
  <2>1. PICK p \in {s.tail, None} : RcptFor(c, s, p, {})
    BY <1>7 DEF BareRcpt
  <2>2. p \in Mailboxes \cup {None}
    BY <1>1 DEF SessionType
  <2>3. KnownTail(s) /\ (s.reverseSet => s.begun /\ Range(s.forward) = s.acked)
    BY <1>1 DEF Sound, KnownTail
  <2> QED
    BY <1>1, <2>1, <2>2, <2>3, RcptForOK
<1>8. CASE RcptTooShort(c) \/ Rset(c) \/ Noop(c)
  BY <1>1, <1>2, <1>3, <1>8, ResetSound, AnswerOK, BecomeOK DEF RcptTooShort, Rset, Noop
<1>9. CASE Quit(c)
  BY <1>9, NewSessionOK, BecomeOK DEF Quit
<1> QED
  BY <1>4, <1>5, <1>6, <1>7, <1>8, <1>9 DEF Command

-----------------------------------------------------------------------------
(* The parts of the invariant, and the kinds of steps.                      *)

Own ==
  /\ NamesUsed
  /\ SignalNames
  /\ FileIsOwn
  /\ SyncKnown
  /\ LossKnown
  /\ AcceptedIsDurable
  /\ SpoolAccounted

FilesTyped ==
  /\ DOMAIN disk \subseteq Names
  /\ disk \in [DOMAIN disk -> FileType]

HistoryTyped ==
  /\ boot \in Nat /\ counter \in Nat
  /\ sigio \in Conns \cup {None}
  /\ listening \in BOOLEAN
  /\ accepted \subseteq MessageType
  /\ abandoned \subseteq Names
  /\ syncFailed \subseteq Names
  /\ lost \subseteq Names

(* The invariant in its parts, before a step and after it.                  *)
LEMMA Split == IInv <=> AllOK /\ FilesTyped /\ HistoryTyped /\ Own
BY DEF IInv, AllOK, SessionOK, Sound, FilesTyped, HistoryTyped, Own, TypeOK

(* The parts of the invariant that are proved one by one.                   *)
LEMMA SplitNext == IInv' <=> AllOK' /\ FilesTyped' /\ HistoryTyped' /\ Own'
BY DEF IInv, AllOK, SessionOK, Sound, FilesTyped, HistoryTyped, Own, TypeOK

-----------------------------------------------------------------------------
(* Who owns which file                                                      *)

(* A step that leaves the files, and who owns them, as they were.           *)
LEMMA NeutralStep ==
  ASSUME AllOK, HistoryTyped, Own, NEW c \in Conns, NEW s \in SessionType, Become(c, s),
         Open(s) <=> Open(sess[c]), Open(s) => s.path = sess[c].path,
         s.pc \notin {"notify", "hung"}, sess[c].pc \notin {"notify", "hung"},
         DOMAIN disk' = DOMAIN disk,
         \A n \in DOMAIN disk : disk'[n].synced = disk[n].synced,
         counter' \in Nat, counter' >= counter,
         UNCHANGED <<boot, sigio, accepted, abandoned, syncFailed, lost>>
  PROVE  Own'
<1>1. \A d \in Conns : sess'[d] = IF d = c THEN s ELSE sess[d]
  BY DEF Become, AllOK
<1>2. \A d \in Conns : /\ Writing(d)' <=> Writing(d)
                       /\ Writing(d) => sess'[d].path = sess[d].path
                       /\ sess'[d].pc \in {"notify", "hung"} <=> sess[d].pc \in {"notify", "hung"}
                       /\ sess'[d].pc = "notify" <=> sess[d].pc = "notify"
  BY <1>1 DEF Writing, Open, SessionType
<1>3. AcceptedNames' = AcceptedNames
  BY DEF AcceptedNames
<1>4. NamesUsed'
  <2>1. \A n : Used(n) => Used(n)'
    BY DEF Used, HistoryTyped, Names
  <2> QED
    BY <1>2, <1>3, <2>1 DEF NamesUsed, Own
<1>5. SignalNames'
  BY <1>2 DEF SignalNames, Own
<1>6. FileIsOwn'
  BY <1>2, <1>3 DEF FileIsOwn, Own
<1>7. SyncKnown'
  BY <1>2 DEF SyncKnown, FileIsOwn, Own
<1>8. AcceptedIsDurable'
  BY <1>3 DEF AcceptedIsDurable, Own
<1>9. SpoolAccounted'
  BY <1>2, <1>3 DEF SpoolAccounted, Own
<1>10. LossKnown'
  BY <1>3 DEF LossKnown, Own
<1> QED
  BY <1>4, <1>5, <1>6, <1>7, <1>8, <1>9, <1>10 DEF Own

(* DATA: a file of a name that nothing has used.                            *)
LEMMA CreateStep ==
  ASSUME AllOK, FilesTyped, HistoryTyped, Own, NEW c \in Conns, NEW s \in SessionType, Become(c, s),
         NEW n, n = UniqueName, Create(n), Open(s), s.path = n,
         ~Open(sess[c]), sess[c].pc # "notify", s.pc \notin {"notify", "hung"},
         counter' = counter + 1,
         UNCHANGED <<boot, sigio, accepted, abandoned, syncFailed, lost>>
  PROVE  Own'
<1>1. \A d \in Conns : sess'[d] = IF d = c THEN s ELSE sess[d]
  BY DEF Become, AllOK
<1>2. n \in Names /\ ~Used(n) /\ Used(n)'
  <2>1. n \in Names /\ n[1] = boot /\ n[2] = counter
    BY DEF UniqueName, Names, HistoryTyped
  <2> QED
    BY <2>1 DEF Used, HistoryTyped
<1>3. n \notin DOMAIN disk \cup AcceptedNames \cup abandoned \cup syncFailed
  BY <1>2 DEF NamesUsed, Own
<1>4. \A d \in Conns : Writing(d) => sess[d].path # n
  BY <1>2 DEF NamesUsed, Own
<1>5. AcceptedNames' = AcceptedNames
  BY DEF AcceptedNames
<1>6. /\ DOMAIN disk' = DOMAIN disk \cup {n}
      /\ \A m \in DOMAIN disk : disk'[m] = disk[m]
      /\ ~disk'[n].synced
  BY <1>3 DEF Create, EmptyFile
<1>7. \A d \in Conns \ {c} : /\ Writing(d)' <=> Writing(d)
                             /\ sess'[d] = sess[d]
  BY <1>1 DEF Writing
<1>8. Writing(c)' /\ sess'[c].path = n /\ sess'[c].pc \notin {"notify", "hung"} /\ ~Writing(c)
  BY <1>1 DEF Writing
<1>9. NamesUsed'
  <2>1. \A m : Used(m) => Used(m)'
    BY DEF Used, HistoryTyped, Names
  <2> QED
    BY <1>2, <1>5, <1>6, <1>7, <1>8, <2>1 DEF NamesUsed, Own
<1>10. SignalNames'
  BY <1>7, <1>8 DEF SignalNames, Own
<1>11. FileIsOwn'
  BY <1>3, <1>4, <1>5, <1>6, <1>7, <1>8 DEF FileIsOwn, Own
<1>12. SyncKnown'
  <2>1. n \notin syncFailed'
    BY <1>3
  <2> QED
    BY <2>1, <1>6, <1>7, <1>8 DEF SyncKnown, FileIsOwn, Own
<1>13. AcceptedIsDurable'
  BY <1>3, <1>5, <1>6 DEF AcceptedIsDurable, Own
<1>14. SpoolAccounted'
  BY <1>5, <1>6, <1>7, <1>8 DEF SpoolAccounted, Own
<1>15. LossKnown'
  <2>1. n \notin lost
    BY <1>3 DEF LossKnown, Own
  <2> QED
    BY <2>1, <1>5, <1>6 DEF LossKnown, Own
<1> QED
  BY <1>9, <1>10, <1>11, <1>12, <1>13, <1>14, <1>15 DEF Own

(* abort_data: the file goes and its session has none.                      *)
LEMMA UnlinkStep ==
  ASSUME AllOK, HistoryTyped, Own, NEW c \in Conns, NEW s \in SessionType, Become(c, s),
         Open(sess[c]), sess[c].pc \notin {"notify", "hung"},
         ~Open(s), s.pc \notin {"notify", "hung"},
         Unlink(sess[c].path),
         UNCHANGED <<boot, counter, sigio, accepted, abandoned, syncFailed, lost>>
  PROVE  Own'
<1> DEFINE n == sess[c].path
<1>1. \A d \in Conns : sess'[d] = IF d = c THEN s ELSE sess[d]
  BY DEF Become, AllOK
<1>2. /\ DOMAIN disk' = DOMAIN disk \ {n}
      /\ \A m \in DOMAIN disk' : disk'[m] = disk[m]
  BY DEF Unlink, Restrict
<1>3. AcceptedNames' = AcceptedNames
  BY DEF AcceptedNames
<1>4. \A d \in Conns \ {c} : /\ Writing(d)' <=> Writing(d)
                             /\ sess'[d] = sess[d]
  BY <1>1 DEF Writing
<1>5. Writing(c) /\ ~Writing(c)' /\ sess'[c].pc \notin {"notify", "hung"}
  BY <1>1 DEF Writing
<1>6. /\ n \notin AcceptedNames
      /\ \A d \in Conns \ {c} : Writing(d) => sess[d].path # n
  BY <1>5 DEF FileIsOwn, Own
<1>7. NamesUsed'
  BY <1>2, <1>3, <1>4, <1>5 DEF NamesUsed, Own, Used
<1>8. SignalNames'
  BY <1>4, <1>5 DEF SignalNames, Own
<1>9. FileIsOwn'
  BY <1>2, <1>3, <1>4, <1>5, <1>6 DEF FileIsOwn, Own
<1>10. SyncKnown'
  BY <1>2, <1>4, <1>5, <1>6 DEF SyncKnown, FileIsOwn, Own
<1>11. AcceptedIsDurable'
  BY <1>2, <1>3, <1>6 DEF AcceptedIsDurable, Own
<1>12. SpoolAccounted'
  BY <1>2, <1>3, <1>4, <1>5 DEF SpoolAccounted, Own
<1>13. LossKnown'
  BY <1>2, <1>3 DEF LossKnown, Own
<1> QED
  BY <1>7, <1>8, <1>9, <1>10, <1>11, <1>12, <1>13 DEF Own

(* A failed open_files, a lost connection: the file stays, nobody's.        *)
LEMMA LeaveStep ==
  ASSUME AllOK, HistoryTyped, Own, NEW c \in Conns, NEW s \in SessionType, Become(c, s),
         Open(sess[c]), sess[c].pc \notin {"notify", "hung"},
         ~Open(s), s.pc \notin {"notify", "hung"},
         abandoned' = abandoned \cup {sess[c].path},
         UNCHANGED <<disk, boot, counter, sigio, accepted, syncFailed, lost>>
  PROVE  Own'
<1> DEFINE n == sess[c].path
<1>1. \A d \in Conns : sess'[d] = IF d = c THEN s ELSE sess[d]
  BY DEF Become, AllOK
<1>2. AcceptedNames' = AcceptedNames
  BY DEF AcceptedNames
<1>3. \A d \in Conns \ {c} : /\ Writing(d)' <=> Writing(d)
                             /\ sess'[d] = sess[d]
  BY <1>1 DEF Writing
<1>4. Writing(c) /\ ~Writing(c)' /\ sess'[c].pc \notin {"notify", "hung"}
  BY <1>1 DEF Writing
<1>5. \A d \in Conns \ {c} : Writing(d) => sess[d].path # n
  BY <1>4 DEF FileIsOwn, Own
<1>6. NamesUsed'
  BY <1>2, <1>3, <1>4 DEF NamesUsed, Own, Used
<1>7. SignalNames'
  BY <1>3, <1>4 DEF SignalNames, Own
<1>8. FileIsOwn'
  BY <1>2, <1>3, <1>4, <1>5 DEF FileIsOwn, Own
<1>9. SyncKnown'
  BY <1>3, <1>4 DEF SyncKnown, FileIsOwn, Own
<1>10. AcceptedIsDurable'
  BY <1>2 DEF AcceptedIsDurable, Own
<1>11. SpoolAccounted'
  BY <1>2, <1>3, <1>4 DEF SpoolAccounted, Own
<1>12. LossKnown'
  BY <1>2 DEF LossKnown, Own
<1> QED
  BY <1>6, <1>7, <1>8, <1>9, <1>10, <1>11, <1>12 DEF Own

-----------------------------------------------------------------------------
(* What the operations on files do to their types                           *)

(* A write to a file that is there.                                         *)
LEMMA WriteTyped ==
  ASSUME FilesTyped, NEW n \in DOMAIN disk, NEW f \in FileType, Write(n, f)
  PROVE  /\ FilesTyped'
         /\ DOMAIN disk' = DOMAIN disk
         /\ disk'[n] = f
         /\ \A m \in DOMAIN disk \ {n} : disk'[m] = disk[m]
BY DEF FilesTyped, Write

(* A file created, empty if it was not there.                               *)
LEMMA CreateTyped ==
  ASSUME FilesTyped, NEW n \in Names, Create(n)
  PROVE  FilesTyped'
<1>1. EmptyFile \in FileType
  BY EmptySeqType DEF EmptyFile, FileType
<1> QED
  BY <1>1 DEF FilesTyped, Create

(* A file unlinked.                                                         *)
LEMMA UnlinkTyped ==
  ASSUME FilesTyped, NEW n, Unlink(n)
  PROVE  FilesTyped'
BY DEF FilesTyped, Unlink, Restrict

(* The file of a session in the midst of a message is there and has its     *)
(* type.                                                                    *)
LEMMA OwnFile ==
  ASSUME AllOK, FilesTyped, Own, NEW c \in Conns, Open(sess[c])
  PROVE  /\ sess[c] \in SessionType
         /\ sess[c].path \in DOMAIN disk
         /\ sess[c].path \in Names
         /\ disk[sess[c].path] \in FileType
BY DEF AllOK, FilesTyped, Own, FileIsOwn, Writing

-----------------------------------------------------------------------------
(* Every action keeps the invariant.                                        *)

(* What a command makes of its session: it is between commands, or ended,   *)
(* and the text sent is what it was or none.                                *)
Closed(s, sent) ==
  s.pc \in {"recv", "down"} /\ s.state = "CMD" /\ s.sent \in {sent, <<>>}

(* A command leaves a session that has no file open.                        *)
LEMMA CommandEffect ==
  ASSUME AllOK, NEW c \in Conns, Command(c)
  PROVE  \E s : Become(c, s) /\ Closed(s, sess[c].sent)
<1> DEFINE sent == sess[c].sent
<1>1. \A s \in SessionType, r \in Replies :
        s.state = "CMD" /\ s.sent \in {sent, <<>>} => Closed(Answer(s, r), sent)
  BY DEF Answer, SessionType, Closed
<1>2. sess[c] \in SessionType /\ sess[c].state = "CMD"
  <2>1. AtCommand(c)
    BY DEF Command, Helo, Mail, MailBadPath, MailOutOfSequence, MailAccepted, RcptTooShort,
           Rcpt, BareRcpt, Rset, Noop, Quit
  <2> QED
    BY <2>1 DEF AllOK, AtCommand
<1>3. "ok" \in Replies /\ "refused" \in Replies
  BY DEF Replies
<1>4. Reset(sess[c]) \in SessionType /\ Reset(sess[c]).state = "CMD" /\ Reset(sess[c]).sent = sent
  BY <1>2, ResetSound DEF Sound, Reset, SessionType
<1> HIDE DEF sent
<1>5. CASE Helo(c)
  <2>1. \A d \in Domains :
          /\ [Reset(sess[c]) EXCEPT !.from = d, !.begun = TRUE] \in SessionType
          /\ [Reset(sess[c]) EXCEPT !.from = d, !.begun = TRUE].state = "CMD"
          /\ [Reset(sess[c]) EXCEPT !.from = d, !.begun = TRUE].sent = sent
    BY <1>4 DEF SessionType
  <2> QED
    BY <1>1, <1>2, <1>3, <1>5, <2>1 DEF Helo, sent
<1>6. CASE Mail(c)
  <2>1. \A p \in ReversePaths : /\ OpenEnvelope(sess[c], p) \in SessionType
                                /\ OpenEnvelope(sess[c], p).state = "CMD"
                                /\ OpenEnvelope(sess[c], p).sent = sent
    BY <1>2, InputsAssumption, EmptySeqType DEF SessionType, OpenEnvelope, sent
  <2> QED
    BY <1>1, <1>2, <1>3, <1>6, <2>1 DEF Mail, MailBadPath, MailOutOfSequence, MailAccepted, sent
<1>7. ASSUME NEW t \in SessionType, t.state = "CMD", t.sent = sent,
             NEW p, NEW named, RcptFor(c, t, p, named)
      PROVE  \E s : Become(c, s) /\ Closed(s, sent)
  <2>1. \A a, b : Closed(Answer([t EXCEPT !.forward = a, !.acked = b], "ok"), sent)
    BY <1>7 DEF SessionType, Answer, Closed
  <2> QED
    BY <1>1, <1>3, <1>7, <2>1 DEF RcptFor
<1>8. CASE Rcpt(c)
  <2>1. \A p \in Mailboxes \cup {None} : /\ [sess[c] EXCEPT !.tail = p] \in SessionType
                                         /\ [sess[c] EXCEPT !.tail = p].state = "CMD"
                                         /\ [sess[c] EXCEPT !.tail = p].sent = sent
    BY <1>2 DEF SessionType, sent
  <2> QED
    BY <1>7, <1>8, <2>1 DEF Rcpt, sent
<1>9. CASE BareRcpt(c)
  BY <1>2, <1>7, <1>9 DEF BareRcpt, sent
<1>10. CASE RcptTooShort(c) \/ Rset(c) \/ Noop(c)
  BY <1>1, <1>2, <1>3, <1>4, <1>10 DEF RcptTooShort, Rset, Noop, sent
<1>11. CASE Quit(c)
  <2>1. Closed(NoSession, sent)
    BY DEF NoSession, NewSession, Closed
  <2> QED
    BY <1>11, <2>1 DEF Quit, sent
<1> QED
  BY <1>5, <1>6, <1>8, <1>9, <1>10, <1>11 DEF Command, sent

(* The commands: sessions change, files and their owners do not.            *)
LEMMA CommandStep ==
  ASSUME IInv, NEW c \in Conns, Command(c)
  PROVE  IInv'
<1>1. AllOK /\ FilesTyped /\ HistoryTyped /\ Own
  BY Split
<1>2. AllOK'
  BY <1>1, CommandOK
<1>3. OnlySessions /\ AtCommand(c)
  <2>1. CASE Helo(c) \/ Mail(c) \/ RcptTooShort(c)
    BY <2>1 DEF Helo, Mail, MailBadPath, MailOutOfSequence, MailAccepted, RcptTooShort
  <2>2. CASE Rcpt(c) \/ BareRcpt(c)
    BY <2>2 DEF Rcpt, BareRcpt
  <2>3. CASE Rset(c) \/ Noop(c) \/ Quit(c)
    BY <2>3 DEF Rset, Noop, Quit
  <2> QED
    BY <2>1, <2>2, <2>3 DEF Command
<1>4. PICK s : Become(c, s) /\ s.pc \in {"recv", "down"} /\ s.state = "CMD"
  BY <1>1, CommandEffect DEF Closed
<1>5. s \in SessionType
  BY <1>2, <1>4, <1>1 DEF AllOK, Become
<1>6. ~Open(s) /\ ~Open(sess[c]) /\ sess[c].pc = "recv"
  BY <1>3, <1>4 DEF Open, OpenParts, AtCommand
<1>7. Own'
  <2>1. /\ UNCHANGED <<boot, sigio, accepted, abandoned, syncFailed, lost>>
        /\ counter' = counter /\ disk' = disk /\ counter \in Nat
    BY <1>1, <1>3 DEF OnlySessions, HistoryTyped
  <2>2. counter' \in Nat /\ counter' >= counter
    BY <2>1
  <2>3. s.pc \notin {"notify", "hung"} /\ sess[c].pc \notin {"notify", "hung"}
    BY <1>4, <1>6
  <2> QED
    BY <1>1, <1>4, <1>5, <1>6, <2>1, <2>2, <2>3, NeutralStep
<1>8. FilesTyped' /\ HistoryTyped'
  BY <1>1, <1>3 DEF OnlySessions, FilesTyped, HistoryTyped
<1> QED
  BY <1>2, <1>7, <1>8, SplitNext

(* A step of one session that leaves the files, but for their contents, and *)
(* who owns them as they were.                                              *)
LEMMA KeepStep ==
  ASSUME IInv, NEW c \in Conns, NEW s, SessionOK(s), Become(c, s),
         Open(s) <=> Open(sess[c]), Open(s) => s.path = sess[c].path,
         s.pc \notin {"notify", "hung"}, sess[c].pc \notin {"notify", "hung"},
         FilesTyped', DOMAIN disk' = DOMAIN disk,
         \A n \in DOMAIN disk : disk'[n].synced = disk[n].synced,
         counter' = counter \/ counter' = counter + 1,
         UNCHANGED <<boot, sigio, accepted, abandoned, syncFailed, lost>>,
         listening' \in BOOLEAN
  PROVE  IInv'
<1>1. AllOK /\ FilesTyped /\ HistoryTyped /\ Own
  BY Split
<1>2. AllOK'
  BY <1>1, BecomeOK
<1>3. s \in SessionType
  BY DEF SessionOK, Sound
<1>4. counter' \in Nat /\ counter' >= counter
  BY <1>1 DEF HistoryTyped
<1>5. HistoryTyped'
  BY <1>1, <1>4 DEF HistoryTyped
<1>6. Own'
  BY <1>1, <1>3, <1>4, NeutralStep
<1> QED
  BY <1>2, <1>5, <1>6, SplitNext

(* What a session changes besides its envelope does not matter to it.       *)
LEMMA Aside ==
  ASSUME NEW s, Sound(s), NEW t \in SessionType,
         t.reverseSet = s.reverseSet, t.begun = s.begun, t.forward = s.forward,
         t.acked = s.acked, t.tail = s.tail
  PROVE  Sound(t)
BY DEF Sound, KnownTail

(* The accept loop.                                                         *)
LEMMA ConnectStep ==
  ASSUME IInv, NEW c \in Conns, Connect(c)
  PROVE  IInv'
<1>1. PICK e \in BOOLEAN : Become(c, NewSession(e))
  BY DEF Connect
<1>2. SessionOK(NewSession(e)) /\ NewSession(e).pc = "recv" /\ NewSession(e).state = "CMD"
  BY NewSessionOK DEF NewSession
<1>3. sess[c].pc = "down" /\ sess[c].state = "CMD"
  BY Split DEF Connect, AllOK, SessionOK, WellSuspended
<1>4. ~Open(NewSession(e)) /\ ~Open(sess[c])
  BY <1>2, <1>3 DEF Open, OpenParts
<1>5. FilesTyped' /\ disk' = disk /\ counter' = counter /\ listening' \in BOOLEAN
      /\ UNCHANGED <<boot, sigio, accepted, abandoned, syncFailed, lost>>
  BY Split DEF Connect, OnlySessions, FilesTyped, HistoryTyped
<1> QED
  BY <1>1, <1>2, <1>3, <1>4, <1>5, KeepStep

(* A step that changes at most whether the loop runs, a stutter included.   *)
LEMMA ListenerStep ==
  ASSUME IInv, listening' \in BOOLEAN,
         UNCHANGED <<sess, disk, boot, counter, sigio, accepted, abandoned, syncFailed, lost>>
  PROVE  IInv'
<1>1. AllOK /\ FilesTyped /\ HistoryTyped /\ Own
  BY Split
<1>2. AllOK' /\ FilesTyped' /\ HistoryTyped'
  BY <1>1 DEF AllOK, FilesTyped, HistoryTyped
<1>3. AcceptedNames' = AcceptedNames /\ \A c : Writing(c)' <=> Writing(c)
  BY DEF AcceptedNames, Writing
<1>4. NamesUsed' /\ SignalNames'
  BY <1>1, <1>3 DEF Own, NamesUsed, Used, SignalNames
<1>5. FileIsOwn' /\ SyncKnown'
  BY <1>1, <1>3 DEF Own, FileIsOwn, SyncKnown
<1>6. AcceptedIsDurable' /\ SpoolAccounted' /\ LossKnown'
  BY <1>1, <1>3 DEF Own, AcceptedIsDurable, SpoolAccounted, LossKnown
<1> QED
  BY <1>2, <1>4, <1>5, <1>6, SplitNext DEF Own

(* DATA out of sequence.                                                    *)
LEMMA DataOutOfSequenceStep ==
  ASSUME IInv, NEW c \in Conns, DataOutOfSequence(c)
  PROVE  IInv'
<1> DEFINE s == Answer(sess[c], "refused")
<1>1. Sound(sess[c]) /\ sess[c] \in SessionType /\ sess[c].pc = "recv" /\ sess[c].state = "CMD"
  BY Split DEF AllOK, SessionOK, Sound, DataOutOfSequence, AtCommand
<1>2. SessionOK(s) /\ s.pc = "recv" /\ s.state = "CMD"
  <2>1. "refused" \in Replies
    BY DEF Replies
  <2> QED
    BY <1>1, <2>1, AnswerOK DEF Answer, SessionType
<1>3. ~Open(s) /\ ~Open(sess[c])
  BY <1>1, <1>2 DEF Open, OpenParts
<1>4. FilesTyped' /\ disk' = disk /\ counter' = counter /\ listening' \in BOOLEAN
      /\ UNCHANGED <<boot, sigio, accepted, abandoned, syncFailed, lost>> /\ Become(c, s)
  BY Split DEF DataOutOfSequence, OnlySessions, FilesTyped, HistoryTyped
<1> HIDE DEF s
<1> QED
  BY <1>1, <1>2, <1>3, <1>4, KeepStep

(* DATA: the file is created, or could not be opened.                       *)
LEMMA DataStep ==
  ASSUME IInv, NEW c \in Conns, Data(c)
  PROVE  IInv'
<1>1. AllOK /\ FilesTyped /\ HistoryTyped /\ Own
  BY Split
<1>2. PICK n : n = UniqueName
  OBVIOUS
<1> DEFINE t == [sess[c] EXCEPT !.path = n]
<1>3. Sound(sess[c]) /\ sess[c] \in SessionType /\ sess[c].pc = "recv" /\ sess[c].state = "CMD"
  BY <1>1 DEF AllOK, SessionOK, Sound, Data, AtCommand
<1>4. n \in Names
  BY <1>1, <1>2 DEF UniqueName, Names, HistoryTyped
<1>5. t \in SessionType /\ Sound(t) /\ t.path = n /\ t.state = "CMD" /\ ~Open(sess[c])
  <2>1. t \in SessionType /\ t.path = n /\ t.state = "CMD"
    BY <1>3, <1>4 DEF SessionType
  <2>2. /\ t.reverseSet = sess[c].reverseSet /\ t.begun = sess[c].begun
        /\ t.forward = sess[c].forward /\ t.acked = sess[c].acked /\ t.tail = sess[c].tail
    BY <1>3 DEF SessionType
  <2>3. ~Open(sess[c])
    BY <1>3 DEF Open, OpenParts
  <2> QED
    BY <1>3, <2>1, <2>2, <2>3, Aside
<1>6. /\ counter' = counter + 1
      /\ UNCHANGED <<boot, sigio, listening, accepted, abandoned, syncFailed, lost>>
      /\ HistoryTyped'
  BY <1>1 DEF Data, HistoryTyped
<1>7. CASE Become(c, [t EXCEPT !.pc = "space", !.reply = "none"]) /\ Create(UniqueName)
  <2> DEFINE s == [t EXCEPT !.pc = "space", !.reply = "none"]
  <2>1. s \in SessionType /\ s.pc = "space" /\ s.path = n /\ s.state = "CMD"
    BY <1>5 DEF SessionType, PCs, Parts, OpenParts, Replies
  <2>2. /\ s.reverseSet = t.reverseSet /\ s.begun = t.begun /\ s.forward = t.forward
        /\ s.acked = t.acked /\ s.tail = t.tail
    BY <1>5 DEF SessionType
  <2>3. SessionOK(s) /\ Open(s)
    BY <1>5, <2>1, <2>2, Aside DEF SessionOK, WellSuspended, Open, OpenParts, FinishParts
  <2> HIDE DEF s, t
  <2>4. AllOK' /\ FilesTyped'
    BY <1>1, <1>2, <1>4, <1>7, <2>3, BecomeOK, CreateTyped DEF s
  <2>5. Own'
    BY <1>1, <1>2, <1>3, <1>5, <1>6, <1>7, <2>1, <2>3, CreateStep DEF s
  <2> QED
    BY <1>6, <2>4, <2>5, SplitNext
<1>8. CASE Become(c, Answer(t, "local_error")) /\ UNCHANGED disk
  <2> DEFINE s == Answer(t, "local_error")
  <2>1. "local_error" \in Replies
    BY DEF Replies
  <2>2. SessionOK(s) /\ s.pc = "recv" /\ s.state = "CMD"
    BY <1>5, <2>1, AnswerOK DEF Answer, SessionType
  <2>3. ~Open(s)
    BY <2>2 DEF Open, OpenParts
  <2>4. FilesTyped' /\ listening' \in BOOLEAN
    BY <1>1, <1>6, <1>8 DEF FilesTyped, HistoryTyped
  <2> HIDE DEF s, t
  <2> QED
    BY <1>3, <1>5, <1>6, <1>8, <2>2, <2>3, <2>4, KeepStep DEF s
<1> QED
  BY <1>2, <1>7, <1>8 DEF Data

(* The writes of open_files: the next one, the start of the text, or a      *)
(* failure that leaves the file behind.                                     *)
LEMMA OpenWriteStep ==
  ASSUME IInv, NEW c \in Conns, OpenWrite(c)
  PROVE  IInv'
<1> DEFINE s == sess[c]
           f == [disk[s.path] EXCEPT !.parts = @ \cup {s.pc}]
           t == IF s.pc = "space" THEN [s EXCEPT !.pc = "trace"] ELSE StartData(s)
<1>1. AllOK /\ FilesTyped /\ HistoryTyped /\ Own
  BY Split
<1>2. s.pc \in OpenParts /\ SessionOK(s) /\ Sound(s) /\ s \in SessionType
  BY <1>1 DEF OpenWrite, AllOK, SessionOK, Sound
<1>3. s.state = "CMD" /\ Open(s)
  BY <1>2 DEF SessionOK, WellSuspended, Open
<1>4. s.path \in DOMAIN disk /\ s.path \in Names /\ disk[s.path] \in FileType
  BY <1>1, <1>3, OwnFile
<1>5. /\ UNCHANGED <<boot, counter, sigio, listening, accepted, syncFailed, lost>>
      /\ s.pc \notin {"notify", "hung"}
  BY <1>2 DEF OpenWrite, OpenParts
<1>6. CASE Write(s.path, f) /\ Become(c, t) /\ UNCHANGED abandoned
  <2>1. f \in FileType /\ f.synced = disk[s.path].synced
    BY <1>2, <1>4 DEF FileType, Parts
  <2> HIDE DEF f
  <2>2. /\ FilesTyped' /\ DOMAIN disk' = DOMAIN disk
        /\ \A n \in DOMAIN disk : disk'[n].synced = disk[n].synced
    BY <1>1, <1>4, <1>6, <2>1, WriteTyped
  <2>3. SessionOK(t) /\ Open(t) /\ t.path = s.path /\ t.pc \notin {"notify", "hung"}
    <3>1. CASE s.pc = "space"
      <4> DEFINE u == [s EXCEPT !.pc = "trace"]
      <4>1. u \in SessionType /\ u.pc = "trace" /\ u.state = "CMD" /\ u.path = s.path
        BY <1>2, <1>3 DEF SessionType, PCs, Parts, OpenParts
      <4>2. /\ u.reverseSet = s.reverseSet /\ u.begun = s.begun /\ u.forward = s.forward
            /\ u.acked = s.acked /\ u.tail = s.tail
        BY <1>2 DEF SessionType
      <4>3. t = u
        BY <3>1
      <4> QED
        BY <1>2, <4>1, <4>2, <4>3, Aside
        DEF SessionOK, WellSuspended, Open, OpenParts, FinishParts
    <3>2. CASE s.pc # "space"
      <4> DEFINE u == StartData(s)
      <4>1. u \in SessionType /\ u.pc = "recv" /\ u.state = "DATA" /\ u.path = s.path
        BY <1>2 DEF StartData, Answer, SessionType, PCs, Replies
      <4>2. /\ u.reverseSet = s.reverseSet /\ u.begun = s.begun /\ u.forward = s.forward
            /\ u.acked = s.acked /\ u.tail = s.tail
        BY <1>2 DEF StartData, Answer, SessionType
      <4>3. t = u
        BY <3>2
      <4> QED
        BY <1>2, <4>1, <4>2, <4>3, Aside
        DEF SessionOK, WellSuspended, Open, OpenParts, FinishParts
    <3> QED
      BY <3>1, <3>2
  <2>4. listening' \in BOOLEAN
    BY <1>1, <1>5 DEF HistoryTyped
  <2> HIDE DEF t
  <2> QED
    BY <1>3, <1>5, <1>6, <2>2, <2>3, <2>4, KeepStep
<1>7. CASE /\ Become(c, Answer(s, "local_error"))
           /\ abandoned' = abandoned \cup {s.path}
           /\ UNCHANGED disk
  <2> DEFINE u == Answer(s, "local_error")
  <2>1. "local_error" \in Replies
    BY DEF Replies
  <2>2. SessionOK(u) /\ u.pc = "recv" /\ u.state = "CMD"
    BY <1>2, <1>3, <2>1, AnswerOK DEF Answer, SessionType
  <2>3. ~Open(u) /\ u \in SessionType
    BY <2>2 DEF Open, OpenParts, SessionOK, Sound
  <2> HIDE DEF u
  <2>4. AllOK'
    BY <1>1, <1>7, <2>2, BecomeOK DEF u
  <2>5. FilesTyped' /\ HistoryTyped'
    BY <1>1, <1>4, <1>5, <1>7 DEF FilesTyped, HistoryTyped
  <2>6. Own'
    BY <1>1, <1>3, <1>5, <1>7, <2>2, <2>3, LeaveStep DEF u
  <2> QED
    BY <2>4, <2>5, <2>6, SplitNext
<1> QED
  BY <1>6, <1>7 DEF OpenWrite

(* A line of text.                                                          *)
LEMMA ReceiveLineStep ==
  ASSUME IInv, NEW c \in Conns, ReceiveLine(c)
  PROVE  IInv'
<1> DEFINE s == sess[c]
<1>1. AllOK /\ FilesTyped /\ HistoryTyped /\ Own
  BY Split
<1>2. Sound(s) /\ s \in SessionType /\ s.pc = "recv" /\ s.state = "DATA" /\ Open(s)
  BY <1>1 DEF ReceiveLine, AllOK, SessionOK, Sound, Open
<1> DEFINE t(text) == [s EXCEPT !.sent = Append(@, text)]
           m(text) == Measure(t(text), Unstuff(Stuff(text)))
<1>3. PICK text \in Lines :
        \/ Become(c, [t(text) EXCEPT !.lineTooLong = TRUE])
        \/ Become(c, m(text))
        \/ Become(c, [m(text) EXCEPT !.line = Unstuff(Stuff(text)), !.pc = "write"])
  BY DEF ReceiveLine
<1>4. text \in LineType /\ Unstuff(Stuff(text)) \in LineType
  BY InputsAssumption DEF Stuff, Unstuff, LineType
<1> DEFINE a == t(text)
           b == m(text)
           Same(u) == /\ u \in SessionType /\ u.state = "DATA" /\ u.path = s.path
                      /\ u.reverseSet = s.reverseSet /\ u.begun = s.begun
                      /\ u.forward = s.forward /\ u.acked = s.acked /\ u.tail = s.tail
<1>5. Same(a) /\ a.pc = "recv"
  <2>1. Append(s.sent, text) \in Seq(LineType)
    BY <1>2, <1>4 DEF SessionType
  <2> QED
    BY <1>2, <2>1 DEF SessionType
<1>6. Same([a EXCEPT !.lineTooLong = TRUE]) /\ [a EXCEPT !.lineTooLong = TRUE].pc = "recv"
  BY <1>5 DEF SessionType
<1>7. Same(b) /\ b.pc = "recv"
  <2> DEFINE l == Unstuff(Stuff(text))
  <2> HIDE DEF a, l
  <2> DEFINE size == a.dataSize + Size(l) + 2
  <2>1. size \in Nat
    BY <1>4, <1>5 DEF Size, LineType, SessionType, l
  <2> DEFINE line == a.lineTooLong \/ Size(l) > MaxLine
             data == a.dataTooLong \/ size > MaxSize
             n == [a EXCEPT !.dataSize = size, !.lineTooLong = line, !.dataTooLong = data]
  <2>2. line \in BOOLEAN /\ data \in BOOLEAN
    OBVIOUS
  <2>3. Measure(a, l) = n
    BY <1>5 DEF Measure, SessionType
  <2> HIDE DEF size, line, data
  <2>4. Same(n) /\ n.pc = "recv"
    BY <1>5, <2>1, <2>2 DEF SessionType
  <2> QED
    BY <2>3, <2>4 DEF a, l
<1>8. /\ Same([b EXCEPT !.line = Unstuff(Stuff(text)), !.pc = "write"])
      /\ [b EXCEPT !.line = Unstuff(Stuff(text)), !.pc = "write"].pc = "write"
  <2> DEFINE l == Unstuff(Stuff(text))
  <2> HIDE DEF b, l
  <2>1. l \in LineType
    BY <1>4 DEF l
  <2> QED
    BY <1>7, <2>1 DEF SessionType, PCs, l
<1>9. PICK u : Become(c, u) /\ Same(u) /\ u.pc \in {"recv", "write"}
  <2> HIDE DEF Same, a, b
  <2> QED
    BY <1>3, <1>6, <1>7, <1>8 DEF a, b
<1>10. SessionOK(u) /\ Open(u)
  BY <1>2, <1>9, Aside DEF SessionOK, WellSuspended, Open, OpenParts, FinishParts
<1>11. /\ FilesTyped' /\ disk' = disk /\ counter' = counter /\ listening' \in BOOLEAN
       /\ UNCHANGED <<boot, sigio, accepted, abandoned, syncFailed, lost>>
  BY <1>1 DEF ReceiveLine, OnlySessions, FilesTyped, HistoryTyped
<1> HIDE DEF a, b
<1> QED
  BY <1>2, <1>9, <1>10, <1>11, KeepStep

(* The write of a line, or its failure.                                     *)
LEMMA WriteLineStep ==
  ASSUME IInv, NEW c \in Conns, WriteLine(c)
  PROVE  IInv'
<1> DEFINE s == sess[c]
           f == [disk[s.path] EXCEPT !.lines = Append(@, s.line)]
           t == [s EXCEPT !.pc = "recv", !.line = NoLine]
           u == [Errored(s) EXCEPT !.pc = "recv", !.line = NoLine]
           Same(v) == /\ v \in SessionType /\ v.pc = "recv" /\ v.state = "DATA"
                      /\ v.path = s.path /\ v.reverseSet = s.reverseSet /\ v.begun = s.begun
                      /\ v.forward = s.forward /\ v.acked = s.acked /\ v.tail = s.tail
<1>1. AllOK /\ FilesTyped /\ HistoryTyped /\ Own
  BY Split
<1>2. s.pc = "write" /\ s.state = "DATA" /\ Open(s) /\ Sound(s) /\ s \in SessionType
  BY <1>1 DEF WriteLine, AllOK, SessionOK, WellSuspended, Sound, Open
<1>3. s.path \in DOMAIN disk /\ disk[s.path] \in FileType /\ s.line \in LineType
  BY <1>1, <1>2, OwnFile DEF SessionType
<1>4. Same(t) /\ Same(u)
  BY <1>2 DEF Errored, SessionType, PCs, NoLine, LineType
<1>5. f \in FileType /\ f.synced = disk[s.path].synced
  <2>1. Append(disk[s.path].lines, s.line) \in Seq(LineType)
    BY <1>3 DEF FileType
  <2> QED
    BY <1>3, <2>1 DEF FileType
<1>6. \/ Write(s.path, f) /\ Become(c, t)
      \/ UNCHANGED disk /\ Become(c, u)
  BY DEF WriteLine
<1> HIDE DEF f, t, u
<1>7. FilesTyped' /\ DOMAIN disk' = DOMAIN disk
      /\ \A n \in DOMAIN disk : disk'[n].synced = disk[n].synced
  <2>1. CASE Write(s.path, f)
    BY <1>1, <1>3, <1>5, <2>1, WriteTyped
  <2>2. CASE UNCHANGED disk
    BY <1>1, <2>2 DEF FilesTyped
  <2> QED
    BY <1>6, <2>1, <2>2
<1>8. PICK v : Become(c, v) /\ Same(v)
  BY <1>4, <1>6
<1>9. SessionOK(v) /\ Open(v)
  BY <1>2, <1>8, Aside DEF SessionOK, WellSuspended, Open, OpenParts, FinishParts
<1>10. /\ counter' = counter /\ listening' \in BOOLEAN
       /\ UNCHANGED <<boot, sigio, accepted, abandoned, syncFailed, lost>>
  BY <1>1 DEF WriteLine, HistoryTyped
<1> QED
  BY <1>2, <1>7, <1>8, <1>9, <1>10, KeepStep

(* abort_data, called for the session s that c has become: the file goes.   *)
LEMMA AbortStep ==
  ASSUME IInv, NEW c \in Conns, NEW s \in SessionType, s.path = sess[c].path,
         Open(sess[c]), sess[c].pc \notin {"notify", "hung"}, Abort(c, s)
  PROVE  IInv'
<1> DEFINE t == Answer(LetGo(s), Verdict(s))
<1>1. AllOK /\ FilesTyped /\ HistoryTyped /\ Own
  BY Split
<1>2. SessionOK(t)
  BY LetGoSound, VerdictType, AnswerOK
<1>3. t.pc = "recv" /\ t.state = "CMD" /\ t \in SessionType
  <2>1. LetGo(s) \in SessionType /\ LetGo(s).state = "CMD"
    <3>1. Reset(s) \in SessionType /\ Reset(s).state = "CMD"
      BY ResetSound DEF Sound
    <3> QED
      BY <3>1, LetGoSound DEF LetGo, SessionType, Sound
  <2> HIDE DEF LetGo, Verdict
  <2> QED
    BY <1>2, <2>1 DEF Answer, SessionType, SessionOK, Sound
<1>4. ~Open(t)
  BY <1>3 DEF Open, OpenParts
<1>5. /\ Become(c, t) /\ Unlink(sess[c].path)
      /\ UNCHANGED <<boot, counter, sigio, listening, accepted, abandoned, syncFailed, lost>>
  BY DEF Abort
<1> HIDE DEF t
<1>6. AllOK' /\ FilesTyped' /\ HistoryTyped'
  BY <1>1, <1>2, <1>5, BecomeOK, UnlinkTyped DEF HistoryTyped
<1>7. Own'
  BY <1>1, <1>3, <1>4, <1>5, UnlinkStep
<1> QED
  BY <1>6, <1>7, SplitNext

(* The end of data: aborted at once, or on to the first write of            *)
(* finish_data.                                                             *)
LEMMA EndOfDataStep ==
  ASSUME IInv, NEW c \in Conns, EndOfData(c)
  PROVE  IInv'
<1> DEFINE s == [sess[c] EXCEPT !.reply = "none"]
           t == [s EXCEPT !.pc = "header"]
<1>1. AllOK /\ FilesTyped /\ HistoryTyped /\ Own
  BY Split
<1>2. /\ sess[c].pc = "recv" /\ sess[c].state = "DATA" /\ Open(sess[c])
      /\ Sound(sess[c]) /\ sess[c] \in SessionType
  BY <1>1 DEF EndOfData, AllOK, SessionOK, Sound, Open
<1>3. s \in SessionType /\ s.path = sess[c].path
  BY <1>2 DEF SessionType, Replies
<1>4. CASE Abort(c, s)
  <2> HIDE DEF s
  <2> QED
    BY <1>2, <1>3, <1>4, AbortStep
<1>5. CASE Become(c, t) /\ OnlySessions
  <2>1. t \in SessionType /\ t.pc = "header" /\ t.state = "DATA" /\ t.path = sess[c].path
    BY <1>2 DEF SessionType, Replies, PCs, Parts, FinishParts
  <2>2. /\ t.reverseSet = sess[c].reverseSet /\ t.begun = sess[c].begun
        /\ t.forward = sess[c].forward /\ t.acked = sess[c].acked /\ t.tail = sess[c].tail
    BY <1>2 DEF SessionType
  <2> HIDE DEF s, t
  <2>3. SessionOK(t) /\ Open(t)
    BY <1>2, <2>1, <2>2, Aside DEF SessionOK, WellSuspended, Open, OpenParts, FinishParts
  <2>4. /\ FilesTyped' /\ disk' = disk /\ counter' = counter /\ listening' \in BOOLEAN
        /\ UNCHANGED <<boot, sigio, accepted, abandoned, syncFailed, lost>>
    BY <1>1, <1>5 DEF OnlySessions, FilesTyped, HistoryTyped
  <2> QED
    BY <1>2, <1>5, <2>1, <2>3, <2>4, KeepStep
<1> QED
  BY <1>4, <1>5 DEF EndOfData

(* Remembering an error changes nothing else that matters.                  *)
LEMMA ErroredOK ==
  ASSUME NEW s \in SessionType
  PROVE  Errored(s) \in SessionType /\ Errored(s).path = s.path
BY DEF Errored, SessionType

(* The writes of finish_data: the next one, aio_fsync after the last, or a  *)
(* failure that aborts.                                                     *)
LEMMA FinishWriteStep ==
  ASSUME IInv, NEW c \in Conns, FinishWrite(c)
  PROVE  IInv'
<1> DEFINE s == sess[c]
           f == Written(disk[s.path], s)
           t == [s EXCEPT !.pc = After[s.pc]]
<1>1. AllOK /\ FilesTyped /\ HistoryTyped /\ Own
  BY Split
<1>2. s.pc \in FinishParts /\ s.state = "DATA" /\ Open(s) /\ Sound(s) /\ s \in SessionType
  BY <1>1 DEF FinishWrite, AllOK, SessionOK, WellSuspended, Sound, Open
<1>3. s.path \in DOMAIN disk /\ disk[s.path] \in FileType /\ s.pc \notin {"notify", "hung"}
  BY <1>1, <1>2, OwnFile DEF FinishParts
<1>4. CASE /\ Write(s.path, f) /\ Become(c, t)
           /\ UNCHANGED <<boot, counter, sigio, listening, accepted, abandoned, syncFailed, lost>>
  <2>1. f \in FileType /\ f.synced = disk[s.path].synced
    <3>1. s.pc \in Parts
      BY <1>2 DEF Parts
    <3>2. /\ s.from \in Domains \cup {None} /\ s.reverse \in Mailboxes \cup {None}
          /\ s.forward \in Seq(Mailboxes)
      BY <1>2 DEF SessionType
    <3> QED
      BY <1>3, <3>1, <3>2 DEF Written, FileType, Parts, FinishParts
  <2>2. After[s.pc] \in (FinishParts \ {"header"}) \cup {"sync"}
    BY <1>2 DEF After, FinishParts
  <2> HIDE DEF f
  <2>3. FilesTyped' /\ DOMAIN disk' = DOMAIN disk
        /\ \A n \in DOMAIN disk : disk'[n].synced = disk[n].synced
    BY <1>1, <1>3, <1>4, <2>1, WriteTyped
  <2>4. t \in SessionType /\ t.pc \in FinishParts \cup {"sync"} /\ t.state = "DATA"
        /\ t.path = s.path
    <3> DEFINE pc == After[s.pc]
    <3>1. pc \in PCs /\ pc \in FinishParts \cup {"sync"}
      BY <2>2 DEF PCs, Parts
    <3> HIDE DEF pc
    <3>2. [s EXCEPT !.pc = pc] \in SessionType /\ [s EXCEPT !.pc = pc].pc = pc
          /\ [s EXCEPT !.pc = pc].state = "DATA" /\ [s EXCEPT !.pc = pc].path = s.path
      BY <1>2, <3>1 DEF SessionType
    <3> QED
      BY <3>1, <3>2 DEF pc
  <2>5. /\ t.reverseSet = s.reverseSet /\ t.begun = s.begun /\ t.forward = s.forward
        /\ t.acked = s.acked /\ t.tail = s.tail
    BY <1>2 DEF SessionType
  <2> HIDE DEF t
  <2>6. SessionOK(t) /\ Open(t) /\ t.pc \notin {"notify", "hung"}
    BY <1>2, <2>4, <2>5, Aside DEF SessionOK, WellSuspended, Open, OpenParts, FinishParts
  <2>7. listening' \in BOOLEAN
    BY <1>1, <1>4 DEF HistoryTyped
  <2> QED
    BY <1>2, <1>3, <1>4, <2>3, <2>4, <2>6, <2>7, KeepStep
<1>5. CASE Abort(c, Errored(s))
  BY <1>2, <1>3, <1>5, ErroredOK, AbortStep
<1> QED
  BY <1>4, <1>5 DEF FinishWrite

(* The request for the fsync: refused, or queued.                           *)
LEMMA SyncStep ==
  ASSUME IInv, NEW c \in Conns, Sync(c)
  PROVE  IInv'
<1> DEFINE s == sess[c]
           t == [s EXCEPT !.pc = "syncwait"]
<1>1. AllOK /\ FilesTyped /\ HistoryTyped /\ Own
  BY Split
<1>2. s.pc = "sync" /\ s.state = "DATA" /\ Open(s) /\ Sound(s) /\ s \in SessionType
  BY <1>1 DEF Sync, AllOK, SessionOK, WellSuspended, Sound, Open
<1>3. CASE Abort(c, Errored(s))
  BY <1>2, <1>3, ErroredOK, AbortStep
<1>4. CASE Become(c, t) /\ OnlySessions
  <2>1. t \in SessionType /\ t.pc = "syncwait" /\ t.state = "DATA" /\ t.path = s.path
    BY <1>2 DEF SessionType, PCs
  <2>2. /\ t.reverseSet = s.reverseSet /\ t.begun = s.begun /\ t.forward = s.forward
        /\ t.acked = s.acked /\ t.tail = s.tail
    BY <1>2 DEF SessionType
  <2> HIDE DEF t
  <2>3. SessionOK(t) /\ Open(t)
    BY <1>2, <2>1, <2>2, Aside DEF SessionOK, WellSuspended, Open, OpenParts, FinishParts
  <2>4. /\ FilesTyped' /\ disk' = disk /\ counter' = counter /\ listening' \in BOOLEAN
        /\ UNCHANGED <<boot, sigio, accepted, abandoned, syncFailed, lost>>
    BY <1>1, <1>4 DEF OnlySessions, FilesTyped, HistoryTyped
  <2> QED
    BY <1>2, <1>4, <2>1, <2>3, <2>4, KeepStep
<1> QED
  BY <1>3, <1>4 DEF Sync

(* The kernel completes an fsync: the file is synced or known to have       *)
(* failed, and the session is named by SIGIO or never resumed.              *)
LEMMA SyncCompletesStep ==
  ASSUME IInv, NEW c \in Conns, SyncCompletes(c)
  PROVE  IInv'
<1> DEFINE s == sess[c]
<1>1. AllOK /\ FilesTyped /\ HistoryTyped /\ Own
  BY Split
<1>2. s.pc = "syncwait" /\ s.state = "DATA" /\ Open(s) /\ Sound(s) /\ s \in SessionType
  BY <1>1 DEF SyncCompletes, AllOK, SessionOK, WellSuspended, Sound, Open
<1> DEFINE n == s.path
           f == [disk[n] EXCEPT !.synced = TRUE]
<1>3. n \in DOMAIN disk /\ n \in Names /\ disk[n] \in FileType
  BY <1>1, <1>2, OwnFile
<1>4. PICK t : /\ Become(c, t) /\ SessionOK(t) /\ Open(t) /\ t.path = n
               /\ \/ t.pc = "notify" /\ sigio = None /\ sigio' = c
                  \/ t.pc = "hung" /\ sigio # None /\ sigio' = sigio
  <2>1. \A p \in {"notify", "hung"} :
          LET t == [s EXCEPT !.pc = p]
          IN SessionOK(t) /\ Open(t) /\ t.path = n /\ t.pc = p
    <3> SUFFICES ASSUME NEW p \in {"notify", "hung"}
                 PROVE  LET t == [s EXCEPT !.pc = p]
                        IN SessionOK(t) /\ Open(t) /\ t.path = n /\ t.pc = p
      OBVIOUS
    <3> DEFINE t == [s EXCEPT !.pc = p]
    <3>1. t \in SessionType /\ t.pc = p /\ t.state = "DATA" /\ t.path = n
      BY <1>2 DEF SessionType, PCs
    <3>2. /\ t.reverseSet = s.reverseSet /\ t.begun = s.begun /\ t.forward = s.forward
          /\ t.acked = s.acked /\ t.tail = s.tail
      BY <1>2 DEF SessionType
    <3> HIDE DEF t
    <3>3. SessionOK(t) /\ Open(t) /\ t.path = n /\ t.pc = p
      BY <1>2, <3>1, <3>2, Aside DEF SessionOK, WellSuspended, Open, OpenParts, FinishParts
    <3> QED
      BY <3>3 DEF t
  <2> HIDE DEF s
  <2> QED
    BY <2>1 DEF SyncCompletes, Signal, s
<1>5. /\ FilesTyped' /\ DOMAIN disk' = DOMAIN disk
      /\ \A m \in DOMAIN disk \ {n} : disk'[m] = disk[m]
      /\ \/ disk'[n].synced /\ syncFailed' = syncFailed
         \/ syncFailed' = syncFailed \cup {n}
  <2>1. CASE Write(n, f) /\ UNCHANGED syncFailed
    <3>1. f \in FileType /\ f.synced
      BY <1>3 DEF FileType
    <3> HIDE DEF f
    <3> QED
      BY <1>1, <1>3, <2>1, <3>1, WriteTyped
  <2>2. CASE syncFailed' = syncFailed \cup {n} /\ UNCHANGED disk
    BY <1>1, <2>2 DEF FilesTyped
  <2> QED
    BY <2>1, <2>2 DEF SyncCompletes
<1>6. UNCHANGED <<boot, counter, listening, accepted, abandoned, lost>>
  BY DEF SyncCompletes
<1>7. AllOK' /\ HistoryTyped'
  BY <1>1, <1>3, <1>4, <1>5, <1>6, BecomeOK DEF HistoryTyped
<1>8. \A d \in Conns : sess'[d] = IF d = c THEN t ELSE sess[d]
  BY <1>1, <1>4 DEF Become, AllOK
<1>9. AcceptedNames' = AcceptedNames /\ \A d \in Conns : Writing(d)' <=> Writing(d)
  BY <1>2, <1>4, <1>6, <1>8 DEF AcceptedNames, Writing
<1>10. NamesUsed'
  <2>1. Used(n)
    BY <1>1, <1>2 DEF Own, NamesUsed, Writing
  <2> QED
    BY <1>1, <1>4, <1>5, <1>6, <1>8, <1>9, <2>1 DEF Own, NamesUsed, Used
<1>11. SignalNames'
  BY <1>1, <1>2, <1>4, <1>8, NoneAssumption DEF Own, SignalNames
<1>12. FileIsOwn'
  BY <1>1, <1>4, <1>5, <1>6, <1>8, <1>9 DEF Own, FileIsOwn
<1>13. SyncKnown'
  <2>1. \A d \in Conns \ {c} : Writing(d) => sess[d].path # n /\ sess[d].path \in DOMAIN disk
    BY <1>1, <1>2 DEF Own, FileIsOwn, Writing
  <2> QED
    BY <1>1, <1>4, <1>5, <1>8, <1>9, <2>1 DEF Own, SyncKnown
<1>14. AcceptedIsDurable'
  BY <1>1, <1>5, <1>6, <1>9 DEF Own, AcceptedIsDurable
<1>15. SpoolAccounted'
  BY <1>1, <1>4, <1>5, <1>6, <1>8, <1>9 DEF Own, SpoolAccounted
<1>16. LossKnown'
  <2>1. n \notin lost
    BY <1>1, <1>2 DEF Own, FileIsOwn, LossKnown, Writing
  <2> QED
    BY <1>1, <1>5, <1>6, <1>9, <2>1 DEF Own, LossKnown
<1> QED
  BY <1>5, <1>7, <1>10, <1>11, <1>12, <1>13, <1>14, <1>15, <1>16, SplitNext DEF Own

(* io_signal resumes the session, which hands its file over to the client:  *)
(* the file is synced, or its fsync is known to have failed.                *)
LEMMA AcknowledgeStep ==
  ASSUME IInv, NEW c \in Conns, Acknowledge(c)
  PROVE  IInv'
<1> DEFINE s == sess[c]
           n == s.path
           t == Answer(LetGo(s), "ok")
<1>1. AllOK /\ FilesTyped /\ HistoryTyped /\ Own
  BY Split
<1>2. s.pc = "notify"
  BY <1>1 DEF Acknowledge, Own, SignalNames
<1>3. s.state = "DATA" /\ Open(s) /\ Sound(s) /\ s \in SessionType /\ Writing(c)
  BY <1>1, <1>2 DEF AllOK, SessionOK, WellSuspended, Sound, Open, Writing
<1>4. n \in DOMAIN disk /\ n \in Names /\ (n \in syncFailed \/ disk[n].synced)
  BY <1>1, <1>2, <1>3, OwnFile DEF Own, SyncKnown
<1>5. t.pc = "recv" /\ ~Open(t) /\ SessionOK(t)
  <2>1. "ok" \in Replies
    BY DEF Replies
  <2>2. Reset(s) \in SessionType /\ Reset(s).state = "CMD"
    BY <1>3, ResetSound DEF Sound
  <2>3. LetGo(s) \in SessionType /\ LetGo(s).state = "CMD" /\ Sound(LetGo(s))
    BY <1>3, <2>2, LetGoSound DEF LetGo, SessionType, Sound
  <2> HIDE DEF LetGo
  <2>4. SessionOK(t) /\ t.pc = "recv" /\ t.state = "CMD"
    BY <2>1, <2>3, AnswerOK DEF Answer, SessionType
  <2> QED
    BY <2>4 DEF Open, OpenParts
<1>6. /\ Become(c, t) /\ sigio = c /\ sigio' = None
      /\ accepted' = accepted \cup {Message(s)}
      /\ UNCHANGED <<disk, boot, counter, listening, abandoned, syncFailed, lost>>
  BY DEF Acknowledge
<1>7. Message(s) \in MessageType /\ Message(s).name = n
  BY <1>3, <1>4 DEF Message, MessageType, SessionType
<1> HIDE DEF t
<1>8. AllOK' /\ FilesTyped' /\ HistoryTyped'
  BY <1>1, <1>5, <1>6, <1>7, BecomeOK DEF FilesTyped, HistoryTyped
<1>9. \A d \in Conns : sess'[d] = IF d = c THEN t ELSE sess[d]
  BY <1>1, <1>6 DEF Become, AllOK
<1>10. AcceptedNames' = AcceptedNames \cup {n}
  BY <1>6, <1>7 DEF AcceptedNames
<1>11. ~Writing(c)' /\ \A d \in Conns \ {c} : sess'[d] = sess[d] /\ (Writing(d)' <=> Writing(d))
  BY <1>5, <1>9 DEF Writing
<1>12. NamesUsed'
  <2>1. Used(n)
    BY <1>1, <1>3 DEF Own, NamesUsed
  <2> QED
    BY <1>1, <1>6, <1>10, <1>11, <2>1 DEF Own, NamesUsed, Used
<1>13. SignalNames'
  BY <1>1, <1>5, <1>6, <1>9, NoneAssumption DEF Own, SignalNames
<1>14. FileIsOwn'
  <2>1. \A d \in Conns \ {c} : Writing(d) => sess[d].path # n
    BY <1>1, <1>3 DEF Own, FileIsOwn
  <2> QED
    BY <1>1, <1>6, <1>10, <1>11, <2>1 DEF Own, FileIsOwn
<1>15. SyncKnown'
  BY <1>1, <1>6, <1>11 DEF Own, SyncKnown
<1>16. AcceptedIsDurable'
  BY <1>1, <1>4, <1>6, <1>10 DEF Own, AcceptedIsDurable
<1>17. SpoolAccounted'
  BY <1>1, <1>6, <1>10, <1>11 DEF Own, SpoolAccounted
<1>18. LossKnown'
  BY <1>1, <1>6, <1>10 DEF Own, LossKnown
<1> QED
  BY <1>8, <1>12, <1>13, <1>14, <1>15, <1>16, <1>17, <1>18, SplitNext DEF Own

(* The connection is lost: between commands, or in the midst of a message.  *)
LEMMA DisconnectStep ==
  ASSUME IInv, NEW c \in Conns, Disconnect(c)
  PROVE  IInv'
<1>1. AllOK /\ FilesTyped /\ HistoryTyped /\ Own
  BY Split
<1>2. SessionOK(NoSession) /\ NoSession.pc = "down" /\ NoSession.state = "CMD"
  BY NewSessionOK DEF NoSession, NewSession
<1>3. ~Open(NoSession) /\ NoSession \in SessionType
  BY <1>2 DEF Open, OpenParts, SessionOK, Sound
<1>4. /\ Become(c, NoSession) /\ sess[c].pc = "recv"
      /\ UNCHANGED <<disk, boot, counter, sigio, listening, accepted, syncFailed, lost>>
  BY DEF Disconnect
<1>5. FilesTyped' /\ listening' \in BOOLEAN
  BY <1>1, <1>4 DEF FilesTyped, HistoryTyped
<1>6. CASE Open(sess[c])
  <2>1. abandoned' = abandoned \cup {sess[c].path}
    BY <1>6 DEF Disconnect
  <2>2. AllOK' /\ HistoryTyped'
    BY <1>1, <1>2, <1>4, <1>6, <2>1, BecomeOK, OwnFile DEF HistoryTyped
  <2>3. Own'
    BY <1>1, <1>2, <1>3, <1>4, <1>6, <2>1, LeaveStep
  <2> QED
    BY <1>5, <2>2, <2>3, SplitNext
<1>7. CASE ~Open(sess[c])
  <2>1. abandoned' = abandoned
    BY <1>7 DEF Disconnect
  <2> QED
    BY <1>2, <1>3, <1>4, <1>5, <1>7, <2>1, KeepStep
<1> QED
  BY <1>6, <1>7

(* The process is gone: its messages are left behind.  Whatever became of   *)
(* the files, none is new, what has gone or changed is known as lost, and   *)
(* nothing of a file that was synced has changed.                           *)
LEMMA RestartStep ==
  ASSUME IInv, Restart, FilesTyped',
         DOMAIN disk' \subseteq DOMAIN disk,
         lost \subseteq lost', lost' \subseteq lost \cup DOMAIN disk,
         \A n \in DOMAIN disk : n \in DOMAIN disk' \/ n \in lost',
         \A n \in DOMAIN disk' : disk[n].synced => disk'[n].synced,
         \A n \in DOMAIN disk' \cap lost' : ~disk'[n].synced
  PROVE  IInv'
<1>1. AllOK /\ FilesTyped /\ HistoryTyped /\ Own
  BY Split
<1> DEFINE left == {sess[c].path : c \in {x \in Conns : Open(sess[x])}}
<1>2. /\ boot' = boot + 1 /\ counter' = 0 /\ sigio' = None /\ listening' = TRUE
      /\ sess' = [c \in Conns |-> NoSession]
      /\ abandoned' = abandoned \cup left
      /\ UNCHANGED <<accepted, syncFailed>>
  BY DEF Restart
<1>3. SessionOK(NoSession) /\ NoSession.pc = "down" /\ ~Open(NoSession) /\ NoSession \in SessionType
  <2>1. SessionOK(NoSession) /\ NoSession.pc = "down" /\ NoSession.state = "CMD"
    BY NewSessionOK DEF NoSession, NewSession
  <2> QED
    BY <2>1 DEF Open, OpenParts, SessionOK, Sound
<1>4. AllOK'
  BY <1>2, <1>3 DEF AllOK, SessionOK, Sound
<1>5. \A n \in left : n \in Names /\ Used(n)
  BY <1>1 DEF Own, NamesUsed, Writing, Used
<1>6. DOMAIN disk \subseteq AcceptedNames \cup abandoned \cup left
  BY <1>1 DEF Own, SpoolAccounted, Writing
<1>7. HistoryTyped'
  <2>1. lost' \subseteq Names
    BY <1>1 DEF HistoryTyped, FilesTyped
  <2> QED
    BY <1>1, <1>2, <1>5, <2>1 DEF HistoryTyped
<1>8. AcceptedNames' = AcceptedNames /\ \A c \in Conns : ~Writing(c)' /\ sess'[c].pc = "down"
  BY <1>2, <1>3 DEF AcceptedNames, Writing
<1>9. NamesUsed'
  <2>1. \A n : Used(n) => Used(n)'
    BY <1>1, <1>2 DEF Used, HistoryTyped, Names
  <2> QED
    BY <1>1, <1>2, <1>5, <1>8, <2>1 DEF Own, NamesUsed
<1>10. SignalNames'
  BY <1>2, <1>8, NoneAssumption DEF SignalNames
<1>11. FileIsOwn' /\ SyncKnown'
  BY <1>8 DEF FileIsOwn, SyncKnown
<1>12. AcceptedIsDurable'
  BY <1>1, <1>2, <1>8 DEF Own, AcceptedIsDurable
<1>13. SpoolAccounted'
  BY <1>2, <1>6, <1>8 DEF SpoolAccounted
<1>14. LossKnown'
  BY <1>1, <1>2, <1>6, <1>8 DEF Own, LossKnown
<1> QED
  BY <1>4, <1>7, <1>9, <1>10, <1>11, <1>12, <1>13, <1>14, SplitNext DEF Own

(* The process dies: the disk stays as it is.                               *)
LEMMA CrashStep ==
  ASSUME IInv, Crash
  PROVE  IInv'
<1>1. Restart /\ UNCHANGED <<disk, lost>> /\ FilesTyped /\ LossKnown
  BY Split DEF Crash, Own
<1>2. FilesTyped'
  BY <1>1 DEF FilesTyped
<1>3. \A n \in DOMAIN disk' \cap lost' : ~disk'[n].synced
  BY <1>1 DEF LossKnown
<1> QED
  BY <1>1, <1>2, <1>3, RestartStep

(* The machine dies: entries go, and data that were not synced.             *)
LEMMA PowerFailureStep ==
  ASSUME IInv, PowerFailure
  PROVE  IInv'
<1>1. FilesTyped /\ LossKnown
  BY Split DEF Own
<1>2. PICK gone, bare :
        /\ gone \in SUBSET DOMAIN disk
        /\ bare \in SUBSET {n \in DOMAIN disk \ gone : ~disk[n].synced}
        /\ disk' = [n \in DOMAIN disk \ gone |-> IF n \in bare THEN EmptyFile ELSE disk[n]]
        /\ lost' = lost \cup gone \cup bare
  BY DEF PowerFailure
<1>3. EmptyFile \in FileType /\ ~EmptyFile.synced
  BY EmptySeqType DEF EmptyFile, FileType
<1>4. /\ DOMAIN disk' = DOMAIN disk \ gone
      /\ \A n \in DOMAIN disk' : disk'[n] = IF n \in bare THEN EmptyFile ELSE disk[n]
  BY <1>2
<1>5. FilesTyped'
  <2>1. \A n \in DOMAIN disk \ gone : (IF n \in bare THEN EmptyFile ELSE disk[n]) \in FileType
    BY <1>1, <1>3 DEF FilesTyped
  <2> QED
    BY <1>1, <1>2, <1>4, <2>1 DEF FilesTyped
<1>6. \A n \in DOMAIN disk' : disk[n].synced => disk'[n].synced
  BY <1>2, <1>4
<1>7. \A n \in DOMAIN disk' \cap lost' : ~disk'[n].synced
  BY <1>1, <1>2, <1>3, <1>4 DEF LossKnown
<1>8. Restart
  BY DEF PowerFailure
<1> QED
  BY <1>2, <1>4, <1>5, <1>6, <1>7, <1>8, RestartStep

-----------------------------------------------------------------------------
(* The theorems                                                             *)

(* The process starts with no session and no file.                          *)
LEMMA InitStep == Init => IInv
<1> SUFFICES ASSUME Init
             PROVE  IInv
  OBVIOUS
<1>1. SessionOK(NoSession) /\ NoSession.pc = "down" /\ NoSession.state = "CMD"
  BY NewSessionOK DEF NoSession, NewSession
<1>2. \A c \in Conns : sess[c] = NoSession
  BY DEF Init
<1>3. \A c \in Conns : ~Writing(c)
  BY <1>1, <1>2 DEF Writing, Open, OpenParts
<1>4. AllOK
  BY <1>1, <1>2 DEF Init, AllOK, SessionOK, Sound
<1>5. FilesTyped /\ HistoryTyped
  BY DEF Init, FilesTyped, HistoryTyped
<1>6. AcceptedNames = {}
  BY DEF Init, AcceptedNames
<1>7. Own
  <2>1. NamesUsed /\ FileIsOwn /\ SyncKnown
    BY <1>3, <1>6 DEF Init, NamesUsed, FileIsOwn, SyncKnown
  <2>2. SignalNames
    BY <1>1, <1>2, NoneAssumption DEF Init, SignalNames
  <2>3. AcceptedIsDurable /\ SpoolAccounted /\ LossKnown
    BY <1>6 DEF Init, AcceptedIsDurable, SpoolAccounted, LossKnown
  <2> QED
    BY <2>1, <2>2, <2>3 DEF Own
<1> QED
  BY <1>4, <1>5, <1>7, Split

(* IInv is inductive: every action of the receiver keeps it.                *)
LEMMA NextStep == IInv /\ [Next]_vars => IInv'
<1> SUFFICES ASSUME IInv, [Next]_vars
             PROVE  IInv'
  OBVIOUS
<1>1. ASSUME NEW c \in Conns, Connect(c) \/ Disconnect(c) \/ Command(c)
      PROVE  IInv'
  BY <1>1, ConnectStep, DisconnectStep, CommandStep
<1>2. ASSUME NEW c \in Conns, DataOutOfSequence(c) \/ Data(c) \/ ReceiveLine(c) \/ EndOfData(c)
      PROVE  IInv'
  BY <1>2, DataOutOfSequenceStep, DataStep, ReceiveLineStep, EndOfDataStep
<1>3. ASSUME NEW c \in Conns, Progress(c)
      PROVE  IInv'
  BY <1>3, OpenWriteStep, WriteLineStep, FinishWriteStep, SyncStep DEF Progress
<1>4. ASSUME NEW c \in Conns, SyncCompletes(c) \/ Acknowledge(c)
      PROVE  IInv'
  BY <1>4, SyncCompletesStep, AcknowledgeStep
<1>5. CASE AcceptFails
  BY <1>5, ListenerStep DEF AcceptFails
<1>6. CASE Crash \/ PowerFailure
  BY <1>6, CrashStep, PowerFailureStep
<1>7. CASE UNCHANGED vars
  BY <1>7, Split, ListenerStep DEF vars, HistoryTyped
<1> QED
  BY <1>1, <1>2, <1>3, <1>4, <1>5, <1>6, <1>7 DEF Next

(* The inductive invariant holds in every reachable state.                  *)
THEOREM Invariant == Spec => []IInv
<1>1. Init => IInv
  BY InitStep
<1>2. IInv /\ [Next]_vars => IInv'
  BY NextStep
<1> QED
  BY <1>1, <1>2, PTL DEF Spec

(* Every variable keeps its type.                                           *)
THEOREM TypeCorrect == Spec => []TypeOK
<1>1. IInv => TypeOK
  BY DEF IInv
<1> QED
  BY <1>1, Invariant, PTL

(* A message answered 250 is on disk, however often the process died, until *)
(* a power failure takes its directory entry, which nobody syncs; and while *)
(* it is there it is synced, unless its asynchronous fsync failed:          *)
(* finish_data replies last.                                                *)
THEOREM Durability == Spec => []AcceptedIsDurable
<1>1. IInv => AcceptedIsDurable
  BY DEF IInv
<1> QED
  BY <1>1, Invariant, PTL

(* No two sessions, before or after a restart, write the same file, and     *)
(* none writes one that was answered 250 or left behind:                    *)
(* get_unique_filename, for as long as it is unique.                        *)
THEOREM Ownership == Spec => []FileIsOwn
<1>1. IInv => FileIsOwn
  BY DEF IInv
<1> QED
  BY <1>1, Invariant, PTL

(* An aborted message leaves no file: every file was answered 250, is in    *)
(* the midst of its transaction, or was left by a failed open_files, a lost *)
(* connection or the death of the process.                                  *)
THEOREM Accounting == Spec => []SpoolAccounted
<1>1. IInv => SpoolAccounted
  BY DEF IInv
<1> QED
  BY <1>1, Invariant, PTL

(* The recipients of an open transaction are those that RCPT accepted since *)
(* MAIL did, whatever a bare RCPT finds in the command buffer.              *)
THEOREM Envelope == Spec => []EnvelopeIsOwn
<1>1. IInv => EnvelopeIsOwn
  BY DEF IInv, KnownTail, EnvelopeIsOwn
<1> QED
  BY <1>1, Invariant, PTL

(* A step that writes, creates or unlinks a file leaves those alone that    *)
(* were answered 250.                                                       *)
LEMMA UntouchedStep ==
  ASSUME IInv, Next, boot' = boot
  PROVE  \A n \in AcceptedNames \cap DOMAIN disk :
           n \in DOMAIN disk' /\ disk'[n] = disk[n]
<1> DEFINE Same(n) == n \in DOMAIN disk' /\ disk'[n] = disk[n]
<1>1. ASSUME UNCHANGED disk
      PROVE  \A n \in DOMAIN disk : Same(n)
  BY <1>1
<1>2. ASSUME NEW c \in Conns, Open(sess[c]),
             \/ \E f : Write(sess[c].path, f)
             \/ Unlink(sess[c].path)
      PROVE  \A n \in AcceptedNames \cap DOMAIN disk : Same(n)
  <2>1. sess[c].path \notin AcceptedNames
    BY <1>2 DEF IInv, FileIsOwn, Writing
  <2>2. ASSUME NEW f, Write(sess[c].path, f)
        PROVE  \A n \in DOMAIN disk \ {sess[c].path} : Same(n)
    BY <2>2 DEF Write, IInv, TypeOK
  <2>3. ASSUME Unlink(sess[c].path)
        PROVE  \A n \in DOMAIN disk \ {sess[c].path} : Same(n)
    BY <2>3 DEF Unlink, Restrict
  <2> QED
    BY <1>2, <2>1, <2>2, <2>3
<1>3. \A c \in Conns : /\ sess[c] \in SessionType /\ WellSuspended(sess[c])
                       /\ sess[c].state = "DATA" => Open(sess[c])
  BY Split DEF AllOK, SessionOK, Sound, Open
<1>4. ASSUME NEW c \in Conns, Connect(c) \/ Disconnect(c) \/ Command(c)
      PROVE  UNCHANGED disk
  <2>1. CASE Connect(c) \/ Disconnect(c)
    BY <2>1 DEF Connect, Disconnect, OnlySessions
  <2>2. CASE Helo(c) \/ Mail(c) \/ RcptTooShort(c)
    BY <2>2 DEF Helo, Mail, MailBadPath, MailOutOfSequence, MailAccepted, RcptTooShort,
                OnlySessions
  <2>3. CASE Rcpt(c) \/ BareRcpt(c) \/ Rset(c) \/ Noop(c) \/ Quit(c)
    BY <2>3 DEF Rcpt, BareRcpt, Rset, Noop, Quit, OnlySessions
  <2> QED
    BY <1>4, <2>1, <2>2, <2>3 DEF Command
<1>5. ASSUME NEW c \in Conns, DataOutOfSequence(c) \/ ReceiveLine(c) \/ Acknowledge(c)
      PROVE  UNCHANGED disk
  BY <1>5 DEF DataOutOfSequence, ReceiveLine, Acknowledge, OnlySessions
<1>6. ASSUME NEW c \in Conns, Data(c)
      PROVE  \A n \in DOMAIN disk : Same(n)
  BY <1>6 DEF Data, Create
<1>7. ASSUME NEW c \in Conns, EndOfData(c)
      PROVE  UNCHANGED disk \/ (Open(sess[c]) /\ Unlink(sess[c].path))
  <2>1. [sess[c] EXCEPT !.reply = "none"].path = sess[c].path /\ Open(sess[c])
    BY <1>3, <1>7 DEF SessionType, EndOfData
  <2> QED
    BY <1>7, <2>1 DEF EndOfData, Abort, OnlySessions
<1>8. ASSUME NEW c \in Conns, Progress(c)
      PROVE  \/ UNCHANGED disk
             \/ Open(sess[c]) /\ Unlink(sess[c].path)
             \/ Open(sess[c]) /\ \E f : Write(sess[c].path, f)
  <2>1. Errored(sess[c]).path = sess[c].path
    BY <1>3, ErroredOK
  <2>2. CASE OpenWrite(c)
    BY <2>2 DEF OpenWrite, Open
  <2>3. CASE WriteLine(c)
    BY <1>3, <2>3 DEF WriteLine, WellSuspended
  <2>4. CASE FinishWrite(c)
    BY <1>3, <2>1, <2>4 DEF FinishWrite, Abort, WellSuspended
  <2>5. CASE Sync(c)
    BY <1>3, <2>1, <2>5 DEF Sync, Abort, WellSuspended, OnlySessions
  <2> QED
    BY <1>8, <2>2, <2>3, <2>4, <2>5 DEF Progress
<1>9. ASSUME NEW c \in Conns, SyncCompletes(c)
      PROVE  UNCHANGED disk \/ (Open(sess[c]) /\ \E f : Write(sess[c].path, f))
  BY <1>3, <1>9 DEF SyncCompletes, WellSuspended
<1>10. ~Crash /\ ~PowerFailure
  BY DEF Crash, PowerFailure, Restart, IInv, TypeOK
<1>11. CASE AcceptFails
  BY <1>11 DEF AcceptFails
<1> QED
  BY <1>1, <1>2, <1>4, <1>5, <1>6, <1>7, <1>8, <1>9, <1>10, <1>11 DEF Next

(* Nothing that any session or incarnation of the receiver does touches a   *)
(* file after its message was answered 250.                                 *)
THEOREM Untouched == Spec => AcceptedIsUntouched
<1>1. IInv /\ [Next]_vars =>
        [boot' = boot =>
           \A n \in AcceptedNames \cap DOMAIN disk : n \in DOMAIN disk' /\ disk'[n] = disk[n]]_vars
  BY UntouchedStep
<1> QED
  BY <1>1, Invariant, PTL DEF Spec, AcceptedIsUntouched

-----------------------------------------------------------------------------
(* The size of a text                                                       *)

(* g is the size of each beginning of q, up to n lines.                     *)
IsSize(g, q, n) ==
  g = [i \in 0 .. n |-> IF i = 0 THEN 0 ELSE g[i - 1] + Size(q[i]) + 2]

(* A line has a size.                                                       *)
LEMMA SizeType ==
  ASSUME NEW l \in LineType
  PROVE  Size(l) \in Nat
BY DEF Size, LineType

(* The recursion of TextSize has a solution, with natural numbers.          *)
LEMMA SizeExists ==
  ASSUME NEW q \in Seq(LineType)
  PROVE  \E g \in [0 .. Len(q) -> Nat] : IsSize(g, q, Len(q))
<1> DEFINE Has(n) == \E g \in [0 .. n -> Nat] : IsSize(g, q, n)
           T == {n \in Nat : n <= Len(q) => Has(n)}
<1>1. 0 \in T
  <2> DEFINE g == [i \in 0 .. 0 |-> 0]
  <2>1. g \in [0 .. 0 -> Nat] /\ IsSize(g, q, 0)
    BY DEF IsSize
  <2> QED
    BY <2>1
<1>2. ASSUME NEW n \in T
      PROVE  n + 1 \in T
  <2> SUFFICES ASSUME n + 1 <= Len(q)
               PROVE  Has(n + 1)
    OBVIOUS
  <2>1. n \in Nat /\ n <= Len(q) /\ Len(q) \in Nat
    OBVIOUS
  <2>2. PICK g \in [0 .. n -> Nat] : IsSize(g, q, n)
    BY <2>1
  <2> DEFINE more == g[n] + Size(q[n + 1]) + 2
             h == [i \in 0 .. n + 1 |-> IF i = n + 1 THEN more ELSE g[i]]
  <2>3. q[n + 1] \in LineType
    BY <2>1
  <2>4. more \in Nat
    BY <2>1, <2>3, SizeType
  <2>5. h \in [0 .. n + 1 -> Nat]
    <3> HIDE DEF more
    <3> QED
      BY <2>1, <2>4
  <2>6. \A i \in 0 .. n + 1 : h[i] = IF i = 0 THEN 0 ELSE h[i - 1] + Size(q[i]) + 2
    <3>1. \A i \in 0 .. n : g[i] = IF i = 0 THEN 0 ELSE g[i - 1] + Size(q[i]) + 2
      BY <2>2 DEF IsSize
    <3>2. h[n + 1] = h[n] + Size(q[n + 1]) + 2
      BY <2>1
    <3>3. \A i \in 0 .. n : h[i] = g[i] /\ (i # 0 => h[i - 1] = g[i - 1])
      BY <2>1
    <3> HIDE DEF h
    <3> QED
      BY <2>1, <3>1, <3>2, <3>3
  <2>7. IsSize(h, q, n + 1)
    <3> HIDE DEF h
    <3> QED
      BY <2>5, <2>6 DEF IsSize
  <2> QED
    BY <2>5, <2>7
<1>3. T = Nat
  <2> HIDE DEF Has
  <2> QED
    BY <1>1, <1>2, Induction
<1> QED
  BY <1>3

(* It has no other.                                                         *)
LEMMA SizeUnique ==
  ASSUME NEW p \in Seq(LineType), NEW q \in Seq(LineType),
         NEW n \in Nat, NEW m \in Nat, NEW g, NEW h, n <= m,
         \A i \in 1 .. n : p[i] = q[i], IsSize(g, p, n), IsSize(h, q, m)
  PROVE  g[n] = h[n]
<1> DEFINE T == {k \in Nat : k <= n => g[k] = h[k]}
<1>1. 0 \in T
  BY DEF IsSize
<1>2. ASSUME NEW k \in T
      PROVE  k + 1 \in T
  <2> SUFFICES ASSUME k + 1 <= n
               PROVE  g[k + 1] = h[k + 1]
    OBVIOUS
  <2>1. k + 1 \in 1 .. n /\ k + 1 \in 0 .. n /\ k + 1 \in 0 .. m /\ k + 1 # 0 /\ (k + 1) - 1 = k
    OBVIOUS
  <2>2. g[k + 1] = g[k] + Size(p[k + 1]) + 2
    BY <2>1 DEF IsSize
  <2>3. h[k + 1] = h[k] + Size(q[k + 1]) + 2
    BY <2>1 DEF IsSize
  <2>4. g[k] = h[k] /\ p[k + 1] = q[k + 1]
    BY <2>1
  <2> QED
    BY <2>2, <2>3, <2>4
<1>3. T = Nat
  BY <1>1, <1>2, Induction
<1> QED
  BY <1>3

(* TextSize is what any solution says of the whole text.                    *)
LEMMA TextSizeIs ==
  ASSUME NEW q \in Seq(LineType)
  PROVE  \E g \in [0 .. Len(q) -> Nat] : IsSize(g, q, Len(q)) /\ TextSize(q) = g[Len(q)]
<1> DEFINE Eq(g) == g = [i \in 0 .. Len(q) |-> IF i = 0 THEN 0 ELSE g[i - 1] + Size(q[i]) + 2]
           f == CHOOSE g : Eq(g)
<1>1. PICK g \in [0 .. Len(q) -> Nat] : Eq(g)
  BY SizeExists DEF IsSize
<1>2. Eq(f)
  BY <1>1
<1>3. TextSize(q) = f[Len(q)]
  BY DEF TextSize
<1>4. IsSize(f, q, Len(q)) /\ IsSize(g, q, Len(q))
  BY <1>1, <1>2 DEF IsSize
<1>5. Len(q) \in Nat
  OBVIOUS
<1>6. f[Len(q)] = g[Len(q)]
  <2> HIDE DEF f
  <2> QED
    BY <1>4, <1>5, SizeUnique
<1> QED
  BY <1>3, <1>4, <1>6

(* The empty text has size 0, and one line more adds its size and a CRLF.   *)
LEMMA TextSizeEmpty == TextSize(<<>>) = 0
<1>1. PICK g \in [0 .. Len(<<>>) -> Nat] : IsSize(g, <<>>, 0) /\ TextSize(<<>>) = g[0]
  BY EmptySeqType, TextSizeIs
<1> QED
  BY <1>1 DEF IsSize

(* The size of a text with a line more.                                     *)
LEMMA TextSizeAppend ==
  ASSUME NEW q \in Seq(LineType), NEW l \in LineType
  PROVE  /\ TextSize(q) \in Nat
         /\ TextSize(Append(q, l)) = TextSize(q) + Size(l) + 2
<1>1. PICK n \in Nat : n = Len(q)
  OBVIOUS
<1>2. PICK a \in Seq(LineType) : a = Append(q, l)
  <2>1. Append(q, l) \in Seq(LineType)
    OBVIOUS
  <2> QED
    BY <2>1
<1>3. Len(a) = n + 1 /\ a[n + 1] = l /\ \A i \in 1 .. n : q[i] = a[i]
  BY <1>1, <1>2
<1>4. PICK g : g \in [0 .. n -> Nat] /\ IsSize(g, q, n) /\ TextSize(q) = g[n]
  BY <1>1, TextSizeIs
<1>5. PICK h : h \in [0 .. n + 1 -> Nat] /\ IsSize(h, a, n + 1) /\ TextSize(a) = h[n + 1]
  BY <1>3, TextSizeIs
<1>6. g[n] = h[n]
  <2>1. n + 1 \in Nat /\ n <= n + 1
    OBVIOUS
  <2>2. IsSize(g, q, n) /\ IsSize(h, a, n + 1)
    BY <1>4, <1>5
  <2> QED
    BY <2>1, <2>2, <1>3, SizeUnique
<1>7. h[n + 1] = h[n] + Size(l) + 2
  <2>1. n + 1 \in 0 .. n + 1 /\ n + 1 # 0 /\ (n + 1) - 1 = n
    OBVIOUS
  <2> QED
    BY <1>3, <1>5, <2>1 DEF IsSize
<1> QED
  BY <1>2, <1>4, <1>5, <1>6, <1>7

(* And a text with one line more has a line too long if it had one before   *)
(* or gets one now.                                                         *)
LEMMA TooLongAppend ==
  ASSUME NEW q \in Seq(LineType), NEW l \in LineType
  PROVE  TooLong(Append(q, l)) <=> TooLong(q) \/ Size(l) > MaxLine
<1> DEFINE a == Append(q, l)
<1>1. PICK n \in Nat : n = Len(q)
  OBVIOUS
<1>2. DOMAIN q = 1 .. n /\ DOMAIN a = 1 .. n + 1 /\ a[n + 1] = l
      /\ \A i \in 1 .. n : a[i] = q[i]
  BY <1>1
<1>3. \A i : i \in DOMAIN a <=> i \in DOMAIN q \/ i = n + 1
  BY <1>2
<1>4. \A i \in DOMAIN q : a[i] = q[i]
  BY <1>2
<1> HIDE DEF a
<1> QED
  BY <1>2, <1>3, <1>4, Zenon DEF TooLong, a

(* An empty text has no line.                                               *)
LEMMA TooLongEmpty == ~TooLong(<<>>)
BY DEF TooLong

-----------------------------------------------------------------------------
(* What a session and its file hold                                         *)

Fine(s, f) ==
  /\ s.state = "CMD" => s.sent = <<>>
  /\ Open(s) => InProgress(s, f)
  /\ Counted(s)

(* A session between commands has nothing to hold.                          *)
LEMMA ClosedIsFine ==
  ASSUME NEW s, Closed(s, <<>>), NEW f
  PROVE  Fine(s, f) /\ ~Open(s)
BY DEF Closed, Fine, Open, OpenParts, Counted

(* The parts, write by write.                                               *)
LEMMA PartsInOrder ==
  /\ PartsBefore("space") = {}
  /\ PartsBefore("trace") = PartsBefore("space") \cup {"space"}
  /\ PartsBefore("recv") = PartsBefore("trace") \cup {"trace"}
  /\ PartsBefore("write") = PartsBefore("recv")
  /\ PartsBefore("header") = PartsBefore("recv")
  /\ \A p \in FinishParts : PartsBefore(After[p]) = PartsBefore(p) \cup {p}
  /\ \A p \in Syncing : PartsBefore(p) = Parts
<1>1. /\ PartsBefore("space") = {}
      /\ PartsBefore("trace") = {"space"}
      /\ PartsBefore("recv") = OpenParts
      /\ PartsBefore("write") = OpenParts
      /\ PartsBefore("header") = OpenParts
      /\ PartsBefore("pad") = OpenParts \cup {"header"}
      /\ PartsBefore("metaspace") = OpenParts \cup {"header", "pad"}
      /\ PartsBefore("meta") = OpenParts \cup {"header", "pad", "metaspace"}
      /\ PartsBefore("metaheader") = Parts \ {"metaheader", "metapad"}
      /\ PartsBefore("metapad") = Parts \ {"metapad"}
      /\ \A p \in Syncing : PartsBefore(p) = Parts
  BY DEF PartsBefore, Syncing
<1>2. /\ After["header"] = "pad" /\ After["pad"] = "metaspace" /\ After["metaspace"] = "meta"
      /\ After["meta"] = "metaheader" /\ After["metaheader"] = "metapad"
      /\ After["metapad"] = "sync"
  BY DEF After, FinishParts
<1> QED
  BY <1>1, <1>2 DEF OpenParts, FinishParts, Parts, Syncing

(* A step leaves alone the files of other sessions and those of messages    *)
(* answered 250.                                                            *)
Elsewhere(c) ==
  /\ \A d \in Conns \ {c} : Writing(d) => disk'[sess[d].path] = disk[sess[d].path]
  /\ \A n \in AcceptedNames \cap DOMAIN disk' : n \in DOMAIN disk /\ disk'[n] = disk[n]

(* As does a step that changes no file.                                     *)
LEMMA SameFiles ==
  ASSUME UNCHANGED disk, NEW c \in Conns
  PROVE  Elsewhere(c)
BY DEF Elsewhere

(* And a step that writes or unlinks the file of one session.               *)
LEMMA OwnFileOnly ==
  ASSUME IInv, NEW c \in Conns, Open(sess[c]),
         \/ \E f : Write(sess[c].path, f)
         \/ Unlink(sess[c].path)
  PROVE  Elsewhere(c)
<1> DEFINE n == sess[c].path
<1>1. n \notin AcceptedNames /\ \A d \in Conns \ {c} : Writing(d) => sess[d].path # n
  BY DEF IInv, FileIsOwn, Writing
<1>2. \A d \in Conns : Writing(d) => sess[d].path \in DOMAIN disk
  BY DEF IInv, FileIsOwn
<1>3. CASE \E f : Write(n, f)
  <2>1. DOMAIN disk' = DOMAIN disk /\ \A m \in DOMAIN disk \ {n} : disk'[m] = disk[m]
    BY <1>3 DEF Write, IInv, TypeOK
  <2> QED
    BY <1>1, <1>2, <2>1 DEF Elsewhere
<1>4. CASE Unlink(n)
  <2>1. DOMAIN disk' = DOMAIN disk \ {n} /\ \A m \in DOMAIN disk \ {n} : disk'[m] = disk[m]
    BY <1>4 DEF Unlink, Restrict
  <2> QED
    BY <1>1, <1>2, <2>1 DEF Elsewhere
<1> QED
  BY <1>3, <1>4

(* A step of one session that answers no message.                           *)
LEMMA FineStep ==
  ASSUME IInv, ContentInv, NEW c \in Conns, NEW s, Become(c, s), Fine(s, disk'[s.path]),
         Elsewhere(c), UNCHANGED <<accepted, lost>>, syncFailed \subseteq syncFailed'
  PROVE  ContentInv'
<1>1. \A d \in Conns : sess'[d] = IF d = c THEN s ELSE sess[d]
  BY Split DEF Become, AllOK
<1>2. ASSUME NEW d \in Conns
      PROVE  Fine(sess'[d], disk'[sess'[d].path])
  <2>1. CASE d = c
    BY <1>1, <2>1
  <2>2. CASE d # c
    <3>1. sess'[d] = sess[d] /\ (Open(sess[d]) => disk'[sess[d].path] = disk[sess[d].path])
      BY <1>1, <2>2 DEF Elsewhere, Writing
    <3> QED
      BY <3>1 DEF ContentInv, Fine, Writing
  <2> QED
    BY <2>1, <2>2
<1>3. AcceptedIsWhole'
  <2>1. \A m \in accepted : m.name \in AcceptedNames
    BY DEF AcceptedNames
  <2> QED
    BY <2>1 DEF ContentInv, AcceptedIsWhole, Elsewhere
<1> QED
  BY <1>2, <1>3 DEF ContentInv, Fine, Writing

-----------------------------------------------------------------------------
(* Every action keeps ContentInv.                                           *)

(* What is known of a session at the start of a step.                       *)
LEMMA AtSession ==
  ASSUME IInv, ContentInv, NEW c \in Conns
  PROVE  /\ sess[c] \in SessionType
         /\ WellSuspended(sess[c]) /\ KnownTail(sess[c])
         /\ Fine(sess[c], disk[sess[c].path])
         /\ sess[c].state = "DATA" => Open(sess[c])
         /\ Open(sess[c]) =>
              /\ sess[c].path \in DOMAIN disk
              /\ disk[sess[c].path] \in FileType
<1>1. AllOK /\ FilesTyped /\ Own
  BY Split
<1>2. Fine(sess[c], disk[sess[c].path])
  BY DEF ContentInv, Fine, Writing
<1> QED
  BY <1>1, <1>2, OwnFile DEF AllOK, SessionOK, Sound, Open

(* A session that is between commands after the step.                       *)
LEMMA ClosingStep ==
  ASSUME IInv, ContentInv, NEW c \in Conns, NEW s, Become(c, s), Closed(s, <<>>),
         Elsewhere(c), UNCHANGED <<accepted, lost>>, syncFailed \subseteq syncFailed'
  PROVE  ContentInv'
BY ClosedIsFine, FineStep

(* The accept loop, a lost connection, the commands, DATA out of sequence.  *)
LEMMA QuietContent ==
  ASSUME IInv, ContentInv, NEW c \in Conns,
         Connect(c) \/ Disconnect(c) \/ Command(c) \/ DataOutOfSequence(c)
  PROVE  ContentInv'
<1>1. AllOK /\ sess[c] \in SessionType /\ (sess[c].state = "CMD" => sess[c].sent = <<>>)
  BY Split, AtSession DEF Fine
<1>2. Closed(NoSession, <<>>) /\ \A e \in BOOLEAN : Closed(NewSession(e), <<>>)
  BY DEF NoSession, NewSession, Closed
<1>3. CASE Connect(c)
  BY <1>2, <1>3, SameFiles, ClosingStep DEF Connect, OnlySessions
<1>4. CASE Disconnect(c)
  BY <1>2, <1>4, SameFiles, ClosingStep DEF Disconnect
<1>5. CASE Command(c)
  <2>1. AtCommand(c) /\ OnlySessions
    BY <1>5 DEF Command, Helo, Mail, MailBadPath, MailOutOfSequence, MailAccepted,
                RcptTooShort, Rcpt, BareRcpt, Rset, Noop, Quit
  <2>2. sess[c].sent = <<>>
    BY <1>1, <2>1 DEF AtCommand
  <2> QED
    BY <1>1, <1>5, <2>1, <2>2, CommandEffect, SameFiles, ClosingStep DEF OnlySessions
<1>6. CASE DataOutOfSequence(c)
  <2>1. Closed(Answer(sess[c], "refused"), <<>>)
    BY <1>1, <1>6 DEF DataOutOfSequence, AtCommand, Answer, Closed, SessionType
  <2> QED
    BY <1>6, <2>1, SameFiles, ClosingStep DEF DataOutOfSequence, OnlySessions
<1> QED
  BY <1>3, <1>4, <1>5, <1>6

(* DATA: an empty file of a name that was not used.                         *)
LEMMA DataContent ==
  ASSUME IInv, ContentInv, NEW c \in Conns, Data(c)
  PROVE  ContentInv'
<1>1. PICK n : n = UniqueName
  OBVIOUS
<1> DEFINE t == [sess[c] EXCEPT !.path = n]
<1>2. /\ sess[c] \in SessionType /\ sess[c].state = "CMD" /\ sess[c].sent = <<>>
      /\ sess[c].reverseSet /\ UNCHANGED <<accepted, lost, syncFailed>>
  BY AtSession DEF Data, AtCommand, Fine
<1>3. n \notin DOMAIN disk /\ n \notin AcceptedNames
  <2>1. ~Used(n) /\ NamesUsed
    BY <1>1, Split DEF UniqueName, Used, HistoryTyped, Own
  <2> QED
    BY <2>1 DEF NamesUsed
<1>4. CASE Become(c, [t EXCEPT !.pc = "space", !.reply = "none"]) /\ Create(UniqueName)
  <2> DEFINE u == [t EXCEPT !.pc = "space", !.reply = "none"]
  <2>1. u.pc = "space" /\ u.state = "CMD" /\ u.sent = <<>> /\ u.reverseSet /\ u.path = n
    BY <1>2 DEF SessionType
  <2>2. disk'[n] = EmptyFile /\ \A m \in DOMAIN disk : disk'[m] = disk[m]
    BY <1>1, <1>3, <1>4 DEF Create
  <2>3. Elsewhere(c)
    <3>1. DOMAIN disk' = DOMAIN disk \cup {n}
      BY <1>1, <1>4 DEF Create
    <3>2. \A d \in Conns : Writing(d) => sess[d].path \in DOMAIN disk
      BY DEF IInv, FileIsOwn
    <3> QED
      BY <1>3, <2>2, <3>1, <3>2 DEF Elsewhere
  <2> HIDE DEF u
  <2>4. Fine(u, disk'[u.path])
    <3>1. InProgress(u, EmptyFile)
      BY <2>1, PartsInOrder DEF InProgress, EmptyFile, LinesAreSent, EnvelopeIsStored,
                                FinishParts, Syncing
    <3> QED
      BY <2>1, <2>2, <3>1 DEF Fine, Counted
  <2> QED
    BY <1>2, <1>4, <2>3, <2>4, FineStep DEF u
<1>5. CASE Become(c, Answer(t, "local_error")) /\ UNCHANGED disk
  <2>1. Closed(Answer(t, "local_error"), <<>>)
    BY <1>2 DEF Closed, Answer, SessionType
  <2> QED
    BY <1>2, <1>5, <2>1, SameFiles, ClosingStep
<1> QED
  BY <1>1, <1>4, <1>5 DEF Data

(* The header space, the trace header and the start of the text.            *)
LEMMA OpenWriteContent ==
  ASSUME IInv, ContentInv, NEW c \in Conns, OpenWrite(c)
  PROVE  ContentInv'
<1> DEFINE s == sess[c]
           f == [disk[s.path] EXCEPT !.parts = @ \cup {s.pc}]
           t == IF s.pc = "space" THEN [s EXCEPT !.pc = "trace"] ELSE StartData(s)
<1>1. /\ s \in SessionType /\ s.pc \in OpenParts /\ s.state = "CMD" /\ s.sent = <<>> /\ Open(s)
      /\ s.path \in DOMAIN disk /\ disk[s.path] \in FileType /\ InProgress(s, disk[s.path])
      /\ UNCHANGED <<accepted, lost, syncFailed>>
  BY AtSession DEF OpenWrite, WellSuspended, Fine, Open
<1>2. CASE Write(s.path, f) /\ Become(c, t)
  <2>1. f.parts = disk[s.path].parts \cup {s.pc} /\ f.lines = <<>>
    BY <1>1 DEF FileType, InProgress, LinesAreSent
  <2> HIDE DEF f
  <2>2. disk'[s.path] = f /\ Elsewhere(c)
    BY <1>1, <1>2, OwnFileOnly DEF Write
  <2>3. Fine(t, f) /\ t.path = s.path
    <3>1. CASE s.pc = "space"
      <4>1. t.pc = "trace" /\ t.state = "CMD" /\ t.sent = <<>> /\ t.reverseSet /\ t.path = s.path
        BY <1>1, <3>1 DEF SessionType, InProgress
      <4> HIDE DEF t
      <4>2. InProgress(t, f)
        BY <1>1, <2>1, <3>1, <4>1, PartsInOrder
        DEF InProgress, LinesAreSent, EnvelopeIsStored, FinishParts, Syncing
      <4> QED
        BY <4>1, <4>2 DEF Fine, Counted
    <3>2. CASE s.pc = "trace"
      <4>1. /\ t.pc = "recv" /\ t.state = "DATA" /\ t.sent = <<>> /\ t.reverseSet /\ t.path = s.path
            /\ t.dataSize = 0 /\ ~t.dataTooLong /\ ~t.lineTooLong
        BY <1>1, <3>2 DEF SessionType, InProgress, StartData, Answer
      <4> HIDE DEF t
      <4>2. InProgress(t, f)
        BY <1>1, <2>1, <3>2, <4>1, PartsInOrder
        DEF InProgress, LinesAreSent, EnvelopeIsStored, FinishParts, Syncing, OpenParts
      <4>3. Counted(t)
        BY <4>1, TextSizeEmpty, TooLongEmpty, LimitsAssumption DEF Counted
      <4> QED
        BY <4>1, <4>2, <4>3 DEF Fine
    <3> QED
      BY <1>1, <3>1, <3>2 DEF OpenParts
  <2> HIDE DEF t
  <2> QED
    BY <1>1, <1>2, <2>2, <2>3, FineStep
<1>3. CASE Become(c, Answer(s, "local_error")) /\ UNCHANGED disk
  <2>1. Closed(Answer(s, "local_error"), <<>>)
    BY <1>1 DEF Closed, Answer, SessionType
  <2> QED
    BY <1>1, <1>3, <2>1, SameFiles, ClosingStep
<1> QED
  BY <1>2, <1>3 DEF OpenWrite

(* A line of text: dropped, only counted, or about to be written.           *)
LEMMA ReceiveLineContent ==
  ASSUME IInv, ContentInv, NEW c \in Conns, ReceiveLine(c)
  PROVE  ContentInv'
<1> DEFINE s == sess[c]
           f == disk[s.path]
<1>1. /\ s \in SessionType /\ s.pc = "recv" /\ s.state = "DATA" /\ Open(s)
      /\ f \in FileType /\ InProgress(s, f) /\ Counted(s)
      /\ UNCHANGED <<disk, accepted, lost, syncFailed>>
  BY AtSession DEF ReceiveLine, Fine, OnlySessions
<1> DEFINE t(text) == [s EXCEPT !.sent = Append(@, text)]
           m(text) == Measure(t(text), Unstuff(Stuff(text)))
<1>2. PICK text \in Lines :
        \/ /\ Size(Stuff(text)) > LineCap
           /\ Become(c, [t(text) EXCEPT !.lineTooLong = TRUE])
        \/ /\ ~Keeps(m(text))
           /\ Become(c, m(text))
        \/ /\ Keeps(m(text))
           /\ Become(c, [m(text) EXCEPT !.line = Unstuff(Stuff(text)), !.pc = "write"])
  BY DEF ReceiveLine
<1>3. /\ text \in LineType /\ Unstuff(Stuff(text)) = text
      /\ Size(text) \in Nat /\ Size(Stuff(text)) \in Nat /\ Size(Stuff(text)) <= Size(text) + 1
  <2>1. text \in LineType
    BY InputsAssumption
  <2>2. text = [dots |-> text.dots, len |-> text.len] /\ text.dots \in Nat /\ text.len \in Nat
    BY <2>1 DEF LineType
  <2>3. CASE text.dots > 0
    <3>1. Stuff(text) = [dots |-> text.dots + 1, len |-> text.len]
      BY <2>2, <2>3 DEF Stuff
    <3>2. Unstuff(Stuff(text)) = [dots |-> text.dots, len |-> text.len]
      BY <2>2, <2>3, <3>1 DEF Unstuff
    <3> QED
      BY <2>1, <2>2, <3>1, <3>2 DEF Size
  <2>4. CASE ~(text.dots > 0)
    BY <2>1, <2>2, <2>4 DEF Stuff, Unstuff, Size
  <2> QED
    BY <2>3, <2>4
<1> DEFINE sent == Append(s.sent, text)
           size == s.dataSize + Size(text) + 2
<1>4. /\ s.sent \in Seq(LineType) /\ sent \in Seq(LineType) /\ s.dataSize \in Nat /\ size \in Nat
      /\ TextSize(s.sent) \in Nat /\ TextSize(sent) = TextSize(s.sent) + Size(text) + 2
      /\ TooLong(sent) <=> TooLong(s.sent) \/ Size(text) > MaxLine
  <2>1. s.sent \in Seq(LineType) /\ s.dataSize \in Nat
    BY <1>1 DEF SessionType
  <2> HIDE DEF s
  <2> QED
    BY <1>3, <2>1, TextSizeAppend, TooLongAppend
<1> DEFINE Same(u) == /\ u.pc \in {"recv", "write"} /\ u.state = "DATA" /\ u.path = s.path
                      /\ u.reverseSet /\ u.sent = sent
<1>5. CASE Become(c, [t(text) EXCEPT !.lineTooLong = TRUE]) /\ Size(Stuff(text)) > LineCap
  <2> DEFINE u == [t(text) EXCEPT !.lineTooLong = TRUE]
  <2>1. /\ Same(u) /\ u.pc = "recv" /\ u.lineTooLong /\ u.dataSize = s.dataSize
        /\ u.dataTooLong = s.dataTooLong
    BY <1>1 DEF SessionType, InProgress
  <2> HIDE DEF u, s, sent
  <2>2. InProgress(u, f)
    BY <1>1, <2>1, PartsInOrder
    DEF InProgress, LinesAreSent, EnvelopeIsStored, FinishParts, Syncing, OpenParts, Keeps
  <2>3. TooLong(sent)
    BY <1>3, <1>4, <1>5, LimitsAssumption
  <2>4. Counted(u)
    BY <1>1, <1>3, <1>4, <2>1, <2>3, LimitsAssumption DEF Counted
  <2>5. Fine(u, disk'[u.path]) /\ Elsewhere(c)
    BY <1>1, <2>1, <2>2, <2>4, SameFiles DEF Fine
  <2> QED
    BY <1>1, <1>5, <2>5, FineStep DEF u, s
<1> DEFINE b == m(text)
<1>6. /\ Same(b) /\ b.pc = "recv" /\ b.dataSize = size /\ b.dataError = s.dataError
      /\ b.lineTooLong = (s.lineTooLong \/ Size(text) > MaxLine)
      /\ b.dataTooLong = (s.dataTooLong \/ size > MaxSize)
      /\ b \in SessionType
  <2> DEFINE a == t(text)
             line == a.lineTooLong \/ Size(text) > MaxLine
             data == a.dataTooLong \/ size > MaxSize
             n == [a EXCEPT !.dataSize = size, !.lineTooLong = line, !.dataTooLong = data]
  <2>1. /\ a \in SessionType /\ Same(a) /\ a.pc = "recv"
        /\ a.dataSize = s.dataSize /\ a.dataError = s.dataError
        /\ a.lineTooLong = s.lineTooLong /\ a.dataTooLong = s.dataTooLong
    BY <1>1, <1>4 DEF SessionType, InProgress
  <2>2. b = Measure(a, text)
    BY <1>3
  <2>3. b = n
    <3> HIDE DEF a
    <3> QED
      BY <2>1, <2>2 DEF Measure
  <2>4. line \in BOOLEAN /\ data \in BOOLEAN /\ size \in Nat
    BY <1>4
  <2> HIDE DEF a, b, line, data, size, sent, s
  <2>5. /\ n \in SessionType /\ Same(n) /\ n.pc = "recv" /\ n.dataSize = size
        /\ n.dataError = a.dataError /\ n.lineTooLong = line /\ n.dataTooLong = data
    BY <2>1, <2>4 DEF SessionType
  <2> QED
    BY <2>1, <2>3, <2>5 DEF line, data
<1> HIDE DEF b
<1>7. Counted(b)
  <2> HIDE DEF s, sent
  <2>1. b.sent = sent /\ b.dataSize <= TextSize(sent)
    BY <1>1, <1>3, <1>4, <1>6 DEF Counted
  <2>2. ~b.lineTooLong => b.dataSize = TextSize(sent)
    BY <1>1, <1>3, <1>4, <1>6 DEF Counted
  <2>3. b.lineTooLong <=> TooLong(sent)
    BY <1>1, <1>4, <1>6 DEF Counted
  <2>4. b.dataTooLong <=> b.dataSize > MaxSize
    <3>1. s.dataTooLong <=> s.dataSize > MaxSize
      BY <1>1 DEF Counted
    <3>2. s.dataSize > MaxSize => size > MaxSize
      BY <1>3, <1>4, LimitsAssumption
    <3> HIDE DEF size
    <3> QED
      BY <1>6, <3>1, <3>2
  <2> QED
    BY <2>1, <2>2, <2>3, <2>4 DEF Counted
<1>8. CASE Become(c, b) /\ ~Keeps(b)
  <2> HIDE DEF s, sent
  <2>1. InProgress(b, f)
    BY <1>1, <1>6, <1>8, PartsInOrder
    DEF InProgress, LinesAreSent, EnvelopeIsStored, FinishParts, Syncing, OpenParts
  <2>2. Fine(b, disk'[b.path]) /\ Elsewhere(c)
    BY <1>1, <1>6, <1>7, <2>1, SameFiles DEF Fine
  <2> QED
    BY <1>1, <1>8, <2>2, FineStep DEF s
<1>9. CASE Become(c, [b EXCEPT !.line = text, !.pc = "write"]) /\ Keeps(b)
  <2> DEFINE u == [b EXCEPT !.line = text, !.pc = "write"]
  <2>1. /\ Same(u) /\ u.pc = "write" /\ u.line = text /\ u.dataSize = b.dataSize
        /\ u.lineTooLong = b.lineTooLong /\ u.dataTooLong = b.dataTooLong
        /\ u.dataError = b.dataError
    BY <1>6 DEF SessionType
  <2> HIDE DEF u, s, sent
  <2>2. Keeps(u) /\ f.lines = s.sent
    BY <1>1, <1>6, <1>9, <2>1 DEF Keeps, InProgress, LinesAreSent
  <2>3. InProgress(u, f)
    BY <1>1, <1>6, <2>1, <2>2, PartsInOrder
    DEF InProgress, LinesAreSent, EnvelopeIsStored, FinishParts, Syncing, OpenParts, sent
  <2>4. Counted(u)
    BY <1>6, <1>7, <2>1 DEF Counted
  <2>5. Fine(u, disk'[u.path]) /\ Elsewhere(c)
    BY <1>1, <2>1, <2>3, <2>4, SameFiles DEF Fine
  <2> QED
    BY <1>1, <1>9, <2>5, FineStep DEF u, s
<1> QED
  BY <1>2, <1>3, <1>5, <1>8, <1>9 DEF b

(* The write of a line, or its failure, which is remembered.                *)
LEMMA WriteLineContent ==
  ASSUME IInv, ContentInv, NEW c \in Conns, WriteLine(c)
  PROVE  ContentInv'
<1> DEFINE s == sess[c]
           f == disk[s.path]
           g == [f EXCEPT !.lines = Append(@, s.line)]
           t == [s EXCEPT !.pc = "recv", !.line = NoLine]
           u == [Errored(s) EXCEPT !.pc = "recv", !.line = NoLine]
           Same(v) == /\ v.pc = "recv" /\ v.state = "DATA" /\ v.path = s.path /\ v.reverseSet
                      /\ v.sent = s.sent /\ v.dataSize = s.dataSize
                      /\ v.lineTooLong = s.lineTooLong /\ v.dataTooLong = s.dataTooLong
<1>1. /\ s \in SessionType /\ s.pc = "write" /\ s.state = "DATA" /\ Open(s)
      /\ s.path \in DOMAIN disk /\ f \in FileType /\ InProgress(s, f) /\ Counted(s)
      /\ UNCHANGED <<accepted, lost, syncFailed>>
  BY AtSession DEF WriteLine, Fine, WellSuspended, Open
<1>2. Same(t) /\ Same(u) /\ u.dataError
  BY <1>1 DEF SessionType, InProgress, Errored
<1>3. Counted(t) /\ Counted(u)
  <2> HIDE DEF t, u
  <2> QED
    BY <1>1, <1>2 DEF Counted
<1>4. CASE Write(s.path, g) /\ Become(c, t)
  <2>1. g.parts = f.parts /\ g.lines = Append(f.lines, s.line)
    BY <1>1 DEF FileType
  <2> HIDE DEF f, g, t
  <2>2. disk'[s.path] = g /\ Elsewhere(c)
    BY <1>1, <1>4, OwnFileOnly DEF Write
  <2>3. InProgress(t, g)
    BY <1>1, <1>2, <2>1, PartsInOrder
    DEF InProgress, LinesAreSent, EnvelopeIsStored, FinishParts, Syncing, OpenParts
  <2>4. Fine(t, disk'[t.path])
    BY <1>2, <1>3, <2>2, <2>3 DEF Fine
  <2> QED
    BY <1>1, <1>4, <2>2, <2>4, FineStep
<1>5. CASE UNCHANGED disk /\ Become(c, u)
  <2> HIDE DEF u
  <2>1. InProgress(u, f)
    BY <1>1, <1>2, PartsInOrder
    DEF InProgress, LinesAreSent, EnvelopeIsStored, FinishParts, Syncing, OpenParts, Keeps
  <2>2. Fine(u, disk'[u.path]) /\ Elsewhere(c)
    BY <1>2, <1>3, <1>5, <2>1, SameFiles DEF Fine
  <2> QED
    BY <1>1, <1>5, <2>2, FineStep
<1> QED
  BY <1>4, <1>5 DEF WriteLine

(* abort_data lets go of the file and of the text.                          *)
LEMMA AbortContent ==
  ASSUME IInv, ContentInv, NEW c \in Conns, NEW s \in SessionType, s.path = sess[c].path,
         Open(sess[c]), Abort(c, s)
  PROVE  ContentInv'
<1>1. /\ Reset(s) \in SessionType /\ Reset(s).state = "CMD"
  BY ResetSound DEF Sound
<1>2. /\ LetGo(s) \in SessionType /\ LetGo(s).state = "CMD" /\ LetGo(s).sent = <<>>
  BY <1>1, LetGoSound DEF LetGo, SessionType, Sound
<1>3. Closed(Answer(LetGo(s), Verdict(s)), <<>>)
  <2> HIDE DEF LetGo, Verdict
  <2> QED
    BY <1>2 DEF Closed, Answer, SessionType
<1>4. Elsewhere(c)
  BY OwnFileOnly DEF Abort
<1> QED
  BY <1>3, <1>4, ClosingStep DEF Abort

(* t is the session s, at another await.                                    *)
Moved(s, t) ==
  /\ t.state = s.state /\ t.path = s.path /\ t.reverseSet = s.reverseSet
  /\ t.reverse = s.reverse /\ t.forward = s.forward
  /\ t.sent = s.sent /\ t.dataSize = s.dataSize /\ t.lineTooLong = s.lineTooLong
  /\ t.dataTooLong = s.dataTooLong /\ t.dataError = s.dataError

(* A step of a session whose text is complete to the next write or await,   *)
(* with what it makes of the file.                                          *)
LEMMA OnwardContent ==
  ASSUME IInv, ContentInv, NEW c \in Conns, Elsewhere(c),
         UNCHANGED <<accepted, lost>>, syncFailed \subseteq syncFailed',
         sess[c].state = "DATA", Keeps(sess[c]),
         NEW t, Become(c, t), Moved(sess[c], t), t.pc \in FinishParts \cup Syncing,
         NEW f, disk'[sess[c].path] = f,
         f.parts = PartsBefore(t.pc), f.lines = sess[c].sent,
         t.pc \in {"metaheader", "metapad"} \cup Syncing =>
           f.reverse = sess[c].reverse /\ f.forward = sess[c].forward
  PROVE  ContentInv'
<1> DEFINE s == sess[c]
<1>1. s.reverseSet /\ Counted(s) /\ s.state = "DATA"
  BY AtSession DEF Fine, InProgress
<1> HIDE DEF s
<1>2. Moved(s, t) /\ Keeps(s)
  BY DEF s
<1>3. Counted(t)
  BY <1>1, <1>2 DEF Counted, Moved
<1>4. t.pc \notin OpenParts /\ t.pc # "recv" /\ t.pc # "write" /\ Keeps(t)
  BY <1>2 DEF FinishParts, Syncing, OpenParts, Keeps, Moved
<1>5. LinesAreSent(t, f) /\ EnvelopeIsStored(t, f)
  BY <1>2, <1>4 DEF LinesAreSent, EnvelopeIsStored, Moved, s
<1>6. Fine(t, disk'[t.path])
  BY <1>1, <1>2, <1>3, <1>5 DEF Fine, InProgress, Moved, s
<1> QED
  BY <1>6, FineStep

(* The line with the single dot: abort_data, or on to finish_data.          *)
LEMMA EndOfDataContent ==
  ASSUME IInv, ContentInv, NEW c \in Conns, EndOfData(c)
  PROVE  ContentInv'
<1> DEFINE a == sess[c]
           s == [a EXCEPT !.reply = "none"]
           t == [s EXCEPT !.pc = "header"]
           f == disk[a.path]
<1>1. /\ a \in SessionType /\ a.pc = "recv" /\ a.state = "DATA" /\ Open(a)
      /\ f \in FileType /\ InProgress(a, f)
  BY AtSession DEF EndOfData, Fine
<1>2. s \in SessionType /\ s.path = a.path
  BY <1>1 DEF SessionType, Replies
<1>3. CASE Abort(c, s)
  <2> HIDE DEF s
  <2> QED
    BY <1>1, <1>2, <1>3, AbortContent
<1>4. CASE Keeps(s) /\ Become(c, t) /\ OnlySessions
  <2>1. Moved(a, t) /\ t.pc = "header" /\ Keeps(a)
    BY <1>1, <1>4 DEF SessionType, Moved, Keeps
  <2> HIDE DEF t, s
  <2>2. f.parts = PartsBefore(t.pc) /\ f.lines = a.sent
    BY <1>1, <2>1, PartsInOrder DEF InProgress, LinesAreSent
  <2>3. t.pc \in FinishParts /\ t.pc \notin {"metaheader", "metapad"} \cup Syncing
    BY <2>1 DEF FinishParts, Syncing
  <2>4. UNCHANGED <<disk, accepted, lost, syncFailed>> /\ Elsewhere(c)
    BY <1>4, SameFiles DEF OnlySessions
  <2> HIDE DEF a, f
  <2> QED
    BY <1>1, <1>4, <2>1, <2>2, <2>3, <2>4, OnwardContent DEF a, f
<1> QED
  BY <1>3, <1>4 DEF EndOfData

(* The writes of finish_data.                                               *)
LEMMA FinishWriteContent ==
  ASSUME IInv, ContentInv, NEW c \in Conns, FinishWrite(c)
  PROVE  ContentInv'
<1> DEFINE s == sess[c]
           f == disk[s.path]
           g == Written(f, s)
           p == After[s.pc]
           t == [s EXCEPT !.pc = p]
<1>1. /\ s \in SessionType /\ s.pc \in FinishParts /\ s.state = "DATA" /\ Open(s)
      /\ s.path \in DOMAIN disk /\ f \in FileType /\ InProgress(s, f)
  BY AtSession DEF FinishWrite, Fine, WellSuspended, Open
<1>2. CASE Abort(c, Errored(s))
  BY <1>1, <1>2, ErroredOK, AbortContent
<1>3. CASE Write(s.path, g) /\ Become(c, t) /\ UNCHANGED <<accepted, lost, syncFailed>>
  <2>1. /\ p \in FinishParts \cup Syncing
        /\ p \in {"metaheader", "metapad"} \cup Syncing =>
             s.pc = "meta" \/ s.pc \in {"metaheader", "metapad"}
    BY <1>1 DEF After, FinishParts, Syncing
  <2>2. g.parts = f.parts \cup {s.pc} /\ g.lines = f.lines
    BY <1>1 DEF FileType, Written
  <2>3. s.pc = "meta" => g.reverse = s.reverse /\ g.forward = s.forward
    BY <1>1 DEF FileType, Written
  <2>4. s.pc # "meta" => g.reverse = f.reverse /\ g.forward = f.forward
    BY <1>1 DEF FileType, Written
  <2> HIDE DEF g, p
  <2>5. Moved(s, t) /\ t.pc = p
    BY <1>1 DEF SessionType, Moved
  <2>6. disk'[s.path] = g /\ Elsewhere(c)
    BY <1>1, <1>3, OwnFileOnly DEF Write
  <2> HIDE DEF t
  <2>7. g.parts = PartsBefore(p)
    BY <1>1, <2>2, PartsInOrder DEF InProgress, p
  <2>8. Keeps(s) /\ g.lines = s.sent
    BY <1>1, <2>2 DEF InProgress, LinesAreSent
  <2>9. p \in {"metaheader", "metapad"} \cup Syncing =>
          g.reverse = s.reverse /\ g.forward = s.forward
    BY <1>1, <2>1, <2>3, <2>4 DEF InProgress, EnvelopeIsStored
  <2> HIDE DEF s, f
  <2> QED
    BY <1>1, <1>3, <2>1, <2>5, <2>6, <2>7, <2>8, <2>9, OnwardContent DEF s, f
<1> QED
  BY <1>2, <1>3 DEF FinishWrite

(* The request for the fsync.                                               *)
LEMMA SyncContent ==
  ASSUME IInv, ContentInv, NEW c \in Conns, Sync(c)
  PROVE  ContentInv'
<1> DEFINE s == sess[c]
           f == disk[s.path]
           t == [s EXCEPT !.pc = "syncwait"]
<1>1. /\ s \in SessionType /\ s.pc = "sync" /\ s.state = "DATA" /\ Open(s)
      /\ f \in FileType /\ InProgress(s, f)
  BY AtSession DEF Sync, Fine, WellSuspended, Open
<1>2. CASE Abort(c, Errored(s))
  BY <1>1, <1>2, ErroredOK, AbortContent
<1>3. CASE Become(c, t) /\ OnlySessions
  <2>1. Moved(s, t) /\ t.pc = "syncwait" /\ s.pc \in Syncing /\ t.pc \in Syncing
    BY <1>1 DEF SessionType, Moved, Syncing
  <2> HIDE DEF t
  <2>2. f.parts = PartsBefore(t.pc) /\ f.lines = s.sent /\ Keeps(s)
        /\ f.reverse = s.reverse /\ f.forward = s.forward
    BY <1>1, <2>1, PartsInOrder DEF InProgress, LinesAreSent, EnvelopeIsStored
  <2>3. UNCHANGED <<disk, accepted, lost, syncFailed>> /\ Elsewhere(c)
    BY <1>3, SameFiles DEF OnlySessions
  <2> HIDE DEF s, f
  <2> QED
    BY <1>1, <1>3, <2>1, <2>2, <2>3, OnwardContent DEF s, f
<1> QED
  BY <1>2, <1>3 DEF Sync

(* The completion of the fsync.                                             *)
LEMMA SyncCompletesContent ==
  ASSUME IInv, ContentInv, NEW c \in Conns, SyncCompletes(c)
  PROVE  ContentInv'
<1> DEFINE s == sess[c]
           f == disk[s.path]
           g == [f EXCEPT !.synced = TRUE]
<1>1. /\ s \in SessionType /\ s.pc = "syncwait" /\ s.state = "DATA" /\ Open(s)
      /\ s.path \in DOMAIN disk /\ f \in FileType /\ InProgress(s, f)
      /\ UNCHANGED <<accepted, lost>> /\ syncFailed \subseteq syncFailed'
  BY AtSession DEF SyncCompletes, Fine, WellSuspended, Open
<1>2. PICK t : Become(c, t) /\ Moved(s, t) /\ t.pc \in Syncing
  <2>1. \A p \in {"notify", "hung"} : Moved(s, [s EXCEPT !.pc = p]) /\ [s EXCEPT !.pc = p].pc = p
    BY <1>1 DEF SessionType, Moved
  <2> QED
    BY <2>1 DEF SyncCompletes, Signal, Syncing
<1>3. /\ f.lines = s.sent /\ Keeps(s) /\ f.parts = PartsBefore(t.pc)
      /\ f.reverse = s.reverse /\ f.forward = s.forward
  <2>1. s.pc \in Syncing
    BY <1>1 DEF Syncing
  <2> QED
    BY <1>1, <1>2, <2>1, PartsInOrder DEF InProgress, LinesAreSent, EnvelopeIsStored
<1>4. /\ g.lines = f.lines /\ g.parts = f.parts
      /\ g.reverse = f.reverse /\ g.forward = f.forward
  BY <1>1 DEF FileType
<1>5. \/ disk'[s.path] = g /\ Elsewhere(c)
      \/ disk'[s.path] = f /\ Elsewhere(c)
  <2>1. CASE Write(s.path, g)
    <3> HIDE DEF g
    <3> QED
      BY <1>1, <2>1, OwnFileOnly DEF Write
  <2>2. CASE UNCHANGED disk
    BY <2>2, SameFiles
  <2> QED
    BY <2>1, <2>2 DEF SyncCompletes
<1> HIDE DEF s, f, g
<1> QED
  BY <1>1, <1>2, <1>3, <1>4, <1>5, OnwardContent DEF s, f

(* The 250: the message is what the session and its file hold.              *)
LEMMA AcknowledgeContent ==
  ASSUME IInv, ContentInv, NEW c \in Conns, Acknowledge(c)
  PROVE  ContentInv'
<1> DEFINE s == sess[c]
           f == disk[s.path]
           t == Answer(LetGo(s), "ok")
<1>1. /\ AllOK /\ s \in SessionType /\ s.pc = "notify" /\ s.state = "DATA" /\ Open(s)
      /\ KnownTail(s) /\ InProgress(s, f)
  <2>1. s.pc = "notify"
    BY DEF IInv, SignalNames, Acknowledge
  <2> QED
    BY <2>1, Split, AtSession DEF Fine, WellSuspended, Open
<1>2. /\ f.parts = Parts /\ f.lines = s.sent /\ f.reverse = s.reverse
      /\ Range(f.forward) = s.acked
  <2>1. s.pc \in Syncing
    BY <1>1 DEF Syncing
  <2> QED
    BY <1>1, <2>1, PartsInOrder DEF InProgress, LinesAreSent, EnvelopeIsStored, KnownTail
<1>3. Closed(t, <<>>)
  <2>1. LetGo(s) \in SessionType /\ LetGo(s).state = "CMD" /\ LetGo(s).sent = <<>>
    <3>1. Reset(s) \in SessionType /\ Reset(s).state = "CMD"
      BY <1>1, AtSession, ResetSound DEF Sound
    <3> QED
      BY <3>1, LetGoSound DEF LetGo, SessionType, Sound
  <2> HIDE DEF LetGo
  <2> QED
    BY <2>1 DEF Closed, Answer, SessionType
<1>4. /\ Become(c, t) /\ UNCHANGED <<disk, lost, syncFailed>>
      /\ accepted' = accepted \cup {Message(s)}
  BY DEF Acknowledge
<1>5. Message(s).name = s.path /\ Message(s).lines = s.sent
      /\ Message(s).reverse = s.reverse /\ Message(s).acked = s.acked
  BY DEF Message
<1> HIDE DEF t
<1>6. \A d \in Conns : sess'[d] = IF d = c THEN t ELSE sess[d]
  BY <1>1, <1>4 DEF Become, AllOK
<1>7. AcceptedIsWhole'
  BY <1>2, <1>4, <1>5 DEF ContentInv, AcceptedIsWhole
<1>8. ASSUME NEW d \in Conns
      PROVE  Fine(sess'[d], disk'[sess'[d].path])
  <2>1. CASE d = c
    BY <1>3, <1>6, <2>1, ClosedIsFine
  <2>2. CASE d # c
    BY <1>4, <1>6, <2>2, AtSession
  <2> QED
    BY <2>1, <2>2
<1> QED
  BY <1>7, <1>8 DEF ContentInv, Fine, Writing

(* A death of the process or of the machine leaves no session; the files    *)
(* that it leaves are what they were, but for those whose data were lost,   *)
(* and if one of those was answered 250 its fsync had failed.               *)
LEMMA RestartContent ==
  ASSUME IInv, ContentInv, Crash \/ PowerFailure
  PROVE  ContentInv'
<1>1. UNCHANGED <<accepted, syncFailed>> /\ \A c \in Conns : sess'[c] = NoSession
  BY DEF Crash, PowerFailure, Restart
<1>2. \A n \in AcceptedNames \cap DOMAIN disk' :
        n \notin lost' \cap syncFailed =>
          n \in DOMAIN disk \ (lost \cap syncFailed) /\ disk'[n] = disk[n]
  <2>1. CASE Crash
    BY <2>1 DEF Crash
  <2>2. CASE PowerFailure
    <3>1. PICK gone, bare :
            /\ gone \in SUBSET DOMAIN disk
            /\ bare \in SUBSET {n \in DOMAIN disk \ gone : ~disk[n].synced}
            /\ disk' = [n \in DOMAIN disk \ gone |-> IF n \in bare THEN EmptyFile ELSE disk[n]]
            /\ lost' = lost \cup gone \cup bare
      BY <2>2 DEF PowerFailure
    <3>2. \A n \in AcceptedNames \cap DOMAIN disk : ~disk[n].synced => n \in syncFailed
      BY DEF IInv, AcceptedIsDurable
    <3> QED
      BY <3>1, <3>2
  <2> QED
    BY <2>1, <2>2
<1>3. \A c \in Conns : Fine(sess'[c], disk'[sess'[c].path])
  BY <1>1, ClosedIsFine DEF NoSession, NewSession, Closed
<1>4. AcceptedIsWhole'
  <2>1. \A m \in accepted : m.name \in AcceptedNames
    BY DEF AcceptedNames
  <2> QED
    BY <1>1, <1>2, <2>1 DEF ContentInv, AcceptedIsWhole
<1> QED
  BY <1>3, <1>4 DEF ContentInv, Fine, Writing

(* ContentInv is inductive, on top of IInv.                                 *)
LEMMA NextContent == IInv /\ ContentInv /\ [Next]_vars => ContentInv'
<1> SUFFICES ASSUME IInv, ContentInv, [Next]_vars
             PROVE  ContentInv'
  OBVIOUS
<1>1. ASSUME NEW c \in Conns,
             Connect(c) \/ Disconnect(c) \/ Command(c) \/ DataOutOfSequence(c)
      PROVE  ContentInv'
  BY <1>1, QuietContent
<1>2. ASSUME NEW c \in Conns, Data(c) \/ ReceiveLine(c) \/ EndOfData(c)
      PROVE  ContentInv'
  BY <1>2, DataContent, ReceiveLineContent, EndOfDataContent
<1>3. ASSUME NEW c \in Conns, Progress(c)
      PROVE  ContentInv'
  BY <1>3, OpenWriteContent, WriteLineContent, FinishWriteContent, SyncContent DEF Progress
<1>4. ASSUME NEW c \in Conns, SyncCompletes(c) \/ Acknowledge(c)
      PROVE  ContentInv'
  BY <1>4, SyncCompletesContent, AcknowledgeContent
<1>5. CASE UNCHANGED <<sess, disk, accepted, lost, syncFailed>>
  BY <1>5 DEF ContentInv, AcceptedIsWhole, Writing
<1>6. CASE AcceptFails \/ UNCHANGED vars
  BY <1>5, <1>6 DEF AcceptFails, vars
<1>7. CASE Crash \/ PowerFailure
  BY <1>7, RestartContent
<1> QED
  BY <1>1, <1>2, <1>3, <1>4, <1>6, <1>7 DEF Next

(* It holds of a process that starts: it has no session and no message.     *)
LEMMA InitContent == Init => ContentInv
<1> SUFFICES ASSUME Init
             PROVE  ContentInv
  OBVIOUS
<1>1. \A c \in Conns : sess[c] = NoSession
  BY DEF Init
<1>2. \A c \in Conns : Fine(sess[c], disk[sess[c].path])
  BY <1>1, ClosedIsFine DEF NoSession, NewSession, Closed
<1> QED
  BY <1>2 DEF Init, ContentInv, Fine, Writing, AcceptedIsWhole

-----------------------------------------------------------------------------
(* How a message ends                                                       *)

(* The step of one session is nothing to the others.                        *)
LEMMA OthersStay ==
  ASSUME IInv, NEW c \in Conns, NEW d \in Conns \ {c},
         \/ Connect(d) \/ Disconnect(d)
         \/ Command(d) \/ DataOutOfSequence(d) \/ Data(d)
         \/ ReceiveLine(d) \/ EndOfData(d)
         \/ Progress(d) \/ SyncCompletes(d) \/ Acknowledge(d)
  PROVE  sess'[c] = sess[c]
<1>1. AllOK
  BY Split
<1>2. \E t : Become(d, t)
  <2>1. CASE Connect(d) \/ Disconnect(d) \/ DataOutOfSequence(d)
    BY <2>1 DEF Connect, Disconnect, DataOutOfSequence
  <2>2. CASE Command(d)
    BY <1>1, <2>2, CommandEffect
  <2>3. CASE Data(d)
    BY <2>3 DEF Data
  <2>4. CASE ReceiveLine(d)
    BY <2>4 DEF ReceiveLine
  <2>5. CASE EndOfData(d)
    BY <2>5 DEF EndOfData, Abort
  <2>6. CASE OpenWrite(d) \/ WriteLine(d)
    BY <2>6 DEF OpenWrite, WriteLine
  <2>7. CASE FinishWrite(d) \/ Sync(d)
    BY <2>7 DEF FinishWrite, Sync, Abort
  <2>8. CASE SyncCompletes(d) \/ Acknowledge(d)
    BY <2>8 DEF SyncCompletes, Signal, Acknowledge
  <2> QED
    BY <2>1, <2>2, <2>3, <2>4, <2>5, <2>6, <2>7, <2>8 DEF Progress
<1> QED
  BY <1>1, <1>2 DEF Become, AllOK

(* What a session has answered once it has let go of its message.           *)
Ended(s, t) ==
  \/ t = NoSession
  \/ s.pc = "recv" /\ t.reply = Verdict(s)
  \/ s.pc \in FinishParts \cup {"sync"} /\ t.reply = Verdict(Errored(s))
  \/ s.pc = "notify" /\ t.reply = "ok"

(* What abort_data answers is its verdict.                                  *)
LEMMA AbortAnswers ==
  ASSUME IInv, NEW c \in Conns, NEW s \in SessionType, Abort(c, s)
  PROVE  sess'[c].reply = Verdict(s)
<1>1. sess'[c] = Answer(LetGo(s), Verdict(s))
  BY Split DEF Abort, Become, AllOK
<1>2. LetGo(s) \in SessionType
  <2>1. Reset(s) \in SessionType
    BY ResetSound DEF Sound
  <2> QED
    BY <2>1, LetGoSound DEF Sound
<1> HIDE DEF LetGo, Verdict
<1> QED
  BY <1>1, <1>2 DEF Answer, SessionType

(* A message ends at its last line, at a write or an fsync that fails, with *)
(* its 250, or with its session.                                            *)
LEMMA HowDataEnds ==
  ASSUME IInv, Next, NEW c \in Conns, sess[c].state = "DATA", sess'[c].state = "CMD"
  PROVE  Ended(sess[c], sess'[c])
<1> DEFINE s == sess[c]
           t == sess'[c]
<1>1. s \in SessionType /\ WellSuspended(s) /\ \A u : Become(c, u) => t = u
  BY Split DEF AllOK, SessionOK, Sound, Become
<1>2. s.pc \notin OpenParts \cup {"down"} /\ s.state = "DATA" /\ t.state = "CMD" /\ s # t
  BY <1>1 DEF WellSuspended
<1>3. ASSUME Connect(c) \/ Command(c) \/ DataOutOfSequence(c) \/ Data(c) \/ OpenWrite(c)
      PROVE  FALSE
  <2>1. ~AtCommand(c)
    BY <1>2 DEF AtCommand
  <2>2. CASE Command(c)
    BY <2>1, <2>2 DEF Command, Helo, Mail, MailBadPath, MailOutOfSequence, MailAccepted,
                      RcptTooShort, Rcpt, BareRcpt, Rset, Noop, Quit
  <2> QED
    BY <1>2, <1>3, <2>1, <2>2 DEF Connect, DataOutOfSequence, Data, OpenWrite
<1>4. ASSUME ReceiveLine(c) \/ WriteLine(c) \/ SyncCompletes(c)
      PROVE  FALSE
  <2>1. CASE ReceiveLine(c)
    <3>1. PICK text : \/ Become(c, [[s EXCEPT !.sent = Append(@, text)] EXCEPT !.lineTooLong = TRUE])
                      \/ Become(c, Measure([s EXCEPT !.sent = Append(@, text)],
                                           Unstuff(Stuff(text))))
                      \/ Become(c, [Measure([s EXCEPT !.sent = Append(@, text)],
                                            Unstuff(Stuff(text)))
                                      EXCEPT !.line = Unstuff(Stuff(text)), !.pc = "write"])
      BY <2>1 DEF ReceiveLine
    <3> DEFINE a == [s EXCEPT !.sent = Append(@, text)]
    <3>2. a.state = "DATA" /\ DOMAIN a = DOMAIN s /\ "state" \in DOMAIN s
      BY <1>1, <1>2 DEF SessionType
    <3>3. \A l : Measure(a, l).state = "DATA" /\ DOMAIN Measure(a, l) = DOMAIN s
      <4> HIDE DEF a
      <4> QED
        BY <3>2 DEF Measure
    <3> HIDE DEF a
    <3>4. t.state = "DATA"
      <4>1. CASE Become(c, [a EXCEPT !.lineTooLong = TRUE])
        BY <1>1, <3>2, <4>1
      <4>2. CASE Become(c, Measure(a, Unstuff(Stuff(text))))
        BY <1>1, <3>3, <4>2
      <4> DEFINE m == Measure(a, Unstuff(Stuff(text)))
                 l == Unstuff(Stuff(text))
      <4>3. m.state = "DATA" /\ "state" \in DOMAIN m
        BY <3>2, <3>3
      <4>4. CASE Become(c, [m EXCEPT !.line = l, !.pc = "write"])
        <5> HIDE DEF m, l
        <5> QED
          BY <1>1, <4>3, <4>4
      <4> QED
        BY <3>1, <4>1, <4>2, <4>4 DEF a
    <3> QED
      BY <1>2, <3>4
  <2>2. CASE WriteLine(c)
    BY <1>1, <1>2, <2>2 DEF WriteLine, Errored, SessionType
  <2>3. CASE SyncCompletes(c)
    BY <1>1, <1>2, <2>3 DEF SyncCompletes, Signal, SessionType
  <2> QED
    BY <1>4, <2>1, <2>2, <2>3
<1>5. ASSUME Disconnect(c) \/ Crash \/ PowerFailure
      PROVE  t = NoSession
  BY <1>1, <1>5 DEF Disconnect, Crash, PowerFailure, Restart
<1>6. ASSUME EndOfData(c)
      PROVE  Ended(s, t)
  <2> DEFINE u == [s EXCEPT !.reply = "none"]
  <2>1. u \in SessionType /\ Verdict(u) = Verdict(s) /\ s.pc = "recv"
    BY <1>1, <1>6 DEF SessionType, Replies, Verdict, EndOfData
  <2>2. CASE Abort(c, u)
    <3> HIDE DEF u
    <3> QED
      BY <2>1, <2>2, AbortAnswers DEF Ended
  <2>3. CASE Become(c, [u EXCEPT !.pc = "header"])
    BY <1>1, <1>2, <2>3 DEF SessionType
  <2> QED
    BY <1>6, <2>2, <2>3 DEF EndOfData
<1>7. ASSUME FinishWrite(c) \/ Sync(c)
      PROVE  Ended(s, t)
  <2>1. Errored(s) \in SessionType /\ s.pc \in FinishParts \cup {"sync"}
    BY <1>1, <1>7, ErroredOK DEF FinishWrite, Sync
  <2>2. CASE Abort(c, Errored(s))
    BY <2>1, <2>2, AbortAnswers DEF Ended
  <2>3. ASSUME NEW p, Become(c, [s EXCEPT !.pc = p])
        PROVE  FALSE
    BY <1>1, <1>2, <2>3 DEF SessionType
  <2> QED
    BY <1>7, <2>2, <2>3 DEF FinishWrite, Sync
<1>8. ASSUME Acknowledge(c)
      PROVE  Ended(s, t)
  <2>1. s.pc = "notify"
    BY <1>8 DEF IInv, SignalNames, Acknowledge
  <2>2. LetGo(s) \in SessionType
    <3>1. Reset(s) \in SessionType
      BY <1>1, ResetSound DEF Sound
    <3> QED
      BY <1>1, <3>1, LetGoSound DEF Sound
  <2>3. t = Answer(LetGo(s), "ok")
    BY <1>1, <1>8 DEF Acknowledge
  <2> HIDE DEF LetGo
  <2> QED
    BY <2>1, <2>2, <2>3 DEF Ended, Answer, SessionType
<1>9. ~AcceptFails
  BY <1>2 DEF AcceptFails
<1>10. \A d \in Conns \ {c} :
         ~(\/ Connect(d) \/ Disconnect(d)
           \/ Command(d) \/ DataOutOfSequence(d) \/ Data(d)
           \/ ReceiveLine(d) \/ EndOfData(d)
           \/ Progress(d) \/ SyncCompletes(d) \/ Acknowledge(d))
  BY <1>2, OthersStay
<1> HIDE DEF s, t
<1> QED
  BY <1>3, <1>4, <1>5, <1>6, <1>7, <1>8, <1>9, <1>10 DEF Next, Progress, Ended, s, t

(* The flags that decide the verdict are those of the text.                 *)
LEMMA FlagsAreTrue ==
  ASSUME IInv, ContentInv, NEW c \in Conns, sess[c].state = "DATA"
  PROVE  /\ sess[c].dataTooLong => TextSize(sess[c].sent) > MaxSize
         /\ sess[c].lineTooLong <=> TooLong(sess[c].sent)
         /\ Keeps(sess[c]) => TextSize(sess[c].sent) <= MaxSize /\ ~TooLong(sess[c].sent)
         /\ sess[c].pc \in FinishParts \cup Syncing => Keeps(sess[c])
<1> DEFINE s == sess[c]
<1>1. s \in SessionType /\ Counted(s) /\ s.state = "DATA"
      /\ (s.pc \in FinishParts \cup Syncing => Keeps(s))
  BY AtSession DEF Fine, InProgress, LinesAreSent
<1>2. s.dataSize \in Nat /\ s.sent \in Seq(LineType)
  BY <1>1 DEF SessionType
<1> HIDE DEF s
<1>3. TextSize(s.sent) \in Nat
  BY <1>2, TextSizeIs
<1>4. /\ s.dataTooLong => TextSize(s.sent) > MaxSize
      /\ s.lineTooLong <=> TooLong(s.sent)
      /\ Keeps(s) => TextSize(s.sent) <= MaxSize /\ ~TooLong(s.sent)
  BY <1>1, <1>2, <1>3, LimitsAssumption DEF Counted, Keeps
<1> QED
  BY <1>1, <1>4 DEF s

(* What the verdict says of the flags.                                      *)
LEMMA VerdictOf ==
  ASSUME NEW s \in SessionType
  PROVE  /\ Verdict(s) = "exceeded_storage" => s.dataTooLong
         /\ Verdict(s) = "exceeded_line" => s.lineTooLong
         /\ Verdict(s) = "none" => Keeps(s)
         /\ Verdict(s) # "ok"
         /\ Keeps(s) => Verdict(Errored(s)) = "local_error"
BY DEF Verdict, Keeps, Errored, SessionType

-----------------------------------------------------------------------------
(* The theorems                                                             *)

(* What the sessions and their files hold at each await: the inductive      *)
(* invariant of this module, on top of IInv.                                *)
THEOREM Contents == Spec => []ContentInv
<1>1. Init => ContentInv
  BY InitContent
<1>2. IInv /\ ContentInv /\ [Next]_vars => ContentInv'
  BY NextContent
<1> QED
  BY <1>1, <1>2, Invariant, PTL DEF Spec

(* The file of a message answered 250 has every part, every line the client *)
(* sent, and the reverse path and the recipients that were answered 250, for *)
(* as long as it is there: a power failure takes it whole, or empties it    *)
(* if its fsync had failed.                                                 *)
THEOREM Wholeness == Spec => []AcceptedIsWhole
<1>1. ContentInv => AcceptedIsWhole
  BY DEF ContentInv
<1> QED
  BY <1>1, Contents, PTL

(* 552 is for a text longer than the limit, 500 for one with a line too     *)
(* long, and 250 for neither: abort_data and finish_data, whatever the last *)
(* text was.                                                                *)
THEOREM TrueVerdict == Spec => VerdictIsTrue
<1> DEFINE A ==
      \A c \in Conns :
        sess[c].state = "DATA" /\ sess[c].pc # "down" /\ sess'[c].state = "CMD" =>
          /\ sess'[c].reply = "exceeded_storage" => TextSize(sess[c].sent) > MaxSize
          /\ sess'[c].reply = "exceeded_line" => TooLong(sess[c].sent)
          /\ sess'[c].reply = "ok" => TextSize(sess[c].sent) <= MaxSize /\ ~TooLong(sess[c].sent)
<1>1. IInv /\ ContentInv /\ [Next]_vars => [A]_vars
  <2> SUFFICES ASSUME IInv, ContentInv, Next, NEW c \in Conns,
                      sess[c].state = "DATA", sess'[c].state = "CMD"
               PROVE  /\ sess'[c].reply = "exceeded_storage" => TextSize(sess[c].sent) > MaxSize
                      /\ sess'[c].reply = "exceeded_line" => TooLong(sess[c].sent)
                      /\ sess'[c].reply = "ok" =>
                           TextSize(sess[c].sent) <= MaxSize /\ ~TooLong(sess[c].sent)
    OBVIOUS
  <2>1. Ended(sess[c], sess'[c]) /\ sess[c] \in SessionType
    BY HowDataEnds, AtSession
  <2>2. /\ sess[c].dataTooLong => TextSize(sess[c].sent) > MaxSize
        /\ sess[c].lineTooLong <=> TooLong(sess[c].sent)
        /\ Keeps(sess[c]) => TextSize(sess[c].sent) <= MaxSize /\ ~TooLong(sess[c].sent)
        /\ sess[c].pc \in FinishParts \cup Syncing => Keeps(sess[c])
    BY FlagsAreTrue
  <2>3. CASE sess'[c] = NoSession
    BY <2>3 DEF NoSession, NewSession
  <2>4. CASE sess'[c].reply = Verdict(sess[c])
    BY <2>1, <2>2, <2>4, VerdictOf
  <2>5. CASE /\ sess[c].pc \in FinishParts \cup {"sync"}
             /\ sess'[c].reply = Verdict(Errored(sess[c]))
    BY <2>1, <2>2, <2>5, VerdictOf DEF Syncing
  <2>6. CASE sess[c].pc = "notify" /\ sess'[c].reply = "ok"
    BY <2>2, <2>6 DEF Syncing
  <2> QED
    BY <2>1, <2>3, <2>4, <2>5, <2>6 DEF Ended
<1> QED
  BY <1>1, Invariant, Contents, PTL DEF Spec, VerdictIsTrue

(* Only the line that ends the data can go unanswered, with no flag set: a  *)
(* failure of finish_data's writes or of its aio_fsync is answered.         *)
THEOREM Silence == Spec => OnlyTellIsSilent
<1> DEFINE A ==
      \A c \in Conns :
        sess[c].state = "DATA" /\ sess'[c].state = "CMD" /\ sess'[c].pc = "recv"
          /\ sess'[c].reply = "none"
        => sess[c].pc = "recv" /\ Keeps(sess[c])
<1>1. IInv /\ ContentInv /\ [Next]_vars => [A]_vars
  <2> SUFFICES ASSUME IInv, ContentInv, Next, NEW c \in Conns,
                      sess[c].state = "DATA", sess'[c].state = "CMD", sess'[c].pc = "recv",
                      sess'[c].reply = "none"
               PROVE  sess[c].pc = "recv" /\ Keeps(sess[c])
    OBVIOUS
  <2>1. Ended(sess[c], sess'[c]) /\ sess[c] \in SessionType
    BY HowDataEnds, AtSession
  <2>2. sess[c].pc \in FinishParts \cup Syncing => Keeps(sess[c])
    BY FlagsAreTrue
  <2>3. sess'[c] # NoSession
    BY DEF NoSession, NewSession
  <2> QED
    BY <2>1, <2>2, <2>3, VerdictOf DEF Ended, Syncing
<1> QED
  BY <1>1, Invariant, Contents, PTL DEF Spec, OnlyTellIsSilent

-----------------------------------------------------------------------------
(* The refinement of Delivery                                               *)

(* What is in safe storage stays as it is, and nothing comes to it.         *)
Settled ==
  \A n : (n \in DOMAIN disk /\ disk[n].synced) \/ (n \in DOMAIN disk' /\ disk'[n].synced) =>
         n \in DOMAIN disk /\ n \in DOMAIN disk' /\ disk'[n] = disk[n]

(* Then the same messages are stored.                                       *)
LEMMA SettledIsStored ==
  ASSUME Settled
  PROVE  Stored' = Stored
<1>1. {n \in DOMAIN disk' : disk'[n].synced} = {n \in DOMAIN disk : disk[n].synced}
  BY DEF Settled
<1>2. \A n \in DOMAIN disk : disk[n].synced => disk'[n] = disk[n]
  BY DEF Settled
<1> QED
  BY <1>1, <1>2 DEF Stored

(* A session works on a file that is not synced.                            *)
LEMMA OwnFileIsSettled ==
  ASSUME IInv, NEW c \in Conns, Open(sess[c]), sess[c].pc \notin {"notify", "hung"},
         \/ \E f : Write(sess[c].path, f) /\ ~f.synced
         \/ Unlink(sess[c].path)
  PROVE  Settled
<1> DEFINE n == sess[c].path
<1>1. n \in DOMAIN disk /\ ~disk[n].synced
  BY DEF IInv, FileIsOwn, SyncKnown, Writing
<1>2. CASE \E f : Write(n, f) /\ ~f.synced
  <2>1. /\ DOMAIN disk' = DOMAIN disk /\ ~disk'[n].synced
        /\ \A m \in DOMAIN disk \ {n} : disk'[m] = disk[m]
    BY <1>1, <1>2 DEF Write, IInv, TypeOK
  <2> QED
    BY <1>1, <2>1 DEF Settled
<1>3. CASE Unlink(n)
  <2>1. DOMAIN disk' = DOMAIN disk \ {n} /\ \A m \in DOMAIN disk \ {n} : disk'[m] = disk[m]
    BY <1>3 DEF Unlink, Restrict
  <2> QED
    BY <1>1, <2>1 DEF Settled
<1> QED
  BY <1>2, <1>3

(* And so is every file if none changes.                                    *)
LEMMA SameDiskIsSettled ==
  ASSUME UNCHANGED disk
  PROVE  Settled
BY DEF Settled

(* All that a step does to Delivery, but for an fsync and a 250: nothing.   *)
StaysPromised == Settled /\ UNCHANGED <<accepted, syncFailed, lost>>

(* The commands, DATA and the lines of text: DATA creates a file, which is  *)
(* not synced.                                                              *)
LEMMA QuietDelivery ==
  ASSUME IInv, NEW c \in Conns,
         \/ Connect(c) \/ Disconnect(c) \/ Command(c) \/ DataOutOfSequence(c) \/ Data(c)
         \/ ReceiveLine(c)
  PROVE  StaysPromised
<1>1. CASE Connect(c) \/ Disconnect(c) \/ DataOutOfSequence(c) \/ ReceiveLine(c)
  BY <1>1, SameDiskIsSettled
  DEF Connect, Disconnect, DataOutOfSequence, ReceiveLine, OnlySessions, StaysPromised
<1>2. CASE Command(c)
  BY <1>2, SameDiskIsSettled
  DEF Command, Helo, Mail, MailBadPath, MailOutOfSequence, MailAccepted, RcptTooShort, Rcpt,
      BareRcpt, Rset, Noop, Quit, OnlySessions, StaysPromised
<1>3. CASE Data(c)
  <2>1. UNCHANGED <<accepted, syncFailed, lost>> /\ (UNCHANGED disk \/ Create(UniqueName))
    BY <1>3 DEF Data
  <2>2. CASE Create(UniqueName)
    <3>1. PICK n : n = UniqueName
      OBVIOUS
    <3>2. n \notin DOMAIN disk
      <4>1. ~Used(n) /\ NamesUsed
        BY <3>1, Split DEF UniqueName, Used, HistoryTyped, Own
      <4> QED
        BY <4>1 DEF NamesUsed
    <3>3. /\ DOMAIN disk' = DOMAIN disk \cup {n} /\ ~disk'[n].synced
          /\ \A m \in DOMAIN disk : disk'[m] = disk[m]
      BY <2>2, <3>1, <3>2 DEF Create, EmptyFile
    <3> QED
      BY <2>1, <3>2, <3>3 DEF Settled, StaysPromised
  <2> QED
    BY <2>1, <2>2, SameDiskIsSettled DEF StaysPromised
<1> QED
  BY <1>1, <1>2, <1>3

(* The writes, and the aborts.                                              *)
LEMMA FileDelivery ==
  ASSUME IInv, ContentInv, NEW c \in Conns, EndOfData(c) \/ Progress(c)
  PROVE  StaysPromised
<1> DEFINE s == sess[c]
           f == disk[s.path]
<1>1. /\ s \in SessionType /\ WellSuspended(s) /\ (s.state = "DATA" => Open(s))
      /\ (Open(s) => f \in FileType)
  BY AtSession
<1>2. Open(s) /\ s.pc \notin {"notify", "hung"}
  BY <1>1 DEF EndOfData, Progress, OpenWrite, WriteLine, FinishWrite, Sync, WellSuspended,
              Open, OpenParts, FinishParts
<1>3. f \in FileType /\ ~f.synced
  BY <1>1, <1>2 DEF IInv, SyncKnown, Writing
<1>4. ASSUME NEW u, u.path = s.path, Abort(c, u)
      PROVE  StaysPromised
  BY <1>2, <1>4, OwnFileIsSettled DEF Abort, StaysPromised
<1>5. ASSUME NEW g, ~g.synced, Write(s.path, g), UNCHANGED <<accepted, syncFailed, lost>>
      PROVE  StaysPromised
  BY <1>2, <1>5, OwnFileIsSettled DEF StaysPromised
<1>6. ASSUME UNCHANGED <<disk, accepted, syncFailed, lost>>
      PROVE  StaysPromised
  BY <1>6, SameDiskIsSettled DEF StaysPromised
<1>7. CASE EndOfData(c)
  <2>1. [s EXCEPT !.reply = "none"].path = s.path
    BY <1>1 DEF SessionType
  <2> QED
    BY <1>4, <1>6, <1>7, <2>1 DEF EndOfData, OnlySessions
<1>8. CASE OpenWrite(c)
  <2>1. ~[f EXCEPT !.parts = @ \cup {s.pc}].synced
    BY <1>3 DEF FileType
  <2> QED
    BY <1>5, <1>6, <1>8, <2>1 DEF OpenWrite
<1>9. CASE WriteLine(c)
  <2>1. ~[f EXCEPT !.lines = Append(@, s.line)].synced
    BY <1>3 DEF FileType
  <2> QED
    BY <1>5, <1>6, <1>9, <2>1 DEF WriteLine
<1>10. CASE FinishWrite(c)
  <2>1. ~Written(f, s).synced /\ Errored(s).path = s.path
    BY <1>1, <1>3, ErroredOK DEF FileType, Written
  <2> QED
    BY <1>4, <1>5, <1>10, <2>1 DEF FinishWrite
<1>11. CASE Sync(c)
  <2>1. Errored(s).path = s.path
    BY <1>1, ErroredOK
  <2> QED
    BY <1>4, <1>6, <1>11, <2>1 DEF Sync, OnlySessions
<1> QED
  BY <1>7, <1>8, <1>9, <1>10, <1>11 DEF Progress

(* When the process dies, what is stored stays.                             *)
LEMMA CrashDelivery ==
  ASSUME Crash
  PROVE  StaysPromised
BY SameDiskIsSettled DEF Crash, Restart, StaysPromised

(* When the machine dies, what is stored and not lost stays as it was.      *)
LEMMA PowerFailureDelivery ==
  ASSUME IInv, PowerFailure
  PROVE  D!PowerFailure \/ UNCHANGED <<Stored, Promised, syncFailed, lost>>
<1>1. PICK gone, bare :
        /\ gone \in SUBSET DOMAIN disk
        /\ bare \in SUBSET {n \in DOMAIN disk \ gone : ~disk[n].synced}
        /\ disk' = [n \in DOMAIN disk \ gone |-> IF n \in bare THEN EmptyFile ELSE disk[n]]
        /\ lost' = lost \cup gone \cup bare
  BY DEF PowerFailure
<1>2. Promised' = Promised /\ UNCHANGED syncFailed
  BY DEF PowerFailure, Restart, Promised
<1>3. DOMAIN Stored = {n \in DOMAIN disk : disk[n].synced}
  BY DEF Stored
<1>4. \A n \in DOMAIN Stored : n \notin lost
  BY <1>3 DEF IInv, LossKnown
<1>5. ~EmptyFile.synced
  BY DEF EmptyFile
<1>6. {n \in DOMAIN disk' : disk'[n].synced} = DOMAIN Stored \ lost'
  BY <1>1, <1>3, <1>4, <1>5
<1>7. \A n \in DOMAIN Stored \ lost' : FileContent(disk'[n]) = Stored[n]
  <2>1. \A n \in DOMAIN Stored \ lost' : disk'[n] = disk[n]
    BY <1>1, <1>3
  <2> QED
    BY <1>3, <2>1 DEF Stored
<1>8. Stored' = [n \in DOMAIN Stored \ lost' |-> Stored[n]]
  <2>1. Stored' = [n \in {x \in DOMAIN disk' : disk'[x].synced} |-> FileContent(disk'[n])]
    BY DEF Stored
  <2> QED
    BY <1>6, <1>7, <2>1
<1>9. CASE lost' # lost
  BY <1>1, <1>2, <1>8, <1>9 DEF D!PowerFailure
<1>10. CASE lost' = lost
  <2>1. DOMAIN Stored \ lost' = DOMAIN Stored
    BY <1>4, <1>10
  <2>2. Stored = [n \in DOMAIN Stored |-> Stored[n]]
    BY DEF Stored
  <2> QED
    BY <1>2, <1>8, <1>10, <2>1, <2>2
<1> QED
  BY <1>9, <1>10

(* What is promised are the messages answered 250.                          *)
LEMMA PromisedNames ==
  ASSUME NEW n
  PROVE  D!IsPromised(n) <=> n \in AcceptedNames
<1>1. \A m : MessagePromise(m).name = m.name
  BY DEF MessagePromise
<1> QED
  BY <1>1 DEF D!IsPromised, Promised, AcceptedNames

(* An fsync that succeeds stores the message, one that fails makes it       *)
(* doubtful.                                                                *)
LEMMA SyncDelivery ==
  ASSUME IInv, ContentInv, NEW c \in Conns, SyncCompletes(c)
  PROVE  D!Next
<1> DEFINE s == sess[c]
           n == s.path
           f == disk[n]
           g == [f EXCEPT !.synced = TRUE]
<1>1. /\ s.pc = "syncwait" /\ Open(s) /\ n \in DOMAIN disk /\ f \in FileType
      /\ UNCHANGED <<accepted, lost>>
  BY AtSession DEF SyncCompletes, WellSuspended
<1>2. n \notin AcceptedNames /\ n \notin syncFailed /\ ~f.synced /\ n \notin lost
  BY <1>1 DEF IInv, FileIsOwn, SyncKnown, LossKnown, Writing
<1>3. ~D!IsPromised(n) /\ Promised' = Promised
  BY <1>1, <1>2, PromisedNames DEF Promised
<1>4. CASE Write(n, g) /\ UNCHANGED syncFailed
  <2>1. g.synced
    BY <1>1 DEF FileType
  <2> HIDE DEF g
  <2>2. /\ DOMAIN disk' = DOMAIN disk /\ disk'[n] = g
        /\ \A m \in DOMAIN disk \ {n} : disk'[m] = disk[m]
    BY <1>1, <1>4 DEF Write, IInv, TypeOK
  <2>3. /\ DOMAIN Stored = {m \in DOMAIN disk : disk[m].synced}
        /\ DOMAIN Stored' = {m \in DOMAIN disk' : disk'[m].synced}
    BY DEF Stored
  <2>4. DOMAIN Stored' = DOMAIN Stored \cup {n} /\ n \notin DOMAIN Stored
    BY <1>1, <1>2, <2>1, <2>2, <2>3
  <2>5. \A m \in DOMAIN Stored : Stored'[m] = Stored[m]
    BY <1>2, <2>2, <2>3, <2>4 DEF Stored
  <2>6. Stored' = [x \in DOMAIN Stored \cup {n} |-> IF x = n THEN Stored'[n] ELSE Stored[x]]
    <3>1. Stored' = [x \in DOMAIN Stored' |-> Stored'[x]]
      BY DEF Stored
    <3>2. \A x \in DOMAIN Stored' : Stored'[x] = IF x = n THEN Stored'[n] ELSE Stored[x]
      BY <2>4, <2>5
    <3> QED
      BY <2>4, <3>1, <3>2, Zenon
  <2> QED
    BY <1>1, <1>2, <1>3, <1>4, <2>4, <2>6 DEF D!Next, D!Store
<1>5. CASE syncFailed' = syncFailed \cup {n} /\ UNCHANGED disk
  <2>1. Stored' = Stored
    BY <1>5, SameDiskIsSettled, SettledIsStored
  <2> QED
    BY <1>1, <1>2, <1>3, <1>5, <2>1 DEF D!Next, D!Doubt
<1> QED
  BY <1>4, <1>5 DEF SyncCompletes

(* The 250 is a promise of what is stored, or doubtful.                     *)
LEMMA AcknowledgeDelivery ==
  ASSUME IInv, ContentInv, NEW c \in Conns, Acknowledge(c)
  PROVE  D!Next
<1> DEFINE s == sess[c]
           n == s.path
           f == disk[n]
           m == MessagePromise(Message(s))
<1>1. s.pc = "notify" /\ UNCHANGED <<disk, syncFailed, lost>> /\ accepted' = accepted \cup {Message(s)}
  BY DEF IInv, SignalNames, Acknowledge
<1>2. Open(s) /\ n \in DOMAIN disk /\ InProgress(s, f) /\ KnownTail(s)
  BY <1>1, AtSession DEF WellSuspended, Fine
<1>3. n \notin AcceptedNames /\ (n \in syncFailed \/ f.synced) /\ n \notin lost
  BY <1>1, <1>2 DEF IInv, FileIsOwn, SyncKnown, LossKnown, Writing
<1>4. m = [name |-> n, content |-> Content(s.sent, s.reverse, s.acked)]
  BY DEF MessagePromise, Message
<1>5. FileContent(f) = m.content
  <2>1. s.pc \in Syncing
    BY <1>1 DEF Syncing
  <2>2. f.lines = s.sent /\ f.reverse = s.reverse /\ Range(f.forward) = s.acked
    BY <1>2, <2>1 DEF InProgress, LinesAreSent, EnvelopeIsStored, KnownTail
  <2> QED
    BY <1>4, <2>2 DEF FileContent
<1>6. Promised' = Promised \cup {m}
  BY <1>1 DEF Promised
<1>7. m \notin Promised /\ ~D!IsPromised(m.name)
  BY <1>3, <1>4, PromisedNames DEF D!IsPromised
<1>8. f.synced => n \in DOMAIN Stored /\ Stored[n] = m.content
  BY <1>2, <1>5 DEF Stored
<1>9. Stored' = Stored
  BY <1>1, SameDiskIsSettled, SettledIsStored
<1>10. m.name = n
  BY <1>4
<1> HIDE DEF m
<1> QED
  BY <1>1, <1>3, <1>6, <1>7, <1>8, <1>9, <1>10 DEF D!Next, D!Promise

(* Every step is a step of Delivery or a stutter.                           *)
LEMMA DeliveryStep ==
  IInv /\ ContentInv /\ [Next]_vars => [D!Next]_<<Stored, Promised, syncFailed, lost>>
<1> SUFFICES ASSUME IInv, ContentInv, [Next]_vars
             PROVE  D!Next \/ UNCHANGED <<Stored, Promised, syncFailed, lost>>
  OBVIOUS
<1>1. ASSUME StaysPromised
      PROVE  UNCHANGED <<Stored, Promised, syncFailed, lost>>
  BY <1>1, SettledIsStored DEF StaysPromised, Promised
<1>2. ASSUME NEW c \in Conns,
             \/ Connect(c) \/ Disconnect(c) \/ Command(c) \/ DataOutOfSequence(c) \/ Data(c)
             \/ ReceiveLine(c)
      PROVE  StaysPromised
  BY <1>2, QuietDelivery
<1>3. ASSUME NEW c \in Conns, EndOfData(c) \/ Progress(c)
      PROVE  StaysPromised
  BY <1>3, FileDelivery
<1>4. ASSUME NEW c \in Conns, SyncCompletes(c) \/ Acknowledge(c)
      PROVE  D!Next
  BY <1>4, SyncDelivery, AcknowledgeDelivery
<1>5. ASSUME AcceptFails \/ UNCHANGED vars
      PROVE  StaysPromised
  BY <1>5, SameDiskIsSettled DEF AcceptFails, vars, StaysPromised
<1>6. ASSUME Crash
      PROVE  StaysPromised
  BY <1>6, CrashDelivery
<1>7. ASSUME PowerFailure
      PROVE  D!Next \/ UNCHANGED <<Stored, Promised, syncFailed, lost>>
  BY <1>7, PowerFailureDelivery DEF D!Next
<1> QED
  BY <1>1, <1>2, <1>3, <1>4, <1>5, <1>6, <1>7 DEF Next

(* The receiver implements Delivery: what it answers 250 for was stored     *)
(* before, as the client sent it, and what is stored stays as it is, across *)
(* restarts too, unless a power failure takes it.                           *)
THEOREM Refinement == Spec => KeepsPromise
<1>1. Init => D!Init
  BY DEF Init, D!Init, Stored, Promised
<1>2. IInv /\ ContentInv /\ [Next]_vars => [D!Next]_<<Stored, Promised, syncFailed, lost>>
  BY DeliveryStep
<1> QED
  BY <1>1, <1>2, Invariant, Contents, PTL DEF Spec, KeepsPromise, D!Spec

=============================================================================
