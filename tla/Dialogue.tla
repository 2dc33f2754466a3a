------------------------------ MODULE Dialogue ------------------------------
(***************************************************************************)
(* One connection from bytes to answers: session::feed, feed_cmd and        *)
(* feed_data over two line readers that share what recv returned            *)
(* (smtp/src/session.cpp).  What a command or a line of text does beyond    *)
(* switching between the two is in Session.                                 *)
(***************************************************************************)
EXTENDS Naturals, Sequences, FiniteSets, SequencesExt

CONSTANTS
  Streams,       \* what a client sends, byte by byte
  Bytes, CR, LF, NUL, TooLong,
  DataCmd,       \* the line DATA
  QuitCmd,       \* the line QUIT
  Dot,           \* the byte
  CmdCapacity,   \* of _cmd_buffer
  LineCapacity,  \* of _line_buffer
  MaxText,       \* rfc5322::max_line_length - 2
  Leftovers      \* what the last two bytes of a buffer may be in the beginning

ASSUME StreamsAssumption == Streams \subseteq Seq(Bytes)

ASSUME CapacitiesAssumption == MaxText \in Nat /\ MaxText <= LineCapacity

ASSUME CommandsAssumption ==
  /\ {DataCmd, QuitCmd} \subseteq Seq(Bytes) /\ DataCmd # QuitCmd
  /\ Len(DataCmd) <= CmdCapacity /\ Len(QuitCmd) <= CmdCapacity
  /\ Dot \in Bytes /\ TooLong \notin Seq(Bytes \cup {NUL})

VARIABLES
  input,   \* what the client sends on this connection
  sp,      \* what is left of the bytes of the last recv
  stream,  \* history: all bytes received
  cmdTarget, cmdTail, cmdOffset, cmdFirst,      \* the reader of commands
  lineTarget, lineTail, lineOffset, lineFirst,  \* the reader of text
  lines,   \* history: the lines that either of them handed on
  state,   \* _state
  tooLong, \* _line_too_long
  text,    \* the lines of the message
  events,  \* history: what was answered
  granted  \* history: whether each DATA was accepted

readers == <<cmdTarget, cmdTail, cmdOffset, cmdFirst, lineTarget, lineTail, lineOffset, lineFirst>>

vars == <<input, sp, stream, readers, lines, state, tooLong, text, events, granted>>

Cmd == INSTANCE LineJoin WITH
  src <- sp, target <- cmdTarget, tail <- cmdTail, offset <- cmdOffset, first <- cmdFirst,
  Capacity <- CmdCapacity

Line == INSTANCE LineJoin WITH
  src <- sp, target <- lineTarget, tail <- lineTail, offset <- lineOffset, first <- lineFirst,
  Capacity <- LineCapacity

ASSUME ReadersAssumption == Cmd!Sensible /\ Line!Sensible

TypeOK ==
  /\ Cmd!TypeOK
  /\ Line!TypeOK
  /\ IsPrefix(stream, input)
  /\ state \in {"CMD", "DATA", "CLOSED"}
  /\ tooLong \in BOOLEAN
  /\ \A i \in DOMAIN text : Len(text[i]) <= MaxText

Init ==
  /\ Cmd!Init /\ cmdTail \in Leftovers
  /\ Line!Init /\ lineTail \in Leftovers
  /\ input \in Streams /\ sp = <<>> /\ stream = <<>>
  /\ state = "CMD"
  /\ tooLong \in BOOLEAN  \* the constructor does not set it
  /\ text = <<>> /\ events = <<>> /\ granted = <<>>

Recv ==
  /\ sp = <<>> /\ state # "CLOSED"
  /\ \E n \in Len(stream) + 1 .. Len(input) :
       /\ sp' = SubSeq(input, Len(stream) + 1, n)
       /\ stream' = SubSeq(input, 1, n)
  /\ UNCHANGED <<input, readers, lines, state, tooLong, text, events, granted>>

-----------------------------------------------------------------------------
Coded(code) == [code |-> code, stored |-> <<>>]
Stored(message) == [code |-> "ok", stored |-> message]

Say(e) == events' = Append(events, e)

KeepFlag == UNCHANGED tooLong  \* mutant: the flag of the last message is kept

ClearFlag == tooLong' = FALSE

AcceptData ==
  /\ Say(Coded("start_data")) /\ granted' = Append(granted, TRUE)
  /\ state' = "DATA"
  /\ text' = <<>>
  /\ ClearFlag

RefuseData ==
  /\ Say(Coded("bad_sequence")) /\ granted' = Append(granted, FALSE)
  /\ UNCHANGED <<state, tooLong, text>>

Quit ==
  /\ Say(Coded("quit"))
  /\ state' = "CLOSED"
  /\ UNCHANGED <<tooLong, text, granted>>

Other(e) ==
  /\ Say(e)
  /\ UNCHANGED <<state, tooLong, text, granted>>

Command(l) ==
  CASE l = DataCmd -> AcceptData \/ RefuseData
    [] l = QuitCmd -> Quit
    [] l = TooLong -> Other(Coded("exceeded_line"))
    [] OTHER       -> Other(Coded("invalid_command"))

EndsData(l) == l = <<Dot>>

Verdict == IF tooLong THEN Coded("exceeded_line") ELSE Stored(text)

EndData ==
  /\ Say(Verdict)
  /\ state' = "CMD"
  /\ UNCHANGED <<tooLong, text, granted>>

Unstuffed(l) == IF Len(l) > 1 /\ l[1] = Dot /\ l[2] = Dot THEN Tail(l) ELSE l

(* A line that is longer than the protocol allows, or than the buffer.      *)
Over(l) == l = TooLong \/ Len(Unstuffed(l)) > MaxText

TextLine(l) ==
  /\ tooLong' = (tooLong \/ Over(l))
  /\ text' = IF tooLong' THEN text ELSE Append(text, Unstuffed(l))
  /\ UNCHANGED <<state, events, granted>>

DataLine(l) == IF l # TooLong /\ EndsData(l) THEN EndData ELSE TextLine(l)

-----------------------------------------------------------------------------
(* Each call of join, and what is done with the line if there is one.       *)
FeedCmd ==
  /\ state = "CMD"
  /\ \/ /\ Cmd!JoinMore
        /\ UNCHANGED <<state, tooLong, text, events, granted>>
     \/ Cmd!JoinLine /\ Command(Last(lines'))
  /\ UNCHANGED <<input, stream, lineTarget, lineTail, lineOffset, lineFirst>>

FeedData ==
  /\ state = "DATA"
  /\ \/ /\ Line!JoinMore
        /\ UNCHANGED <<state, tooLong, text, events, granted>>
     \/ Line!JoinLine /\ DataLine(Last(lines'))
  /\ UNCHANGED <<input, stream, cmdTarget, cmdTail, cmdOffset, cmdFirst>>

Next == Recv \/ FeedCmd \/ FeedData

Spec == Init /\ [][Next]_vars

-----------------------------------------------------------------------------
(* The conversation as the protocol has it: line after line of the stream.  *)
Seen == SubSeq(stream, 1, Len(stream) - Len(sp))

(* Where a terminator ends.                                                 *)
EndsIn(bytes) == {k \in 2 .. Len(bytes) : bytes[k - 1] = CR /\ bytes[k] = LF}

(* A set of places in their order, each the first behind the one before.    *)
Ordered(S) ==
  LET nth[n \in 0 .. Cardinality(S)] ==
        IF n = 0 THEN 0 ELSE Min({k \in S : k > nth[n - 1]})
  IN [n \in 1 .. Cardinality(S) |-> nth[n]]

RawLines ==
  LET e == Ordered(EndsIn(Seen))
  IN [j \in DOMAIN e |-> SubSeq(Seen, IF j = 1 THEN 1 ELSE e[j - 1] + 1, e[j] - 2)]

(* What is expected behind a line, and how many DATA commands have been     *)
(* asked: these are answered by granted, in order.                          *)
ModeAfter(m, l) ==
  LET asks == m.mode = "CMD" /\ l = DataCmd
  IN [asked |-> IF asks THEN m.asked + 1 ELSE m.asked,
      mode |-> CASE asks /\ granted[m.asked + 1]        -> "DATA"
                 [] m.mode = "CMD" /\ l = QuitCmd       -> "CLOSED"
                 [] m.mode = "DATA" /\ l = <<Dot>>      -> "CMD"
                 [] OTHER                               -> m.mode]

Modes ==
  LET raw == RawLines
      mode[i \in 1 .. Len(raw) + 1] ==
        IF i = 1 THEN [asked |-> 0, mode |-> "CMD"] ELSE ModeAfter(mode[i - 1], raw[i - 1])
  IN [i \in 1 .. Len(raw) + 1 |-> mode[i].mode]

(* The lines of the message that line i ends.                               *)
MessageLines(raw, modes, i) ==
  LET start == CHOOSE s \in 1 .. i - 1 :
                 modes[s] = "CMD" /\ \A j \in s + 1 .. i - 1 : modes[j] = "DATA"
  IN SubSeq(raw, start + 1, i - 1)

VerdictOn(message) ==
  IF \A j \in DOMAIN message : Len(message[j]) <= LineCapacity /\ Len(Unstuffed(message[j])) <= MaxText
  THEN Stored([j \in DOMAIN message |-> Unstuffed(message[j])])
  ELSE Coded("exceeded_line")

AnswerTo(l, next) ==
  CASE l = DataCmd           -> IF next = "DATA" THEN Coded("start_data") ELSE Coded("bad_sequence")
    [] l = QuitCmd           -> Coded("quit")
    [] Len(l) > CmdCapacity  -> Coded("exceeded_line")
    [] OTHER                 -> Coded("invalid_command")

Expected(raw, modes, i) ==
  IF modes[i] = "DATA" THEN VerdictOn(MessageLines(raw, modes, i)) ELSE AnswerTo(raw[i], modes[i + 1])

(* What a line feed completes when it is the first byte that a reader gets  *)
(* and its memory happens to end in a carriage return.                      *)
Stray ==
  \/ cmdFirst = CR /\ stream # <<>> /\ stream[1] = LF
  \/ /\ lineFirst = CR /\ \E i \in DOMAIN granted : granted[i]
     /\ \E i \in 3 .. Len(stream) : stream[i] = LF /\ stream[i - 1] = LF

(* The lines handed on are those of the stream, however recv cut it up: a   *)
(* terminator in two pieces ends its line, a line that does not fit the     *)
(* buffer of its reader is reported once, and nothing of one line gets into *)
(* another, whichever of the readers it was in.                             *)
LinesAreSplit ==
  ~Stray =>
    LET raw == RawLines
        modes == Modes
        Capacity(i) == IF modes[i] = "DATA" THEN LineCapacity ELSE CmdCapacity
    IN lines = [i \in DOMAIN raw |-> IF Len(raw[i]) <= Capacity(i) THEN raw[i] ELSE TooLong]

(* Between two calls one reader holds what has come of the unfinished line, *)
(* as much as fits, and knows whether its terminator has begun; the other   *)
(* holds nothing.                                                           *)
Holds(target, tail, offset, rest) ==
  /\ offset = Len(rest)
  /\ \A k \in DOMAIN target : k <= Len(rest) => target[k] = rest[k]
  /\ rest # <<>> => tail[2] = Last(rest)

BufferHoldsRest ==
  ~Stray =>
    LET rest == SubSeq(Seen, 1 + Max({0} \cup EndsIn(Seen)), Len(Seen))
        incmd == state = "CMD"
    IN /\ Holds(cmdTarget, cmdTail, cmdOffset, IF incmd THEN rest ELSE <<>>)
       /\ Holds(lineTarget, lineTail, lineOffset, IF incmd THEN <<>> ELSE rest)

(* Whatever pieces the bytes come in, commands behind the text, text behind *)
(* the command and all of it in one piece included: every line goes to the  *)
(* reader that it is meant for, every command and every end of data is      *)
(* answered once and in order, and the messages are those that were sent.   *)
ConversationIsOfStream ==
  ~Stray =>
    LET raw == RawLines
        modes == Modes
        answered == {i \in DOMAIN raw :
                       \/ modes[i] = "CMD"
                       \/ modes[i] = "DATA" /\ raw[i] = <<Dot>>}
        order == Ordered(answered)
    IN /\ events = [n \in DOMAIN order |-> Expected(raw, modes, order[n])]
       /\ state = modes[Len(raw) + 1]

=============================================================================
