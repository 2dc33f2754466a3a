# Ervan 2 in TLA+

Ervan 2 is a mail server written with C++20 coroutines. It is two processes: a *monitor*
that reads the configuration and keeps its children running, and an *SMTP receiver* that
accepts messages and puts each of them, with its envelope, into a file below
`./ingoing/`. This directory holds TLA+ modules for both processes and for what passes
between them, the TLC configurations that check them on small instances, and proofs of
the most important invariants that TLAPS checks for every value of the constants.

Run anything from this directory, for example

    tlc -config MCSession_crash.cfg MCSession.tla
    tlc -config MCDialogue.cfg MCDialogue.tla
    tlapm SessionProofs.tla

## The system

| component | state | operations | talks to |
|---|---|---|---|
| session (`smtp/src/session.cpp`) | `_state`, greeting, envelope, flags, two line buffers | recv loop, `feed`, `reset`, dispatch | a client; its message file |
| commands (`smtp/src/session/commands.cpp`) | the envelope of its session | EHLO, HELO, MAIL, RCPT, DATA, RSET, VRFY, NOOP, QUIT | the session |
| message file (`smtp/src/session/file.cpp`, `common/src/message.cpp`) | one file in `./ingoing/` | `open_files`, the write of a line, `finish_data`, `abort_data` | the disk |
| fsync notification (`common/src/io.cpp`) | the pending SIGIO | `sync_file`, `io_signal` | the kernel; the session that waits |
| accept loop (`smtp/src/main.cpp`) | the listening socket | `listen`, spawning sessions | clients |
| line reader (`common/src/string.cpp`) | buffer, its last two bytes, offset | `join` | the session |
| file names (`common/src/string.cpp`) | a static counter | `get_unique_filename` | the message file |
| monitor (`main/src/monitor.cpp`) | pid of each child | `add`, `signal`, `loop`, `enter` | the receiver, through fork and SIGCHLD |
| configuration (`common/include/ervan/config.hpp`, both `main.cpp`) | a typed store in each process | reading the file, `dump`, `set`, the exchange key by key | both processes |
| archive layout (`common/include/ervan/io.hpp`) | positions in the message file | header space, seeks, padding, headers | the message file |
| header writer (`common/src/rfc5322.cpp`) | the length of the line so far | `begin_header`, `write_body_part`, `end_header` | the message file |
| parsers (`common/src/parse.cpp`) | none | domain, path, reverse path, parameter | commands |
| base64 (`common/src/string.cpp`) | one buffer | `base64_encode` for each line of the metadata | the message file |
| inter-process channel (`common/src/ipc.cpp`), log (`common/src/log.cpp`) | none | adapters to libeipc and libeaio; output | both processes |

The receiver is one thread. A session runs without interruption from one `co_await` to
the next, and any number of sessions are suspended at the same time; a signal handler
runs between any two steps. Hard to test are therefore: what other sessions do while one
waits for a write or an fsync; a lost connection, a failed write, a dead process or a
failure of power at each of about a dozen awaits of one message; flags and buffers that
outlive the message or the line they are about; two line readers that share the bytes of
one recv; a receiver that dies in the midst of the exchange that configures it; loops
that end for good when one call fails; standard signals, of which one carries a handle;
and names that must differ between sessions and between a process and its predecessor.
`PROJECT.json` lists each of these hazards at its line with the properties that cover
it.

What makes the components correct:

- *session and commands*: a transaction has exactly the recipients that were answered
  250 in it; an answer at the end of data says what happened to this message and not to
  the last one;
- *message file*: a message is answered 250 only when it is complete and synced, and
  then stays as it is, until a power failure takes its entry; an aborted one leaves
  nothing; no two sessions ever share a file;
- *fsync notification*: whoever completes a message is resumed;
- *line reader*: lines do not depend on how recv cuts up the stream, and nothing is
  written beyond the buffer;
- *archive layout*: a reader of the file finds the text and the metadata entire, and a
  header never tells of more than is there;
- *header writer, base64*: what is written unfolds and decodes to what was meant, and
  stays in its line and its buffer;
- *parsers*: exactly the lines of the grammar are accepted, and what is kept is the
  mailbox;
- *configuration*: the store is what the file says line by line, and a receiver listens
  with all of it or not at all, if none of the requests for it failed;
- *monitor*: no death of the receiver goes unnoticed, and only a death is taken for one.

## Modules

| module | models | extends |
|---|---|---|
| `SessionState` | constants, variables, the type of sessions and files, `reset`, the constructor, `reply` | |
| `Commands` | `commands.cpp` but DATA | `SessionState` |
| `MessageFile` | DATA, `feed_data`, `file.cpp`, `message.cpp`, `io.cpp` | `SessionState` |
| `Session` | the process: accept loop, disconnection, death of the process and of the machine; all properties, `IInv` and `ContentInv` | `Commands`, `MessageFile` |
| `Delivery` | the abstract specification of the receiver's promise | |
| `SessionProofs` | theorems | `Session`, `SetInduction` |
| `LineJoin` | `join`: what one call does to one line reader | |
| `Dialogue` | `feed`, `feed_cmd`, `feed_data`: a session as two line readers over one stream | instances `LineJoin` twice |
| `DialogueProofs` | theorems | `Dialogue`, `SetInduction` |
| `Archive` | the bytes of one message file | |
| `ArchiveProofs` | theorems | `Archive`, `SetInduction` |
| `HeaderWriter` | `rfc5322::writer` as `write_trace_info` uses it | |
| `MetaLines` | `base64_encode` and the lines at the head of the metadata | |
| `Writers` | the choice between the two writers | `MetaLines`, instances `HeaderWriter` |
| `WritersProofs` | theorems | `Writers`, `SetInduction` |
| `Parse` | the parsers | |
| `CommandLine` | what EHLO, MAIL and RCPT make of the rest of their line | `Parse` |
| `CommandLineProofs` | theorems | `CommandLine`, `SetInduction` |
| `Monitor` | the monitor and the lives of its receivers | |
| `MonitorProofs` | theorems | `Monitor` |
| `ConfigFile` | `reload_config`, `get_config_pair` and the conversions of the store | |
| `ConfigExchange` | the exchange of the store, key by key, with receivers that die | |
| `Configuration` | the two in one monitor | `ConfigFile`, instances `ConfigExchange` |
| `ConfigurationProofs` | theorems | `Configuration`, `SetInduction` |
| `SetInduction` | induction over the naturals, for the proofs about recursive functions | |
| `MCSession`, `MCDialogue`, `MCArchive`, `MCWriters`, `MCCommandLine`, `MCMonitor`, `MCConfiguration` | constants for TLC | the module of that name |

`map` in `PROJECT.json` gives the lines behind each definition.

### Session

`sess[c]` is the session object of connection `c`, with the code's member names
shortened: `state` is `_state` (`STATE_CLOSED` ends the session at once), `begun` is
`_session_begun`, `reverseSet` is `_reverse_set`, `from`, `reverse` and `forward` are
`_metadata`, `path` is `_data_path`, and the flags are `_data_size`, `_data_too_long`,
`_line_too_long` and `_data_error`. `pc` names the await where the session is suspended.
Four fields are history that no action reads: `reply`, the last answer sent; `sent`, the
lines of the message as the client meant them; `acked`, the recipients it got 250 for
since MAIL; `fault`, whether a write of this message failed. `accepted`, `abandoned`,
`syncFailed` and `lost` (the files that a power failure removed or emptied) are history
of the whole receiver.

`disk` maps file names to what matters of a file: which of the eight kinds of writes
have reached it, its lines, the envelope in its metadata, and whether it is synced.
`OpenParts` and `FinishParts` are those writes, in the order of `open_files` and
`finish_data`; each is an await, so each is an action that succeeds or fails while other
sessions run.

Where the code and the model differ in shape:

- *Input.* A command is one action that covers its whole handler. Parsing is reduced to
  its outcome: it fails, or it yields a domain or a mailbox. Answers that leave a
  command without effect are one value, `"refused"`.
- *Bare RCPT.* `call_command` steps over five bytes of a line that may have four, and
  `accept` writes the keyword it is looking for into the buffer before it compares, so a
  line `RCPT` is taken for `RCPT TO:` followed by what an earlier line left there.
  `tail` is the path an earlier line left at that place; that a longer line may have
  overwritten it is the choice of `None`. MAIL puts another character there. The same
  reading of stale bytes by a bare `MAIL` or `EHLO` has the outcomes of the full
  command, which are possible anyway. Clients are assumed to write `<` only where a path
  starts.
- *Text.* A line is a record of its leading dots and the length of the rest. Clients
  stuff dots as the protocol wants. The end of data is an action of its own; a client
  that does not end its data never gets there.
- *`_data_error`* is not set by the constructor: `Connect` chooses its value. The other
  members the constructor leaves alone are set by DATA before they are read.
- *fsync.* `aio_fsync` may refuse, which aborts, or queue the request (`Sync`). Its
  completion (`SyncCompletes`) succeeds or fails, which nobody asks about, and raises
  SIGIO with the session's handle, unless a SIGIO is pending: standard signals do not
  queue. `Acknowledge` is the handler and the session that it resumes. The handle is
  assumed to be awaited when the signal arrives.
- *Results the code ignores* (unlink, close, truncate, the later tellg and seekg)
  succeed.
- *Crash* is the death of the process, in which nothing on the disk is lost.
- *PowerFailure* is the death of the machine. `sync_file` syncs the file's descriptor and
  nothing ever syncs `./ingoing/`, where `O_CREAT` made the entry, so any set of entries
  may be gone, those of messages that were answered 250 included; of the files that are
  left those that are not synced may have lost their data, all of it at once
  (`EmptyFile`). The model does not know when the kernel gets an entry to the disk by
  itself, so that it lets a second power failure take what the first one left.
- After either the receiver is started again (`Restart`). Limits do not change after the
  receiver listens, so they are constants.
- *Names* are a pair of incarnation and counter. That pid and second differ between
  incarnations is an assumption.

### Delivery

The abstract specification has a store, a set of promises and a set of names that the
device reported trouble for. A message may only be promised when it is in the store with
the promised content, or its name is doubtful; nothing in the store is ever changed, and
nothing but a `PowerFailure` removes it, after which its name is `lost` and never stored
or promised under again. `Session!KeepsPromise` maps the synced files to the store
(lines, reverse path and the set of recipients) and `accepted` to the promises; the
content of a promise is what the *client* said, so the refinement relates the history of
the dialogue to the bytes on the disk. A step of the receiver that is not a completed
fsync, a failed one, a 250 or a power failure that meets some file has to be a stutter;
the death of the process is one.

### LineJoin and Dialogue

`LineJoin` is one line reader; its actions are one call of `join` on what is left of a
recv. `Tail2` is what `t_check` holds after some byte, `Ends` where it equals the
terminator; the loop is written as the choice of the first such byte. The two bytes
behind the buffer are uninitialised in the code; `Init` leaves them open, and `Dialogue`
takes the ones that can matter (`Leftovers`).

`Dialogue` has two of them, as a session has: `_cmd_span` and `_line_span` take turns at
the same bytes `sp`, and `feed` decides after each line by `_state` which is next.
`Recv` is a recv of any number of bytes, so every way of cutting the stream is a
behaviour. What a command does beyond that decision is in `Session`, so it is reduced to
DATA (accepted or refused, by choice), QUIT and the rest; of a line of text its bytes
are kept, because it matters which line they end up in. Without the history `granted`,
the choice made for each DATA, the reference could not tell which lines are text:
`RawLines`, `Modes` and `Expected` say of the stream alone, and of that choice, what has
to be answered and stored. `Stray` is the one case that is left out: a line feed as the
first byte of a reader whose memory happens to end in a carriage return completes a line
that nobody sent.

The reference is written as a recursion from line to line: `Ordered` lists the places
where lines end, `ModeAfter` says what the session is in after a line, `VerdictOn` and
`AnswerTo` what one line is answered. `Modes` and `Expected` are the sequences that these
give for a stream.

A byte of NUL and the NUL written behind a line in `sp` itself are not modelled; the CR
LF that the code puts behind a line it keeps is left out of the line.

### Archive

The same writes as in `MessageFile`, for one file, with positions and sizes. A byte is a
record of where it comes from, so that a misplaced one shows; a header is a block of
bytes that carry its name and the octal digits of its size. Each action is a write with
the `tellg` and `seekg` around it. A write of text that fails has written a part of its
bytes; in `finish_data` it makes no difference, as the file is unlinked. The trace
header and the metadata are pieces of any length. `Leave` is the end of the connection
or of the process; of the tar header only the name and the size are modelled, and what
the first `tellg` does when it fails is in `EndOfData`, while the later ones succeed, as
they do on an open regular file. `Entries` is a reader of tar archives, one that skips
an empty block between entries or one that stops there; it reads a size back from its
digits (`Decoded`) and goes on behind the body that this size tells of (`From`), so that a
wrong digit or a misplaced header loses the entry.

The archive and the session are separate modules because neither reads the state of the
other: `MessageFile` decides which write comes next and whether it happens, `Archive`
where it goes.

### HeaderWriter and MetaLines

`HeaderWriter` is the writer of the trace header, a write or the arithmetic before it a
step. Of a part only its length and the blank before it matter. `line_length` is
uninitialised (`Leftovers`) and an `int` that is added to a `size_t` and compared
unsigned (`Over`); its addition does not overflow for the values given. A fold and its
terminator are one token. A line is a pair of places, from a fold to any place before the
next one, and its length a difference of sums (`Sums`), so that `LinesFit` speaks of each
line while it is written. `Sensible` says of the limits that the first line with its head
is within `max_line_length`.

`MetaLines` is `metadata::write_to` up to its one write: the room of a line
(`EncodedLen`) is computed by other arithmetic than the encoding, and the lines lie in
one buffer that starts as `Garbage`. A group of three, two or one bytes is an action; a
write beyond the buffer extends the domain of `buffer`, which `TypeOK` forbids. The code
has four lines of 32 bytes, of which the model leaves number and length open.

### Parse and CommandLine

A parser is an operator that takes a text and a place and returns the place of its rest,
or `Bad`; that is what `span` and `result` amount to. The recursive ones are recursive
functions on places. `CommandLine` calls them as the commands do: MAIL takes the path
and then one parameter at a time (`TakeParam`), RCPT the path, EHLO a domain, and what
is stored is `MailboxText`. `LocalBuffer` is the copy of the local part without its
quotes. The references (`IsPath`, `IsParams`, `IsDomain`) say of a whole text whether it
is of the grammar, by its pieces between separators and not by a parser. The order of
the guards, and what a bare keyword reads, is in `Commands`.

Of the characters it is assumed that none of an atom is one that the parsers look for
(`Marks`) and that the equals sign, which `isatext` has, is in no domain
(`CharsAssumption`); of `tolower` that only letters are made into letters of `BODY`
(`BodyAssumption`); and that the lines have only characters that it knows
(`TextsAssumption`).

### ConfigFile, ConfigExchange, Configuration

`ConfigFile` reads the file pair by pair: `Until` is each of the four loops of
`get_config_pair`, `Pass` a comment or an unknown key, `SetKey` the conversion and the
store, `Finish` the end of the file or of a pair without a value. A number is what
`from_chars` finds in front; one that overflows a `size_t` leaves the variable as it was
(`Junk`). `StoreIsFile` compares the store with the file as its author means it, line by
line: `Starts` and `Ends` are the places where the words of a line begin and end, its key
is the first word (`WordOf`) and its value the rest (`RestOf`), and the last line of a key
counts. It leaves out files with a line of one word, which takes the next line as its
value, and files with such a number (`Plain`). That no key begins with the sign of a
comment is assumed (`NamesAssumption`), as is the value of a digit (`DigitAssumption`).

`ConfigExchange` is `handle_eipc` on both sides. The receiver binds its endpoint, asks,
and waits; the monitor takes the request, sends an update for each key of the list,
waits for each to be acknowledged, and responds, which resumes the receiver in `start`,
whose `listen` asks `ensure` for the hostname. A receiver may die at any point and be
replaced: an update then goes to the successor, is lost, or fails. Where `dump` does not
fit, or the default of a string is dumped, the value is `Garbage`, or the monitor
crashes.

Every call of libeipc may fail, and each failure does what the code makes of it. A
`recv_request` that fails ends the loop that made it while its process lives on:
`AnsweringEnds` in the monitor, after which no request is taken, `HandlerEnds` in the
receiver, after which no update is acknowledged. Nobody looks at a `request_async` that
fails: the monitor goes on with the next key (`SendKey`), and the receiver listens with
what it has been told so far, which may be what its predecessor asked for (`Ask`).
`missed` is the history of whether a request of the present receiver's exchange has
failed, its own or one of the monitor's for it; no action reads it.

Of libeipc, which is not in the repository, it is assumed that a request that fails has
not arrived, that requests and responses arrive in order, that a response reaches a
process that lives and resumes the request it belongs to, and that what is under way to
a process that dies, or whose handler has ended, is lost.

`Configuration` composes them over the one store of `main_async`: the exchange begins
when the file has been read.

### Monitor

`child` is the life of each receiver by pid: not yet forked, starting (until it has its
configuration, `Configure`), serving (`start` got the port), idle (it did not: `start`
returns and is never run again), mute (it has the port and accepts nobody: its `accept`
failed, or `listen` found no hostname), dead. `watched` is the `pid` of the one
`monitor_entry`; `Enter` is `monitor::enter` with both outcomes of fork. `Signal` is
`monitor::signal` for the pid of the SIGCHLD: it compares it with the entry, calls
`waitpid` without looking at the result, and enters again. The kernel raises SIGCHLD for
the parent when a child dies, is stopped or goes on (no `SA_NOCLDSTOP` is set), and
drops it while another is pending. SIGCHLD is blocked before the first fork. `Exit` is
the end of the monitor on SIGINT; nothing ends its receiver, which keeps the port, and a
new monitor may start.

`engaged` is what `ConfigExchange` means for the monitor: it configures one receiver at
a time, and one that dies meanwhile may leave it waiting (`Die` decides), so that no
later receiver gets to listen. `Configuration` shows when that happens.

Three loops end for good when what they wait for fails, and the process lives on:
`monitor::loop` after a `signal.get` (`LoopFails`, variable `reading`), `handle_eipc` of
the monitor after a `recv_request` (`AnsweringEnds`, `answering`) and that of a receiver
(`HandlerEnds`, `deaf`). A receiver with a failed request goes on with what it has
(`GoesOn`): it finds the port or not, and it serves or is mute. All of these may happen at
any time in the run `monitor`.

## What is checked

| run | instance | shows |
|---|---|---|
| `envelope` | one connection, two mailboxes, two recipients, null reverse path, one line of every kind, every fault | commands in every order: `EnvelopeIsOwn`, and that envelope, every line and every part in the file, `AcceptedIsWhole` |
| `text` | one connection, two files, two lines each, every fault | types; what is in the file at each await (`ContentInv`); answers are true (`VerdictIsTrue`), every failure but a failed tellg is answered (`OnlyTellIsSilent`) |
| `two` | two connections, no lines, no restart, fairness | `FileIsOwn`, `AcceptedIsUntouched`, the refinement `KeepsPromise` and `EndOfDataAnswered` under every interleaving |
| `crash` | two connections, no lines, a file per incarnation, a death of the process or the machine anywhere | `AcceptedIsDurable`, `SpoolAccounted`, the refinement `KeepsPromise` under power failures, and the inductive invariant `IInv`, of which `FileIsOwn` and `EnvelopeIsOwn` are part |
| `error` | one connection | a message is answered 451 at its end though nothing failed (see Findings) |
| `dialogue` | conversations and byte streams in every sequence of pieces | `LinesAreSplit`, `BufferHoldsRest`, `ConversationIsOfStream`, nothing copied beyond a buffer (`TypeOK`) |
| `archive` | blocks of 4 bytes, text up to 12, metadata up to 9, writes of up to 5 | `BothFound`, `PlainlyFound`, `FoundIsWhole`, `TextStays` |
| `writers` | the trace header with the limits of the code; two lines of metadata | `HeaderUnfolds`, `HeaderLinesFit`; types, `LinesAreEncoded` |
| `lines` | every short argument of EHLO, MAIL and RCPT, and longer ones put together from parts | `PathsAreGrammatical`, `PathIsMeant`, `GreetingIsDomain` |
| `monitor` | four pids, two stops, any number of monitors, loops that end, fairness | `OneReceiver`, `DeathIsSeen`, `ServesAgain` |
| `stopped` | three pids, one stop | a receiver that is not dead is replaced (see Findings) |
| `configuration` | every short file, three receivers, requests that fail, loops that end, fairness | `StoreIsFile`, `ListensAsConfigured`, `DeafByLoss`, `GetsToListen` |

Bounds of the receiver. `MCSession` gives two connections `c1`, `c2`, mailboxes `p1`,
`p2` and four kinds of lines: only a dot, starting with a dot and exactly at the limit
(its stuffed form just fits the buffer), plain and too long, and beyond the buffer.
`MaxLine` is 3 and `LineCap` 4, so that all of these exist, and `MaxSize` is 8, so that
one line fits and the sum of two may be below, at or above it. Two connections suffice
for what sessions can do to each other: they share the name counter, the pending signal
and the directory, and each of these involves two of them at a time. Two messages in a
row show what is carried over from one to the next (flags, envelope, names). `MaxFiles`
bounds the files of one incarnation and is the only guard of DATA that the code does not
have, `MaxLines` the same for lines of text, `MaxBoots` for restarts.

No run has two connections, lines and restarts at once, so each says a part. In `two` and
`crash` messages have no lines: what `KeepsPromise` says of lines is empty there. That
every line is in the file of an accepted message is checked in `envelope` and, with two
messages in a row, in `text` (`AcceptedIsWhole` is part of `ContentInv`). `two` has no
restart, so that `AcceptedIsUntouched` is about sessions of one incarnation there; what
its successor does to the files it finds is in `crash`, where `KeepsPromise` and the part
`FileIsOwn` of `IInv` would fail if a name were given out again. What `AcceptedIsWhole`
excepts after a power failure occurs in no run and is covered by its theorem. The theorems
have no such division.

`two` and `crash` have the constraint `AfterRefusal`: they do not go on from
a state whose last answer was `"refused"`. A refused command changes no other field than
`reply` and what `tail` remembers, so what could follow is explored from the state
before it; the runs `envelope` and `text` have no such constraint. `crash` uses the
symmetry of the connections; `two` does not, as TLC's symmetry is not sound for liveness.

Bounds of the others. `dialogue`: conversations of up to four lines of eight kinds
(DATA, QUIT, a dot, two dots, empty, exactly the line buffer, a lone CR, beyond it), and
every stream of eight bytes over CR, LF and another, each received in every sequence of
pieces. The command buffer has two bytes, the line buffer three, and a line of text may
have one, so that every line is at, below or beyond each of the limits; eight bytes hold
a line beyond the buffer followed by one that fits. `archive`: text and metadata end
before, at and behind the end of a block, and their sizes need one octal digit or two of
the two there are. `writers`: lines of zero to six bytes end a group of three
everywhere, twice, and the two bytes have every bit both ways between them; the header
has the real limits of 78 and 998, hostnames around the places where they bite, and any
small or some large ints in the uninitialised counter. `lines`: every greeting of up to
one character more than a domain may have, every argument of up to five characters over
the separators, and products of routes, local parts, domains and parameters, good and
bad, up to and over the limits. `monitor`: four receivers allow one to be stopped,
replaced, and both to die, with SIGCHLD of one pending for the other; `Die` keeps the
last pid for a successor, as the properties ask for one. Each loop may end once in the
life of its process, which is all that it can. `configuration`: every file of
five characters over those that matter, and every file of three lines of 18 kinds
(comments, unknown keys, values of several words, numbers with something behind them,
at, beyond the limit and overflowing, no value), then three receivers, so that a
successor in the midst of the exchange may die as well, with every request failing or not.

Deadlock is not checked: when the listener has stopped and the sessions have ended, the
receiver really has nothing to do, a client may stop sending, a file or a line is
complete at some time, a monitor may wait for good, and the monitors run out of pids,
which is a bound.

Fairness. In `Session`, `FairSpec` assumes weak fairness of a session's own progress
(the event loop resumes a session whose write has completed), of the completion of an
fsync, and of the delivery of a pending signal. Nothing is assumed of clients, of the
accept loop or of crashes. `EndOfDataAnswered` counts a session whose signal was dropped
(`"hung"`) as an outcome: such a session is never resumed, and that is the one way in
which it is not answered. In `Monitor` the event loop gets around to a pending signal
and to the request of a receiver of its own, and a receiver that is being configured and
that nobody has stopped gets to `listen`; nobody is assumed to continue a stopped one.
`ServesAgain` gives up (`Undisturbed`) where the monitor ended, its fork failed, a stop
has been mistaken for a death, its loop for signals or one of the two `handle_eipc` has
ended, a request for the configuration or an `accept` failed, the port is taken by a
receiver of an earlier monitor, or the monitor waits for another receiver. In
`Configuration` the monitor reads on, it goes on with the exchange when it does not wait,
and the receiver asks and takes updates that arrive: each is an event loop that handles
what is ready. Nobody is assumed to die, to be replaced, or to have a call succeed:
`GetsToListen` gives up where somebody died, a loop ended or a request failed.

## What is proved

Everything here is proved for every value of the constants, from the assumptions named
in the modules.

### The receiver

`SessionProofs`, from the three assumptions of `SessionState`:

| theorem | states |
|---|---|
| `Invariant` | `Spec => []IInv` |
| `TypeCorrect` | `[]TypeOK` |
| `Durability` | `[]AcceptedIsDurable` |
| `Ownership` | `[]FileIsOwn` |
| `Accounting` | `[]SpoolAccounted` |
| `Envelope` | `[]EnvelopeIsOwn` |
| `Untouched` | `AcceptedIsUntouched` |
| `Contents` | `[]ContentInv` |
| `Wholeness` | `[]AcceptedIsWhole` |
| `TrueVerdict` | `VerdictIsTrue` |
| `Silence` | `OnlyTellIsSilent` |
| `Refinement` | `KeepsPromise`: `Session` implements `Delivery` |

None of these is inductive by itself. `IInv` adds what the first seven rest on:

- `WellSuspended`: which `state` goes with which `pc`. Without it a session might be
  resumed by a signal in the midst of a command.
- `KnownTail`: once MAIL is accepted, what a bare RCPT can find is a recipient already,
  or the limit is reached and it is refused. The second case is real: a RCPT refused for
  its number leaves its path behind.
- `NamesUsed`: whatever has a name got it from an earlier value of boot and counter,
  which is why the next name is new.
- `SignalNames`: the pending signal names exactly the session in `"notify"`.
- `SyncKnown`: a session in `"notify"` has a synced file or a failed fsync, so the 250
  that follows is true.
- `LossKnown`: what a power failure met was a message's or nobody's, and what it left
  without data stays unsynced, so that a session never writes or promises a name that is
  lost.

The proof separates what a step does to one session from what it does to the ownership of
files. For the latter a step of a session is of one of a few kinds, each a lemma: it
leaves ownership alone (`NeutralStep`), creates its file (`CreateStep`), unlinks it
(`UnlinkStep`) or leaves it behind (`LeaveStep`); the completion of an fsync, the
acknowledgement and the two ways to a restart (`CrashStep`, `PowerFailureStep`, with what
they share in `RestartStep`) are proved on their own.

`ContentInv` adds what is in the file of a session at each await: the parts that have
been written (`PartsBefore`), the lines that the client has sent up to the one that is
being written (`LinesAreSent`), the envelope from the write of the metadata on
(`EnvelopeIsStored`); and that size and flags are those of this text (`Counted`), which
is what `VerdictIsTrue` rests on. Its proof uses of `IInv` that no other session has the
same file (`FileIsOwn`), so that a step of one session leaves what is said of every other
as it was. The refinement is then shown step by step: a completed fsync is a `Store`, or
a `Doubt` when it failed, of the content that `ContentInv` names; an acknowledgement a
promise of what is stored; a power failure a `PowerFailure`, or a stutter if it met no
file; every other step, the death of the process included, a stutter, as it neither
changes a synced file nor adds to `accepted`.

What these theorems say of durability is as much as the code does: `Durability` says that
only a power failure removes an accepted file, and that one which is there is synced, so
that no power failure can have taken a part of it. That the file is there after one, they
do not say, as its entry was never synced. `Untouched` is about everything else that
happens: it excepts the restarts themselves, of which `Durability` speaks.

### The dialogue

`DialogueProofs`, for buffers and streams of any length:

| theorem | states |
|---|---|
| `Following` | `Spec => []IInv` |
| `Types` | `[]TypeOK`: nothing is copied beyond a buffer, also beside a stray line feed |
| `Splitting` | `[]LinesAreSplit` |
| `Buffering` | `[]BufferHoldsRest` |
| `Answering` | `[]ConversationIsOfStream` |

The invariant (`IInv` of that module) says that there is a cut of the bytes that have
been used so far into lines and a rest such that the reader of the present state holds
the rest (`Reading`) and answers, flags and stored text are what the reference gives for
the lines (`Talking`). A step then moves from one cut to the next: `MoreIs` and `LineIs`
say what one call of `join` does to the rest, `CommandAnswered`, `EndAnswered` and
`TextKept` what one line more adds to the reference, which is why that is a recursion
from line to line. `Stray` never becomes false again, so that the invariant may be about
the behaviours without it; the types hold in all.

### The message file

`ArchiveProofs`, for blocks, digits, texts and metadata of any size:

| theorem | states |
|---|---|
| `Invariance` | `Spec => []Inv` |
| `Types` | `[]TypeOK` |
| `Completeness` | `[]BothFound` |
| `PlainCompleteness` | `[]PlainlyFound` |
| `Claims` | `[]FoundIsWhole` |
| `TextIsNeverMoved` | `TextStays` |

`Inv` says for each `pc` what lies where in the file (`Contents`), how long it is and
where the next write goes (`Places`), and of a file that is left that it holds nothing,
the message, or the message and the metadata, each entire (`Shape`). What the reader
finds follows from there by its recursion: the octal digits of a header are read back as
the size that they were made from, for which the sizes have to fit the digits
(`SizesFit`), and the next header is then looked for where the next one is. The hard case
is the write of a header that stays in the midst of a file: until it is written, its
place is empty, and a reader ends there.

`WritersProofs`, for any number of lines of any length and any hostname, limits and
memory:

| theorem | states |
|---|---|
| `LinesInvariant` | `Spec => []LinesInv` |
| `WithinBuffer` | `[]TypeOK`: no write beyond the buffer |
| `LinesApart` | `[]StaysInLine`: no line is encoded into the room of its terminator or of the next one |
| `Encoding64` | `[]LinesAreEncoded` |
| `NoLeak` | `[]NothingLeaks`: no uninitialised byte gets into the file |
| `MetadataAlone` | `WritersSpec => Spec`: the above holds in the run of both writers |
| `HeaderInvariant` | `WritersSpec => []HeaderInv` |
| `Unfolding` | `[]HeaderUnfolds` |
| `Folding` | `[]HeaderLinesFit` |

`LinesInv` says that a line has been encoded in whole groups (`Aligned`) or fills its
room (`Finished`), which is where the two computations of its length meet (lemma
`Room`), that before the place that is written next only terminators are missing
(`Filled`), and that what has been written has the bits of its bytes (`Faithful`). The
reference of `LinesAreEncoded` speaks of single bits; lemma `SextetOf` is the one about
the masks and shifts of a group of three.

`HeaderInv` relates the counter to the line (`Measured`): behind a fold they are the same,
up to the part that has been counted and not written. In the first line nothing is known
of them until the first part: if it is written without a fold before it, then the counter
was not below zero with it (the comparison is unsigned) nor above the limit, and from then
on the line is longer than the counter by twelve at most. The proof needs also that the
first part is `by`, and that what is written last is no gap or the one that its part asks
for (`Apart`).

### The monitor and the configuration

`MonitorProofs`, for any number of receivers, monitors and stops:

| theorem | states |
|---|---|
| `MonitorInvariant` | `Spec => []MonInv` |
| `MonitorTypes` | `[]TypeOK` |
| `One` | `[]OneReceiver` |
| `NoDeathMissed` | `[]DeathIsSeen` |

`DeathIsSeen` rests on `PendingIsWatched`: what is pending is never about another
process than the one watched, so that a signal that is dropped told nothing new. That
fails once a stopped receiver has been replaced and both live, which is why the
properties speak of the time before (`mistaken`).

`ConfigurationProofs`, for any list of keys, any file and any number of receivers:

| theorem | states |
|---|---|
| `ConfigurationInvariant` | `Spec => []ConfigurationInv` |
| `ListensWhole` | `[]ListensAsConfigured` |
| `DeafOnlyByLoss` | `[]DeafByLoss` |
| `Types` | `[]AllTypeOK` |
| `ReadsLineByLine` | `[]StoreIsFile` |

`ExchangeInv` says that one update is under way at a time and is the one that is awaited
(`OneAtATime`), that a receiver that has not asked is not served (`AskedFirst`), and
that the one that is served has every key before the next unless a request failed
(`Told`). `AskedFirst` is what
makes it true across deaths: the keys that a successor gets for its predecessor's
request do not count for it, but its own request is only taken after that one has been
answered, and then all keys are sent again. A step of the exchange leaves the store as it
is, so that what an update holds (`Dump`) is the same before and after it (`SameDump`).

`ReadsLineByLine` relates a reader of characters to a reading of lines. Lemma
`PairIsLine` says of a plain file that the four loops of `get_config_pair`, from the end
of a line, find the first word of the next line that has one and the rest of that line,
and pass over blank lines only. `FileInv` then says that the reader is between two lines
(`Between`) and that the store holds for each key the value of its last line before that
place (`UpTo`).

### The command lines

`CommandLineProofs`, for lines of any length over any characters:

| theorem | states |
|---|---|
| `LinesAreRead` | `Spec => []LineRead` |
| `LineTypes` | `[]TypeOK` |
| `GreetingsAreDomains` | `[]GreetingIsDomain` |
| `PathsGrammatical` | `[]PathsAreGrammatical` |
| `PathsAreMeant` | `[]PathIsMeant` |

The invariant is short: what is stored is what the parsers return for the line, and MAIL
has passed over parameters only, so that those which are left decide as all of them do
(`ParamsAt` of `path.rest` and of `cmd`). The work is in what the parsers return. Each has
a lemma that says so of any place of any text: `DomainEnds`, `InsideEnds`, `QuotedEnds`,
`LocalEnds`, `AtDomainEnds`, `ADLEnds`, `MailboxEnds`, `PathEnds`, `ReversePathEnds`,
`ParamEnds`; that is, where it ends, and that it ends there exactly if the piece up to
there is of the grammar. The grammar speaks of texts and the parsers of places, so that
each part of the grammar is first restated for the places of a longer text (`DottedPiece`,
`QuotedPiece`, `RoutePiece`, `PartsPiece`, `ParamsPiece`, `ParamPiece`).

Two points a reviewer of the code would ask about are settled there. `mailbox` does not
look whether its source route was malformed: the place is then `Bad`, and no local part
starts at it (`LocalEnds`). And no parser ever goes back: a line has at most one path,
although RCPT takes any line that starts with one, because the characters behind a local
part, a domain and a route are in no word (`Marks`, `LocalBefore`, `DomainBefore`,
`LocalStart`).

For `PathsAreMeant`, `CopyEnds` says that from an unescaped place on the copy of a quoted
string has what is meant there, in order (`Spells`, by `SpellsMore` one character at a
time); and `BufferEnds` that it fits, as what is meant is no more than the text.

### How recursion is proved about

The references and several helpers are recursive functions. The provers cannot
instantiate the library's induction theorems, which are about an operator; but its
theorem on minimal elements of a well-founded relation is about a set. `SetInduction`
derives from it that a set with 0 and with the successor of each of its elements is
`Nat`, and the proofs use that for sets of numbers that a statement holds for: to show
that the equation of a recursive function has a solution, that it has no other, and then
whatever is said of its values. The parsers recur towards the end of the text: `JumpsEnd`
says once for all of them that a recursion which goes on only at later places has a
solution, and `Downward` that what holds of a place as soon as it holds of all behind it
holds of all.

### What is only model-checked

The liveness properties `EndOfDataAnswered`, `ServesAgain` and `GetsToListen`, which rest
on fairness and are out of the prover's reach. Every safety property that a passing run
checks is proved.

## Findings

`LocalErrorIsReal` (run `error`) says of 451 what `smtp/types.hpp:42` says, "Requested
action aborted: local error in processing": at the line that ends the data it means that
a write of this message failed. It is violated. `data()` clears the other flags but not
`_data_error`, and the constructor does not set it, so after one failed message, or with
a nonzero byte in the memory of a new session, every message of that session is dropped
and answered 451.

`ReplacedIsDead` (run `stopped`) says of a receiver that is replaced what the log says
of it at `monitor.cpp:38`, "terminated". It is violated: `signal` does not look at what
`waitpid` returned, so a receiver that was stopped, or continued, is forgotten and a
second one forked. The trace ends there; that the second one, if the first has the port,
fails to bind (`smtp/src/main.cpp:85`) and stays idle is in the code and in `Listen`.
`OneReceiver`, `DeathIsSeen` and `ServesAgain` hold until that has happened
(`mistaken`).

Noted while modelling, with no statement in the repository to hold against them: a
failed tellg aborts without an answer; a lost connection or a failed `open_files` leaves
a file behind that nothing marks as incomplete (`SpoolAccounted` names exactly these);
an fsync that fails asynchronously is answered 250; the entry of a file in `./ingoing/`
is never synced, so that a power failure may take a message that was answered 250; a
coalesced SIGIO leaves a session suspended for good; a failed accept ends the loop, as a
failed `signal.get` does that of the monitor, which then starts no receiver any more,
and a failed `recv_request` either `handle_eipc`; the greeting domain is missing from
the second message of a session; a text of whole blocks is followed by an empty block,
at which some readers of the archive stop, and no archive ends with the two empty blocks
that tar expects; a failed fork is never tried again; a monitor that ends leaves its
receiver on the port, and the receiver of the next monitor stays idle. Of the
configuration: `ensure` comes after the exchange has set every key, so that a missing
hostname is never noticed, and the default of a string is dumped by assigning a
`std::string` into the message buffer; a value too long for the message is replaced by
what was in memory; the result of `request_async` is looked at by neither side, so that
a key is left out, or a receiver listens without its configuration; a number beyond
`size_t` leaves an uninitialised value; a comment of one word and a key without a value
take the next line with them. Of the writers and parsers: the first line of the trace
header may be longer than `preffered_line_length`, as its length starts from whatever
memory held, but by twelve characters at most; RCPT ignores what follows the path; EHLO
accepts nothing at all, a dot at the end and anything behind the domain; `mailbox` does
not look whether its source route was malformed, which turns out to make no difference,
as what is parsed then cannot be a local part; the check for a hyphen in a domain is
never reached.

## Not modelled

- The *log* (`common/src/log.cpp`): output without state.
- The *adapters* to libeaio and libeipc (`common/src/ipc.cpp`, parts of `io.cpp` and
  both `main.cpp`): their libraries are not part of the repository. What they are
  assumed to do is named above.
- `look`, which only a test calls, and `base64_decode`, which returns 0 and is called by
  nothing.
- The *debug mode* of the monitor, in which the receiver is a thread, and monitors with
  more than one entry, of which `main_async` makes none.
- `FUNC_RELOADCONFIG`, which is declared and used nowhere.
- The *setting up of the socket*: its failures are the `"idle"` of `Monitor`.
- The *wording* of replies, and those that no property tells apart.
- Counters that overflow after 2 GiB (the offset of `join` is an `int`), and failures of
  tellg and seekg in `finish_data` after the first, which on an open regular file do not
  happen.

## Plan

All components with state of their own are modelled, and all the safety properties that
the passing runs check are proved. The liveness properties stay with TLC, as said above.
What would come next is the rest of the monitor (its debug mode) if it is ever used, and a
second entry in it, which the code provides for but does not make.
