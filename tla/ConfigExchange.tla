--------------------------- MODULE ConfigExchange ---------------------------
(***************************************************************************)
(* How a receiver gets its configuration: it asks the monitor for its keys  *)
(* and waits; the monitor sends them one by one and waits for each to be    *)
(* acknowledged (handle_eipc of main/src/main.cpp and of smtp/src/main.cpp, *)
(* start and listen, and the dump and set by id of config.hpp).  A receiver *)
(* that dies is replaced, and its successor asks again.                     *)
(*                                                                         *)
(* A recv_request that fails ends the handle_eipc that made it, for good;   *)
(* nobody looks at a request_async that fails.  Of libeipc it is assumed    *)
(* that a request that fails has not arrived, that requests and responses   *)
(* arrive in order, that a response reaches a process that lives, resumes   *)
(* the request that it belongs to and no other, and that what is under way  *)
(* to a process that dies, or that nobody takes there, is lost.             *)
(***************************************************************************)
EXTENDS Naturals, Sequences

CONSTANTS
  KeyList,   \* local_config::key_list: the keys of the receiver, in order
  Hostname,  \* the key that has no default
  Strings,   \* the keys whose values are strings
  DataSize,  \* sizeof(config_update::data)
  Default,   \* default_value of a key
  Garbage,   \* what is in memory that was not written
  Unset,     \* an entry without a value
  MaxBoots   \* bound: receivers that are started

Keys == {KeyList[i] : i \in DOMAIN KeyList}

(* What is assumed of them.                                                 *)
Sensible ==
  /\ KeyList \in Seq(Keys) /\ Hostname \in Strings /\ Strings \subseteq Keys
  /\ \A i, j \in DOMAIN KeyList : i # j => KeyList[i] # KeyList[j]
  /\ DOMAIN Default = Keys /\ \A k \in Keys : Default[k] # Unset
  /\ DataSize \in Nat /\ MaxBoots \in Nat \ {0} /\ Garbage # Unset

VARIABLES
  config,    \* the monitor's store: read from the file, never changed
  up,        \* the monitor runs
  answering, \* its handle_eipc
  reads,     \* FUNC_READCONFIG requests that wait for the monitor, by receiver
  serving,   \* the receiver whose request the monitor works on, or 0
  next,      \* the place of the next key in its list
  awaiting,  \* the monitor waits for an acknowledgement
  ack,       \* the acknowledgement is under way
  update,    \* the FUNC_WRITECONFIGKEY that is under way, or None
  boot,      \* the receiver, by the number of its start
  pc,        \* what it does
  handling,  \* its handle_eipc runs
  local,     \* its store
  missed     \* history: a request for its configuration has failed

vars ==
  <<config, up, answering, reads, serving, next, awaiting, ack, update, boot, pc, handling,
    local, missed>>

monitorVars == <<up, answering, reads, serving, next, awaiting>>

None == <<>>

(* What the receiver may be told of a key: nothing of another key.          *)
Origins(k) == {config[k], Default[k], Garbage}

TypeOK ==
  /\ DOMAIN config = Keys
  /\ up \in BOOLEAN /\ answering \in BOOLEAN
  /\ reads \in Seq(1 .. MaxBoots)
  /\ serving \in 0 .. MaxBoots
  /\ next \in 1 .. Len(KeyList) + 1
  /\ awaiting \in BOOLEAN /\ ack \in BOOLEAN
  /\ update # None => update.key \in Keys /\ update.value \in Origins(update.key)
  /\ boot \in 1 .. MaxBoots
  /\ pc \in {"starting", "asking", "listening", "silent", "dead"}
  /\ handling \in BOOLEAN /\ missed \in BOOLEAN
  /\ DOMAIN local = Keys /\ \A k \in Keys : local[k] \in Origins(k) \cup {Unset}

Init ==
  /\ up = TRUE /\ answering = TRUE
  /\ reads = <<>> /\ serving = 0 /\ next = 1 /\ awaiting = FALSE
  /\ ack = FALSE /\ update = None
  /\ boot = 1 /\ pc = "starting" /\ handling = TRUE
  /\ local = [k \in Keys |-> Unset] /\ missed = FALSE

-----------------------------------------------------------------------------
(* The monitor *)

(* The value of the file, or the default, where it can be sent.             *)
Certain(k) == k \in Strings => config[k] # Unset /\ Len(config[k]) < DataSize

(* What dump leaves in update.data.  A string that does not fit is not      *)
(* written, and dump says so to nobody: the memory keeps what it held.  The *)
(* default of a string is assigned to that memory as if it were a string.   *)
Dump(k) ==
  CASE ~Certain(k)                        -> Garbage
    [] Certain(k) /\ config[k] = Unset    -> Default[k]
    [] OTHER                              -> config[k]

TakeRead ==
  /\ up /\ answering /\ serving = 0 /\ reads # <<>>
  /\ serving' = Head(reads)
  /\ reads' = Tail(reads)
  /\ next' = 1
  /\ UNCHANGED <<config, up, answering, awaiting, ack, update, boot, pc, handling, local,
                 missed>>

(* The recv_request between two requests fails.                             *)
AnsweringEnds ==
  /\ up /\ answering /\ serving = 0
  /\ answering' = FALSE
  /\ UNCHANGED <<config, up, reads, serving, next, awaiting, ack, update, boot, pc, handling,
                 local, missed>>

LastLeftOut == next < Len(KeyList)  \* mutant: the last key is not sent

More == next <= Len(KeyList)

(* The update goes to whatever receiver there is, not to the one that asked.*)
(* Before it has bound its endpoint, after its death and after the end of   *)
(* its handle_eipc nobody takes it.                                         *)
Reachable == pc \in {"asking", "listening", "silent"} /\ handling

SendKey ==
  /\ up /\ serving # 0 /\ ~awaiting /\ More
  /\ LET k == KeyList[next]
     IN \/ /\ awaiting' = TRUE  \* sent, or lost
           /\ update' = IF Reachable THEN [key |-> k, value |-> Dump(k)] ELSE update
           /\ UNCHANGED <<up, next, missed>>
        \/ /\ next' = next + 1  \* the request fails
           /\ missed' = (missed \/ serving = boot)
           /\ UNCHANGED <<up, awaiting, update>>
        \/ /\ config[k] = Unset /\ k \in Strings  \* the assignment crashes
           /\ up' = FALSE
           /\ UNCHANGED <<next, awaiting, update, missed>>
  /\ UNCHANGED <<config, answering, reads, serving, ack, boot, pc, handling, local>>

TakeAck ==
  /\ up /\ awaiting /\ ack
  /\ ack' = FALSE
  /\ awaiting' = FALSE
  /\ next' = next + 1
  /\ UNCHANGED <<config, up, answering, reads, serving, update, boot, pc, handling, local,
                 missed>>

(* listen: only ensure tells a hostname that was set from one that was not. *)
Listening(store) == IF store[Hostname] # Unset THEN "listening" ELSE "silent"

(* The response resumes the receiver that asked, if it is still there.      *)
Answer ==
  pc' = IF serving = boot /\ pc = "asking" THEN Listening(local) ELSE pc

Respond ==
  /\ up /\ serving # 0 /\ ~awaiting /\ ~More
  /\ serving' = 0
  /\ next' = 1
  /\ Answer
  /\ UNCHANGED <<config, up, answering, reads, awaiting, ack, update, boot, handling, local,
                 missed>>

-----------------------------------------------------------------------------
(* The receiver *)

(* start: the handler of updates is spawned before the request is made.  If *)
(* that fails it goes on to listen at once, with what it has been told.     *)
Ask ==
  /\ pc = "starting"
  /\ \/ /\ pc' = "asking"
        /\ reads' = IF up THEN Append(reads, boot) ELSE reads
        /\ UNCHANGED missed
     \/ /\ pc' = Listening(local)
        /\ missed' = TRUE
        /\ UNCHANGED reads
  /\ UNCHANGED <<config, up, answering, serving, next, awaiting, ack, update, boot, handling,
                 local>>

SilentSet == ack' = (ack \/ update.key \notin Strings)  \* mutant: strings are not acknowledged

Acknowledge == ack' = TRUE

Set ==
  /\ update # None /\ Reachable
  /\ local' = [local EXCEPT ![update.key] = update.value]
  /\ update' = None
  /\ Acknowledge
  /\ UNCHANGED <<config, monitorVars, boot, pc, handling, missed>>

(* A recv_request fails, whatever is under way.                             *)
HandlerEnds ==
  /\ Reachable
  /\ handling' = FALSE
  /\ update' = None
  /\ UNCHANGED <<config, monitorVars, ack, boot, pc, local, missed>>

-----------------------------------------------------------------------------
(* The receiver dies, and the monitor starts another.                       *)
Die ==
  /\ pc # "dead"
  /\ pc' = "dead"
  /\ update' = None
  /\ UNCHANGED <<config, monitorVars, ack, boot, handling, local, missed>>

Restart ==
  /\ up /\ pc = "dead" /\ boot < MaxBoots
  /\ boot' = boot + 1
  /\ pc' = "starting"
  /\ handling' = TRUE
  /\ local' = [k \in Keys |-> Unset]
  /\ missed' = FALSE
  /\ UNCHANGED <<config, monitorVars, ack, update>>

Next ==
  \/ TakeRead \/ SendKey \/ TakeAck \/ Respond \/ AnsweringEnds
  \/ Ask \/ Set \/ HandlerEnds \/ Die \/ Restart

-----------------------------------------------------------------------------
Effective(k) == IF config[k] = Unset THEN Default[k] ELSE config[k]

(* A receiver listens with the whole configuration, although it may have    *)
(* been started in the midst of the exchange with its predecessor, unless a *)
(* request of its own exchange has failed.                                  *)
ListensAsConfigured ==
  pc = "listening" /\ ~missed =>
    \A k \in Keys : local[k] # Unset /\ (Certain(k) => local[k] = Effective(k))

(* No acknowledgement will come for what the monitor waits for.             *)
Deaf == awaiting /\ ~ack /\ update = None

(* The monitor waits in vain only for a receiver that has died, or whose    *)
(* handle_eipc has ended.                                                   *)
DeafByLoss == Deaf => boot > serving \/ pc = "dead" \/ ~handling

=============================================================================
