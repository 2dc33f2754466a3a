---------------------------- MODULE Configuration ----------------------------
(***************************************************************************)
(* The configuration from ./config to the receiver: the monitor reads the   *)
(* file (ConfigFile) before it starts a receiver and answers it             *)
(* (ConfigExchange); both use the one store of main_async.                  *)
(***************************************************************************)
EXTENDS ConfigFile

CONSTANTS KeyList, Hostname, DataSize, Default, Garbage, MaxBoots

VARIABLES
  up, answering, reads, serving, next, awaiting, ack, update,
  boot, receiver, handling, local, missed

exchange ==
  <<up, answering, reads, serving, next, awaiting, ack, update, boot, receiver, handling,
    local, missed>>

allVars == <<vars, exchange>>

Sent == {KeyList[i] : i \in DOMAIN KeyList}

X == INSTANCE ConfigExchange WITH
  config <- [k \in Sent |-> config[k]],
  Strings <- {k \in Sent : Type[k] = "string"},
  pc <- receiver

ASSUME ExchangeAssumption == Sent \subseteq Names /\ X!Sensible

AllTypeOK == TypeOK /\ X!TypeOK

ConfigurationInit == Init /\ X!Init

ReadFile == Reload /\ UNCHANGED exchange

(* With the store filled the buffer is freed, and handle_eipc and the       *)
(* receiver are started.                                                    *)
Serve ==
  /\ pc = "done"
  /\ pc' = "serving"
  /\ file' = <<>> /\ offset' = 0
  /\ UNCHANGED <<config, exchange>>

Exchange == pc = "serving" /\ UNCHANGED vars /\ X!Next

Next == ReadFile \/ Serve \/ Exchange

Spec == ConfigurationInit /\ [][Next]_allVars

(* A loop that is not waiting for anything goes on, and both event loops    *)
(* handle what arrives.                                                     *)
Handled(A) == pc = "serving" /\ UNCHANGED vars /\ A

FairSpec ==
  /\ Spec
  /\ WF_allVars(ReadFile \/ Serve)
  /\ WF_allVars(Handled(X!TakeRead \/ X!SendKey \/ X!TakeAck \/ X!Respond))
  /\ WF_allVars(Handled(X!Ask \/ X!Set))

-----------------------------------------------------------------------------
(* A receiver listens with the whole configuration, although it may have    *)
(* been started in the midst of the exchange with its predecessor, unless a *)
(* request of its own exchange has failed.                                  *)
ListensAsConfigured == X!ListensAsConfigured

(* The monitor waits in vain only for a receiver that has died, or whose    *)
(* handle_eipc has ended.                                                   *)
DeafByLoss == X!DeafByLoss

(* If the file can be read the monitor gets through it, whatever it holds,  *)
(* and a receiver that asks gets to listen, unless it dies, a loop for its  *)
(* requests ends, a request fails, or the monitor crashed or waits for one  *)
(* that died before.                                                        *)
GetsToListen ==
  /\ <>(\/ pc = "failed" \/ receiver \in {"listening", "dead"} \/ boot > 1
        \/ missed \/ ~handling \/ ~answering \/ ~up)
  /\ receiver = "asking" ~> (receiver # "asking" \/ X!Deaf \/ ~answering \/ ~up)

=============================================================================
