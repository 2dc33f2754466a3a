------------------------- MODULE ConfigurationProofs -------------------------
(***************************************************************************)
(* That a receiver listens only with its whole configuration, that the      *)
(* monitor waits in vain only for a receiver that has died or no longer     *)
(* takes requests, and that the store is what the file says line by line:   *)
(* whatever the file says, whatever the keys are, and however many          *)
(* receivers there have been.                                               *)
(***************************************************************************)
EXTENDS Configuration, SetInduction

-----------------------------------------------------------------------------
(* The exchange *)

(* Who asks is a receiver that has been started.                            *)
Numbered ==
  /\ boot \in Nat \ {0} /\ serving \in 0 .. boot
  /\ reads \in Seq(1 .. boot)
  /\ next \in 1 .. Len(KeyList) + 1
  /\ awaiting \in BOOLEAN /\ ack \in BOOLEAN
  /\ receiver \in {"starting", "asking", "listening", "silent", "dead"}
  /\ handling \in BOOLEAN /\ missed \in BOOLEAN
  /\ DOMAIN local = X!Keys

(* One update at a time is under way, and its acknowledgement is the one    *)
(* that is awaited.                                                         *)
OneAtATime ==
  /\ ack => awaiting /\ update = X!None
  /\ awaiting => serving # 0 /\ X!More
  /\ update # X!None =>
       awaiting /\ update = [key |-> KeyList[next], value |-> X!Dump(KeyList[next])]

(* A receiver that has not asked is not served yet.                         *)
AskedFirst ==
  receiver = "starting" => serving # boot /\ \A i \in DOMAIN reads : reads[i] # boot

(* The receiver that is served has every key before the next, if none of    *)
(* the requests failed.                                                     *)
Told ==
  /\ \A k \in X!Keys : local[k] \in {Unset, X!Dump(k)}
  /\ serving = boot /\ receiver = "asking" /\ ~missed =>
       /\ \A i \in 1 .. next - 1 : local[KeyList[i]] # Unset
       /\ ack => local[KeyList[next]] # Unset
  /\ receiver = "listening" /\ ~missed => \A k \in X!Keys : local[k] # Unset

ExchangeInv == Numbered /\ OneAtATime /\ AskedFirst /\ Told /\ X!DeafByLoss

-----------------------------------------------------------------------------
(* Constants *)

(* Every key has a place in the list.                                       *)
LEMMA KeysAreListed ==
  /\ Len(KeyList) \in Nat /\ DOMAIN KeyList = 1 .. Len(KeyList)
  /\ \A i \in 1 .. Len(KeyList) : KeyList[i] \in X!Keys
  /\ \A k \in X!Keys : \E i \in 1 .. Len(KeyList) : KeyList[i] = k
<1>1. KeyList \in Seq(X!Keys)
  BY ExchangeAssumption DEF X!Sensible
<1>2. Len(KeyList) \in Nat /\ DOMAIN KeyList = 1 .. Len(KeyList)
  BY <1>1
<1>3. QED
  BY <1>2 DEF X!Keys

(* What is sent of a key is never an entry without a value.                 *)
LEMMA DumpIsSet == ASSUME NEW k \in X!Keys PROVE X!Dump(k) # Unset
  BY ExchangeAssumption DEF X!Dump, X!Sensible

(* A value that can be sent is sent.                                        *)
LEMMA DumpIsEffective ==
  ASSUME NEW k \in X!Keys, X!Certain(k) PROVE X!Dump(k) = X!Effective(k)
  BY DEF X!Dump, X!Effective

(* An update can be told from none.                                         *)
LEMMA UpdateIsSomething == \A k, v : [key |-> k, value |-> v] # X!None
<1> SUFFICES ASSUME NEW k, NEW v, [key |-> k, value |-> v] = <<>> PROVE FALSE
  BY DEF X!None
<1>1. DOMAIN [key |-> k, value |-> v] = {"key", "value"} /\ DOMAIN <<>> = 1 .. 0
  OBVIOUS
<1>2. QED
  BY <1>1

(* The receiver that is served is not a later one.                          *)
LEMMA Order == Numbered => serving \in Nat /\ boot \in Nat /\ (boot > serving \/ boot = serving)
  BY DEF Numbered

(* The configuration does not change.                                       *)
LEMMA SameDump == ASSUME UNCHANGED config, NEW k PROVE X!Dump(k)' = X!Dump(k)
  BY DEF X!Dump, X!Certain

-----------------------------------------------------------------------------
(* The steps *)

(* handle_eipc takes a request: no key has been sent for it yet.            *)
LEMMA TakeReadStep == ASSUME ExchangeInv, UNCHANGED config, X!TakeRead PROVE ExchangeInv'
<1> USE KeysAreListed DEF ExchangeInv
<1>1. reads # <<>> /\ Head(reads) \in 1 .. boot /\ Tail(reads) \in Seq(1 .. boot)
      /\ \A i \in DOMAIN Tail(reads) : Tail(reads)[i] = reads[i + 1] /\ i + 1 \in DOMAIN reads
  BY DEF X!TakeRead, Numbered
<1>2. ~awaiting /\ ~ack /\ update = X!None
  BY DEF X!TakeRead, OneAtATime
<1>3. Numbered'
  BY <1>1 DEF X!TakeRead, Numbered
<1>4. OneAtATime'
  BY <1>2 DEF X!TakeRead, OneAtATime
<1>5. AskedFirst'
  <2>1. Head(reads) = reads[1] /\ 1 \in DOMAIN reads
    BY <1>1 DEF Numbered
  <2>2. QED
    BY <1>1, <2>1 DEF X!TakeRead, AskedFirst
<1>6. Told'
  BY <1>2, SameDump DEF X!TakeRead, Told
<1>7. X!DeafByLoss'
  BY <1>2 DEF X!TakeRead, X!DeafByLoss, X!Deaf
<1>8. QED
  BY <1>3, <1>4, <1>5, <1>6, <1>7

(* Between two requests handle_eipc may end.                                *)
LEMMA AnsweringEndsStep ==
  ASSUME ExchangeInv, UNCHANGED config, X!AnsweringEnds
  PROVE  ExchangeInv'
<1>1. UNCHANGED <<reads, serving, next, awaiting, ack, update, boot, receiver, handling, local,
                 missed>>
  BY DEF X!AnsweringEnds
<1>2. QED
  BY <1>1, SameDump DEF ExchangeInv, Numbered, OneAtATime, AskedFirst, Told, X!DeafByLoss,
                        X!Deaf, X!More

(* The update of the next key, which may find nobody who takes it, or fail. *)
LEMMA SendKeyStep == ASSUME ExchangeInv, UNCHANGED config, X!SendKey PROVE ExchangeInv'
<1> USE KeysAreListed DEF ExchangeInv
<1>1. /\ serving # 0 /\ ~awaiting /\ ~ack /\ update = X!None /\ X!More
      /\ UNCHANGED <<reads, serving, ack, boot, receiver, handling, local>>
  BY DEF X!SendKey, OneAtATime
<1>2. next \in 1 .. Len(KeyList) /\ KeyList[next] \in X!Keys
  BY <1>1 DEF X!More, Numbered
<1>3. AskedFirst'
  BY <1>1 DEF AskedFirst
<1>4. CASE /\ X!Reachable
           /\ update' = [key |-> KeyList[next], value |-> X!Dump(KeyList[next])]
           /\ awaiting' = TRUE /\ UNCHANGED <<up, next, missed>>
  <2>1. Numbered' /\ OneAtATime' /\ Told'
    BY <1>1, <1>4, SameDump DEF Numbered, OneAtATime, Told, X!More
  <2>2. update' # X!None
    BY <1>4, UpdateIsSomething
  <2>3. X!DeafByLoss'
    BY <2>2 DEF X!DeafByLoss, X!Deaf
  <2>4. QED
    BY <1>3, <2>1, <2>3
<1>5. CASE ~X!Reachable /\ awaiting' = TRUE /\ UNCHANGED <<up, next, missed, update>>
  <2>1. Numbered' /\ OneAtATime' /\ Told'
    BY <1>1, <1>5, SameDump DEF Numbered, OneAtATime, Told, X!More
  <2>2. X!DeafByLoss'
    <3>1. Numbered /\ (boot > serving \/ boot = serving)
      BY Order
    <3>2. receiver \in {"starting", "dead"} \/ ~handling
      BY <1>5 DEF X!Reachable, Numbered
    <3>3. receiver' = receiver /\ boot' = boot /\ serving' = serving /\ handling' = handling
      BY <1>1
    <3>4. QED
      BY <3>1, <3>2, <3>3 DEF X!DeafByLoss, AskedFirst
  <2>3. QED
    BY <1>3, <2>1, <2>2
<1>6. CASE next' = next + 1 /\ missed' = (missed \/ serving = boot) /\ UNCHANGED <<up, awaiting, update>>
  <2>1. next' \in 1 .. Len(KeyList) + 1
    BY <1>2, <1>6
  <2>2. Numbered' /\ OneAtATime'
    BY <1>1, <1>6, <2>1 DEF Numbered, OneAtATime
  <2>3. Told'
    BY <1>1, <1>6, SameDump DEF Told
  <2>4. X!DeafByLoss'
    BY <1>1, <1>6 DEF X!DeafByLoss, X!Deaf
  <2>5. QED
    BY <1>3, <2>2, <2>3, <2>4
<1>7. CASE up' = FALSE /\ UNCHANGED <<next, awaiting, update, missed>>
  <2>1. Numbered' /\ OneAtATime' /\ Told' /\ X!DeafByLoss'
    BY <1>1, <1>7, SameDump DEF Numbered, OneAtATime, Told, X!DeafByLoss, X!Deaf, X!More
  <2>2. QED
    BY <1>3, <2>1
<1>8. QED
  BY <1>4, <1>5, <1>6, <1>7 DEF X!SendKey

(* The key that was awaited is set, so that the next one may follow.        *)
LEMMA TakeAckStep == ASSUME ExchangeInv, UNCHANGED config, X!TakeAck PROVE ExchangeInv'
<1> USE KeysAreListed DEF ExchangeInv
<1>1. /\ ack /\ update = X!None /\ X!More /\ ack' = FALSE /\ awaiting' = FALSE /\ next' = next + 1
      /\ UNCHANGED <<reads, serving, update, boot, receiver, handling, local,
                     missed>>
  BY DEF X!TakeAck, OneAtATime
<1>2. next \in 1 .. Len(KeyList)
  BY <1>1 DEF X!More, Numbered
<1>3. Numbered' /\ AskedFirst' /\ X!DeafByLoss'
  <2>1. next' \in 1 .. Len(KeyList) + 1
    BY <1>1, <1>2
  <2>2. Numbered'
    BY <1>1, <2>1 DEF Numbered
  <2>3. AskedFirst' /\ X!DeafByLoss'
    BY <1>1 DEF AskedFirst, X!DeafByLoss, X!Deaf
  <2>4. QED
    BY <2>2, <2>3
<1>4. OneAtATime'
  BY <1>1 DEF OneAtATime
<1>5. Told'
  <2>1. \A i \in 1 .. next' - 1 : i \in 1 .. next - 1 \/ i = next
    BY <1>1, <1>2
  <2>2. QED
    BY <1>1, <2>1, SameDump DEF Told
<1>6. QED
  BY <1>3, <1>4, <1>5

(* The response comes after the last key, and only for who has asked.       *)
LEMMA RespondStep == ASSUME ExchangeInv, UNCHANGED config, X!Respond PROVE ExchangeInv'
<1> USE KeysAreListed DEF ExchangeInv
<1>1. /\ serving # 0 /\ ~awaiting /\ ~ack /\ update = X!None /\ ~X!More
      /\ serving' = 0 /\ next' = 1
      /\ UNCHANGED <<reads, awaiting, ack, update, boot, handling, local, missed>>
  BY DEF X!Respond, OneAtATime
<1>2. /\ receiver' = "starting" => receiver = "starting"
      /\ receiver' = "asking" => receiver = "asking" /\ serving # boot
      /\ receiver = "dead" => receiver' = "dead"
      /\ receiver' = "listening" => receiver = "listening" \/ (serving = boot /\ receiver = "asking")
      /\ receiver' \in {receiver, "listening", "silent"}
  <2>1. receiver' = IF serving = boot /\ receiver = "asking" THEN X!Listening(local) ELSE receiver
    BY DEF X!Respond, X!Answer
  <2>2. X!Listening(local) \in {"listening", "silent"}
    BY DEF X!Listening
  <2>3. CASE serving = boot /\ receiver = "asking"
    BY <2>1, <2>2, <2>3
  <2>4. CASE ~(serving = boot /\ receiver = "asking")
    <3>1. receiver' = receiver
      BY <2>1, <2>4
    <3>2. QED
      BY <3>1, <2>4
  <2>5. QED
    BY <2>3, <2>4
<1>3. Numbered' /\ OneAtATime' /\ X!DeafByLoss'
  BY <1>1, <1>2 DEF Numbered, OneAtATime, X!DeafByLoss, X!Deaf
<1>4. AskedFirst'
  BY <1>1, <1>2 DEF AskedFirst, Numbered
<1>5. Told'
  <2>1. receiver' = "listening" /\ ~missed => \A k \in X!Keys : local[k] # Unset
    <3>1. next - 1 = Len(KeyList)
      BY <1>1 DEF Numbered, X!More
    <3>2. QED
      BY <1>2, <3>1 DEF Told
  <2>2. serving' # boot'
    BY <1>1 DEF Numbered
  <2>3. QED
    BY <1>1, <2>1, <2>2, SameDump DEF Told
<1>6. QED
  BY <1>3, <1>4, <1>5

(* A receiver that asks has not been served; one that cannot ask has missed *)
(* its configuration.                                                       *)
LEMMA AskStep == ASSUME ExchangeInv, UNCHANGED config, X!Ask PROVE ExchangeInv'
<1> USE KeysAreListed DEF ExchangeInv
<1>1. /\ receiver = "starting" /\ serving # boot
      /\ UNCHANGED <<serving, next, awaiting, ack, update, boot, handling, local>>
  BY DEF X!Ask, AskedFirst
<1>2. \/ receiver' = "asking" /\ UNCHANGED missed
      \/ receiver' \in {"listening", "silent"} /\ missed' = TRUE
  BY DEF X!Ask, X!Listening
<1>3. reads' \in Seq(1 .. boot)
  <2>1. reads \in Seq(1 .. boot) /\ boot \in 1 .. boot
    BY DEF Numbered
  <2>2. reads' = Append(reads, boot) \/ reads' = reads
    BY DEF X!Ask
  <2>3. Append(reads, boot) \in Seq(1 .. boot)
    BY <2>1
  <2>4. QED
    BY <2>1, <2>2, <2>3
<1>4. Numbered'
  BY <1>1, <1>2, <1>3 DEF Numbered
<1>5. OneAtATime' /\ AskedFirst'
  BY <1>1, <1>2, SameDump DEF OneAtATime, AskedFirst, X!More
<1>6. Told' /\ X!DeafByLoss'
  BY <1>1, <1>2, SameDump, Order DEF Told, X!DeafByLoss, X!Deaf
<1>7. QED
  BY <1>4, <1>5, <1>6

(* An update sets the key that is awaited, to what dump wrote.              *)
LEMMA SetStep == ASSUME ExchangeInv, UNCHANGED config, X!Set PROVE ExchangeInv'
<1> USE KeysAreListed DEF ExchangeInv
<1>1. /\ awaiting /\ X!More /\ update.key = KeyList[next] /\ update.value = X!Dump(KeyList[next])
      /\ local' = [local EXCEPT ![KeyList[next]] = X!Dump(KeyList[next])]
      /\ update' = X!None /\ ack' = TRUE
      /\ UNCHANGED <<reads, serving, next, awaiting, boot, receiver, handling, missed>>
  <2>1. /\ update # X!None /\ update' = X!None
        /\ local' = [local EXCEPT ![update.key] = update.value]
        /\ UNCHANGED <<reads, serving, next, awaiting, boot, receiver, handling, missed>>
    BY DEF X!Set, X!monitorVars
  <2>2. ack' = TRUE
    BY DEF X!Set, X!Acknowledge
  <2>3. /\ awaiting /\ X!More
        /\ update = [key |-> KeyList[next], value |-> X!Dump(KeyList[next])]
    BY <2>1 DEF OneAtATime
  <2>4. QED
    BY <2>1, <2>2, <2>3
<1>2. KeyList[next] \in X!Keys /\ X!Dump(KeyList[next]) # Unset
  BY <1>1, DumpIsSet DEF X!More, Numbered
<1>3. Numbered' /\ OneAtATime' /\ AskedFirst' /\ X!DeafByLoss'
  BY <1>1 DEF Numbered, OneAtATime, AskedFirst, X!DeafByLoss, X!Deaf, X!More
<1>4. \A k \in X!Keys : local'[k] = IF k = KeyList[next] THEN X!Dump(KeyList[next]) ELSE local[k]
  BY <1>1 DEF Numbered
<1>5. Told'
  <2>1. \A i \in 1 .. next - 1 : KeyList[i] \in X!Keys
    <3>1. \A i \in 1 .. next - 1 : i \in 1 .. Len(KeyList)
      BY DEF Numbered
    <3>2. QED
      BY <3>1, KeysAreListed
  <2>2. QED
    BY <1>1, <1>2, <1>4, <2>1, SameDump DEF Told
<1>6. QED
  BY <1>3, <1>5

(* What is under way to a handle_eipc that ends is not taken.               *)
LEMMA HandlerEndsStep ==
  ASSUME ExchangeInv, UNCHANGED config, X!HandlerEnds
  PROVE  ExchangeInv'
<1> USE DEF ExchangeInv
<1>1. /\ handling' = FALSE /\ update' = X!None
      /\ UNCHANGED <<reads, serving, next, awaiting, ack, boot, receiver, local, missed>>
  BY DEF X!HandlerEnds, X!monitorVars
<1>2. QED
  BY <1>1, SameDump DEF Numbered, OneAtATime, AskedFirst, Told, X!DeafByLoss, X!More

(* With a receiver its update is lost, and nothing else.                    *)
LEMMA DieStep == ASSUME ExchangeInv, UNCHANGED config, X!Die PROVE ExchangeInv'
<1> USE DEF ExchangeInv
<1>1. /\ receiver' = "dead" /\ update' = X!None
      /\ UNCHANGED <<reads, serving, next, awaiting, ack, boot, handling, local, missed>>
  BY DEF X!Die, X!monitorVars
<1>2. QED
  BY <1>1, SameDump DEF Numbered, OneAtATime, AskedFirst, Told, X!DeafByLoss, X!More

(* The successor has asked nothing and has no key.                          *)
LEMMA RestartStep == ASSUME ExchangeInv, UNCHANGED config, X!Restart PROVE ExchangeInv'
<1> USE DEF ExchangeInv
<1>1. /\ receiver' = "starting" /\ boot' = boot + 1 /\ local' = [k \in X!Keys |-> Unset]
      /\ handling' = TRUE /\ missed' = FALSE
      /\ UNCHANGED <<reads, serving, next, awaiting, ack, update>>
  BY DEF X!Restart, X!monitorVars
<1>2. boot \in Nat \ {0} /\ serving \in 0 .. boot /\ reads \in Seq(1 .. boot)
  BY DEF Numbered
<1>3. \A i \in DOMAIN reads : reads[i] \in 1 .. boot
  BY <1>2
<1>4. reads \in Seq(1 .. boot + 1)
  BY <1>2, <1>3
<1>5. Numbered' /\ OneAtATime'
  <2>1. boot' \in Nat \ {0} /\ serving' \in 0 .. boot' /\ reads' \in Seq(1 .. boot')
    BY <1>1, <1>2, <1>4
  <2>2. Numbered'
    BY <1>1, <2>1 DEF Numbered
  <2>3. OneAtATime'
    BY <1>1, SameDump DEF OneAtATime, X!More
  <2> QED
    BY <2>2, <2>3
<1>6. AskedFirst' /\ X!DeafByLoss'
  BY <1>1, <1>2, <1>3 DEF AskedFirst, X!DeafByLoss
<1>7. Told'
  BY <1>1, SameDump DEF Told
<1>8. QED
  BY <1>5, <1>6, <1>7

-----------------------------------------------------------------------------
(* Nothing is under way before the first request.                           *)
LEMMA ExchangeInit == X!Init => ExchangeInv
<1> SUFFICES ASSUME X!Init PROVE ExchangeInv
  OBVIOUS
<1>1. Numbered
  <2>1. next \in 1 .. Len(KeyList) + 1
    BY KeysAreListed DEF X!Init
  <2>2. boot \in Nat \ {0} /\ serving \in 0 .. boot /\ reads \in Seq(1 .. boot)
    BY DEF X!Init
  <2>3. DOMAIN local = X!Keys
    BY DEF X!Init
  <2>4. /\ awaiting \in BOOLEAN /\ ack \in BOOLEAN
        /\ receiver \in {"starting", "asking", "listening", "silent", "dead"}
        /\ handling \in BOOLEAN /\ missed \in BOOLEAN
    BY DEF X!Init
  <2>5. QED
    BY <2>1, <2>2, <2>3, <2>4 DEF Numbered
<1>2. QED
  BY <1>1, KeysAreListed DEF ExchangeInv, X!Init, OneAtATime, AskedFirst, Told, X!DeafByLoss, X!Deaf

(* Every step of the exchange, with the store as it was.                    *)
LEMMA ExchangeNext ==
  ExchangeInv /\ UNCHANGED config /\ (X!Next \/ UNCHANGED exchange) => ExchangeInv'
<1> SUFFICES ASSUME ExchangeInv, UNCHANGED config, X!Next \/ UNCHANGED exchange PROVE ExchangeInv'
  OBVIOUS
<1>1. CASE X!Next
  BY <1>1, TakeReadStep, AnsweringEndsStep, SendKeyStep, TakeAckStep, RespondStep, AskStep,
     SetStep, HandlerEndsStep, DieStep, RestartStep DEF X!Next
<1>2. CASE UNCHANGED exchange
  BY <1>2, SameDump DEF exchange, ExchangeInv, Numbered, OneAtATime, AskedFirst, Told, X!DeafByLoss,
     X!Deaf, X!More
<1>3. QED
  BY <1>1, <1>2

(* A sequence over a set is one over any larger set.                        *)
LEMMA SeqOfMore ==
  ASSUME NEW S, NEW T, S \subseteq T, NEW q \in Seq(S)
  PROVE  q \in Seq(T)
<1>1. Len(q) \in Nat /\ q = [i \in 1 .. Len(q) |-> q[i]]
  OBVIOUS
<1>2. \A i \in 1 .. Len(q) : q[i] \in T
  OBVIOUS
<1>3. QED
  BY <1>1, <1>2

(* The bound on receivers, and whether the monitor and its handle_eipc run. *)
InBounds == up \in BOOLEAN /\ answering \in BOOLEAN /\ boot <= MaxBoots

(* One receiver is started with the monitor.                                *)
LEMMA BoundsInit == X!Init => InBounds
  BY ExchangeAssumption DEF X!Sensible, X!Init, InBounds

(* No step exceeds the bound.                                               *)
LEMMA BoundsNext ==
  ExchangeInv /\ UNCHANGED config /\ InBounds /\ (X!Next \/ UNCHANGED exchange) => InBounds'
<1> SUFFICES ASSUME ExchangeInv, UNCHANGED config, InBounds, X!Next \/ UNCHANGED exchange
             PROVE  InBounds'
  OBVIOUS
<1>1. CASE X!Restart
  <2>1. boot \in Nat /\ MaxBoots \in Nat /\ boot < MaxBoots /\ boot' = boot + 1
        /\ UNCHANGED <<up, answering>>
    BY <1>1, ExchangeAssumption DEF X!Restart, X!monitorVars, ExchangeInv, Numbered, X!Sensible
  <2>2. QED
    BY <2>1 DEF InBounds
<1>2. CASE X!SendKey
  BY <1>2 DEF X!SendKey, InBounds
<1>3. CASE \/ X!TakeRead \/ X!TakeAck \/ X!Respond \/ X!AnsweringEnds
           \/ X!Ask \/ X!Set \/ X!HandlerEnds \/ X!Die \/ UNCHANGED exchange
  BY <1>3 DEF X!TakeRead, X!TakeAck, X!Respond, X!AnsweringEnds, X!Ask, X!Set, X!HandlerEnds,
              X!Die, exchange, X!monitorVars, InBounds
<1>4. QED
  BY <1>1, <1>2, <1>3 DEF X!Next

(* The types: of an update, and of what a receiver has been told.           *)
LEMMA TypesHold ==
  ASSUME ExchangeInv, InBounds
  PROVE  X!TypeOK
<1>1. boot \in 1 .. MaxBoots /\ serving \in 0 .. MaxBoots
  BY ExchangeAssumption DEF ExchangeInv, Numbered, InBounds, X!Sensible
<1>2. reads \in Seq(1 .. MaxBoots)
  <2>1. reads \in Seq(1 .. boot)
    BY DEF ExchangeInv, Numbered
  <2>2. MaxBoots \in Nat
    BY ExchangeAssumption DEF X!Sensible
  <2>3. 1 .. boot \subseteq 1 .. MaxBoots
    BY <1>1, <2>2
  <2>4. QED
    BY <2>1, <2>3, SeqOfMore
<1>3. \A k \in X!Keys : X!Dump(k) \in X!Origins(k)
  BY DEF X!Dump, X!Origins
<1>4. update # X!None => update.key \in X!Keys /\ update.value \in X!Origins(update.key)
  <2>1. SUFFICES ASSUME update # X!None
                 PROVE  update.key \in X!Keys /\ update.value \in X!Origins(update.key)
    OBVIOUS
  <2>2. X!More /\ update = [key |-> KeyList[next], value |-> X!Dump(KeyList[next])]
    BY <2>1 DEF ExchangeInv, OneAtATime
  <2>3. KeyList[next] \in X!Keys
    BY <2>2, KeysAreListed DEF X!More, ExchangeInv, Numbered
  <2>4. QED
    BY <1>3, <2>2, <2>3
<1>5. \A k \in X!Keys : local[k] \in X!Origins(k) \cup {Unset}
  BY <1>3 DEF ExchangeInv, Told
<1>6. DOMAIN [k \in Sent |-> config[k]] = X!Keys
  BY DEF Sent, X!Keys
<1>7. QED
  BY <1>1, <1>2, <1>4, <1>5, <1>6 DEF X!TypeOK, ExchangeInv, Numbered, InBounds

(* Every key of who listens has been set, and to what dump wrote, if no     *)
(* request failed.                                                          *)
LEMMA ToldIsConfigured == ExchangeInv => X!ListensAsConfigured
<1> SUFFICES ASSUME ExchangeInv, receiver = "listening", ~missed, NEW k \in X!Keys
             PROVE  local[k] # Unset /\ (X!Certain(k) => local[k] = X!Effective(k))
  BY DEF X!ListensAsConfigured
<1>1. local[k] # Unset /\ local[k] = X!Dump(k)
  BY DEF ExchangeInv, Told
<1>2. QED
  BY <1>1, DumpIsEffective

-----------------------------------------------------------------------------
(* The file and the exchange *)

(* The exchange has not begun before the file has been read.                *)
ConfigurationInv == IF pc = "serving" THEN ExchangeInv ELSE X!Init

(* Before the file has been read nothing is exchanged.                      *)
LEMMA InitInv == ConfigurationInit => ConfigurationInv
  BY DEF ConfigurationInit, Init, ConfigurationInv

(* The initial state of the exchange has its invariant.                     *)
LEMMA InvInv == ConfigurationInv => ExchangeInv
  BY ExchangeInit DEF ConfigurationInv

(* Every step of the monitor and the receiver.                              *)
LEMMA NextInv == ConfigurationInv /\ [Next]_allVars => ConfigurationInv'
<1> SUFFICES ASSUME ConfigurationInv, [Next]_allVars PROVE ConfigurationInv'
  OBVIOUS
<1>1. ASSUME UNCHANGED exchange, pc # "serving", pc' # "serving" PROVE ConfigurationInv'
  BY <1>1 DEF ConfigurationInv, exchange, X!Init
<1>2. ASSUME UNCHANGED <<config, exchange>>, pc' = "serving" PROVE ConfigurationInv'
  <2>1. ExchangeInv
    BY InvInv
  <2>2. UNCHANGED config /\ UNCHANGED exchange
    BY <1>2
  <2>3. ExchangeInv'
    BY <2>1, <2>2, ExchangeNext
  <2>4. QED
    BY <1>2, <2>3 DEF ConfigurationInv
<1>3. CASE ReadFile
  <2>1. pc # "serving" /\ pc' # "serving"
    BY <1>3 DEF ReadFile, Reload, Open, Finish, Pass, SetKey
  <2>2. QED
    BY <1>1, <1>3, <2>1 DEF ReadFile
<1>4. CASE Serve
  BY <1>2, <1>4 DEF Serve
<1>5. CASE Exchange
  <2>1. ExchangeInv /\ X!Next /\ UNCHANGED config
    BY <1>5, InvInv DEF Exchange, vars
  <2>2. ExchangeInv'
    BY <2>1, ExchangeNext
  <2>3. QED
    BY <1>5, <2>2 DEF Exchange, vars, ConfigurationInv
<1>6. CASE UNCHANGED allVars
  <2>1. UNCHANGED <<config, exchange>> /\ pc' = pc
    BY <1>6 DEF allVars, vars
  <2>2. CASE pc = "serving"
    BY <1>2, <2>1, <2>2
  <2>3. CASE pc # "serving"
    BY <1>1, <2>1, <2>3
  <2>4. QED
    BY <2>2, <2>3
<1>7. QED
  BY <1>3, <1>4, <1>5, <1>6 DEF Next

(* The exchange keeps its invariant, whatever ./config held.                *)
THEOREM ConfigurationInvariant == Spec => []ConfigurationInv
  BY InitInv, NextInv, PTL DEF Spec

(* listen is reached only with every key set, to the value of the file or   *)
(* the default where that can be sent, whichever receivers died before,     *)
(* unless a request of this receiver's exchange failed.                     *)
THEOREM ListensWhole == Spec => []ListensAsConfigured
<1>1. ConfigurationInv => ListensAsConfigured
  BY InvInv, ToldIsConfigured DEF ListensAsConfigured
<1>2. QED
  BY <1>1, ConfigurationInvariant, PTL

(* The monitor waits in vain for an acknowledgement only when there is a    *)
(* reason for it: the receiver it is for has died or been replaced, or its  *)
(* handle_eipc has ended.  No order of updates, deaths and restarts loses   *)
(* one that is owed.                                                        *)
THEOREM DeafOnlyByLoss == Spec => []DeafByLoss
<1>1. ConfigurationInv => DeafByLoss
  BY InvInv DEF ExchangeInv, DeafByLoss
<1>2. QED
  BY <1>1, ConfigurationInvariant, PTL

-----------------------------------------------------------------------------
(* Runs of characters                                                       *)

(* i is the first offset from o on whose character is in S, or the end.     *)
IsUntil(i, o, S) ==
  /\ i \in o .. Len(file)
  /\ i = Len(file) \/ file[i + 1] \in S
  /\ \A j \in o .. i - 1 : file[j + 1] \notin S

(* There is one, and only one.                                              *)
LEMMA UntilExists ==
  ASSUME Len(file) \in Nat, NEW o \in 0 .. Len(file), NEW S
  PROVE  /\ IsUntil(Until(o, S), o, S)
         /\ \A i : IsUntil(i, o, S) => Until(o, S) = i
<1> DEFINE T == {i \in o .. Len(file) : i = Len(file) \/ file[i + 1] \in S}
<1>1. \E i \in T : \A j \in T : i <= j
  <2>1. T \in SUBSET Nat /\ Len(file) \in T
    OBVIOUS
  <2> HIDE DEF T
  <2> QED
    BY <2>1, Least
<1>2. PICK i \in T : \A j \in T : i <= j
  BY <1>1
<1>3. IsUntil(i, o, S)
  <2>1. i \in o .. Len(file) /\ (i = Len(file) \/ file[i + 1] \in S)
    OBVIOUS
  <2>2. ASSUME NEW j \in o .. i - 1
        PROVE  file[j + 1] \notin S
    <3>1. j \in o .. Len(file) /\ ~(i <= j)
      BY <2>1
    <3> QED
      BY <1>2, <3>1
  <2> QED
    BY <2>1, <2>2 DEF IsUntil
<1>4. ASSUME NEW a, NEW b, IsUntil(a, o, S), IsUntil(b, o, S)
      PROVE  a = b
  <2>1. a \in o .. Len(file) /\ b \in o .. Len(file)
    BY <1>4 DEF IsUntil
  <2>2. ~(a < b)
    BY <1>4, <2>1 DEF IsUntil
  <2>3. ~(b < a)
    BY <1>4, <2>1 DEF IsUntil
  <2> QED
    BY <2>1, <2>2, <2>3
<1>5. Until(o, S) = CHOOSE k \in o .. Len(file) : IsUntil(k, o, S)
  BY DEF Until, IsUntil
<1>6. i \in o .. Len(file)
  BY <1>3 DEF IsUntil
<1>7. IsUntil(Until(o, S), o, S)
  BY <1>3, <1>5, <1>6
<1> QED
  BY <1>4, <1>7

(* What the characters and the texts of the file are.                       *)
LEMMA FileType ==
  ASSUME file \in Seq(Chars)
  PROVE  /\ Len(file) \in Nat
         /\ \A i \in 1 .. Len(file) : file[i] \in Chars
         /\ \A a, b \in 0 .. Len(file) : a <= b =>
              /\ Text(a, b) \in Seq(Chars) /\ Len(Text(a, b)) = b - a
              /\ \A i \in 1 .. b - a : Text(a, b)[i] = file[a + i]
<1>1. Len(file) \in Nat /\ \A i \in 1 .. Len(file) : file[i] \in Chars
  OBVIOUS
<1>2. ASSUME NEW a \in 0 .. Len(file), NEW b \in 0 .. Len(file), a <= b
      PROVE  /\ Text(a, b) \in Seq(Chars) /\ Len(Text(a, b)) = b - a
             /\ \A i \in 1 .. b - a : Text(a, b)[i] = file[a + i]
  <2>1. a + 1 \in Nat /\ b \in Nat /\ b - a \in Nat
    BY <1>1, <1>2
  <2> QED
    BY <1>1, <1>2, <2>1 DEF Text
<1> QED
  BY <1>1, <1>2

(* What a part of a text is.                                                *)
LEMMA PartOfText ==
  ASSUME NEW q \in Seq(Chars), NEW a \in 1 .. Len(q), NEW b \in a .. Len(q)
  PROVE  /\ SubSeq(q, a, b) \in Seq(Chars) /\ Len(SubSeq(q, a, b)) = b - a + 1
         /\ \A i \in 1 .. b - a + 1 : SubSeq(q, a, b)[i] = q[a + i - 1]
  OBVIOUS

-----------------------------------------------------------------------------
(* Lines                                                                    *)

LineEnd(s) == Until(s, Eol)

(* A line and its characters.                                               *)
LEMMA LineType ==
  ASSUME file \in Seq(Chars), NEW s \in Lines
  PROVE  /\ s \in 0 .. Len(file) /\ LineEnd(s) \in s .. Len(file)
         /\ LineEnd(s) = Len(file) \/ file[LineEnd(s) + 1] \in Eol
         /\ \A j \in s .. LineEnd(s) - 1 : file[j + 1] \notin Eol
         /\ LineText(s) \in Seq(Chars) /\ Len(LineText(s)) = LineEnd(s) - s
         /\ DOMAIN LineText(s) = 1 .. LineEnd(s) - s
         /\ \A i \in 1 .. LineEnd(s) - s : LineText(s)[i] = file[s + i]
<1>1. Len(file) \in Nat /\ s \in 0 .. Len(file)
  BY FileType DEF Lines
<1>2. IsUntil(LineEnd(s), s, Eol)
  BY <1>1, UntilExists DEF LineEnd
<1>3. LineText(s) = Text(s, LineEnd(s))
  BY DEF LineText, LineEnd
<1>4. /\ LineEnd(s) \in s .. Len(file)
      /\ LineEnd(s) = Len(file) \/ file[LineEnd(s) + 1] \in Eol
      /\ \A j \in s .. LineEnd(s) - 1 : file[j + 1] \notin Eol
  BY <1>2 DEF IsUntil
<1>5. LineEnd(s) \in 0 .. Len(file) /\ s <= LineEnd(s)
  BY <1>1, <1>4
<1>6. /\ LineText(s) \in Seq(Chars) /\ Len(LineText(s)) = LineEnd(s) - s
      /\ \A i \in 1 .. LineEnd(s) - s : LineText(s)[i] = file[s + i]
  BY <1>1, <1>3, <1>5, FileType
<1> QED
  BY <1>1, <1>4, <1>6

(* A line within a run of blanks has no words.                              *)
LEMMA BlankLine ==
  ASSUME file \in Seq(Chars), NEW s \in Lines, NEW o \in Nat, NEW q \in Nat,
         o <= s, LineEnd(s) <= q, \A j \in o .. q - 1 : file[j + 1] \in Blank
  PROVE  Starts(LineText(s)) = {}
<1> DEFINE t == LineText(s)
<1>1. /\ s \in Nat /\ LineEnd(s) \in Nat /\ DOMAIN t = 1 .. LineEnd(s) - s
      /\ \A i \in 1 .. LineEnd(s) - s : t[i] = file[s + i]
  <2>1. Len(file) \in Nat
    BY FileType
  <2> QED
    BY <2>1, LineType
<1>2. ASSUME NEW i \in DOMAIN t
      PROVE  t[i] \in Blank
  <2>1. s + i - 1 \in o .. q - 1 /\ (s + i - 1) + 1 = s + i
    BY <1>1
  <2> QED
    BY <1>1, <2>1
<1> QED
  BY <1>2 DEF Starts

(* The line that an offset is in.                                           *)
LEMMA LineAt ==
  ASSUME file \in Seq(Chars), NEW p \in 0 .. Len(file)
  PROVE  \E s \in Lines : /\ s <= p
                          /\ \A r \in Lines : r <= p => r <= s
                          /\ \A j \in s .. p - 1 : file[j + 1] \notin Eol
<1>1. Len(file) \in Nat /\ p \in Nat
  BY FileType
<1> DEFINE T == {n \in 0 .. p : p - n \in Lines}
<1>2. p \in T
  BY <1>1 DEF Lines
<1>3. PICK n \in T : \A m \in T : n <= m
  <2>1. 0 .. p \subseteq Nat
    BY <1>1
  <2>2. T \in SUBSET Nat
    BY <2>1
  <2>3. T # {}
    BY <1>2, Zenon
  <2> HIDE DEF T
  <2> QED
    BY <2>2, <2>3, Least
<1> DEFINE s == p - n
<1>4. s \in Lines /\ s \in 0 .. p
  BY <1>1
<1>5. ASSUME NEW r \in Lines, r <= p
      PROVE  r <= s
  <2>1. r \in Nat
    BY <1>1 DEF Lines
  <2>2. p - r \in T
    BY <1>1, <1>5, <2>1
  <2>3. n <= p - r
    BY <1>3, <2>2
  <2> QED
    BY <1>1, <2>1, <2>3
<1>6. ASSUME NEW j \in s .. p - 1
      PROVE  file[j + 1] \notin Eol
  <2>1. j + 1 \in 0 .. Len(file) /\ j + 1 <= p /\ ~(j + 1 <= s)
    BY <1>1, <1>4
  <2> QED
    BY <1>5, <2>1 DEF Lines
<1> HIDE DEF s
<1> QED
  BY <1>4, <1>5, <1>6

-----------------------------------------------------------------------------
(* What get_config_pair finds                                               *)

(* Where the reading of a pair starts: at the beginning or behind a line.   *)
Between ==
  /\ offset \in 0 .. Len(file)
  /\ offset = 0 \/ offset = Len(file) \/ file[offset + 1] \in Eol

(* The offsets of a pair.                                                   *)
LEMMA PairType ==
  ASSUME file \in Seq(Chars), offset \in 0 .. Len(file)
  PROVE  /\ IsUntil(KeyStart, offset, Chars \ Blank)
         /\ IsUntil(KeyEnd, KeyStart, Blank)
         /\ IsUntil(ValueStart, KeyEnd, Chars \ Blank)
         /\ IsUntil(ValueEnd, ValueStart, Eol)
         /\ KeyStart \in 0 .. Len(file) /\ KeyEnd \in 0 .. Len(file)
         /\ ValueStart \in 0 .. Len(file) /\ ValueEnd \in 0 .. Len(file)
         /\ offset <= KeyStart /\ KeyStart <= KeyEnd /\ KeyEnd <= ValueStart /\ ValueStart <= ValueEnd
         /\ \A j \in offset .. KeyStart - 1 : file[j + 1] \in Blank
         /\ \A j \in KeyEnd .. ValueStart - 1 : file[j + 1] \in Blank
         /\ KeyStart # Len(file) => file[KeyStart + 1] \notin Blank
         /\ ValueStart # Len(file) => file[ValueStart + 1] \notin Blank
<1>1. Len(file) \in Nat /\ \A i \in 1 .. Len(file) : file[i] \in Chars
  BY FileType
<1>2. ASSUME NEW o \in 0 .. Len(file), NEW S
      PROVE  Until(o, S) \in 0 .. Len(file) /\ o <= Until(o, S)
  BY <1>1, UntilExists DEF IsUntil
<1>3. KeyStart \in 0 .. Len(file) /\ offset <= KeyStart
  BY <1>2 DEF KeyStart
<1>4. KeyEnd \in 0 .. Len(file) /\ KeyStart <= KeyEnd
  BY <1>2, <1>3 DEF KeyEnd
<1>5. ValueStart \in 0 .. Len(file) /\ KeyEnd <= ValueStart
  BY <1>2, <1>4 DEF ValueStart
<1>6. ValueEnd \in 0 .. Len(file) /\ ValueStart <= ValueEnd
  BY <1>2, <1>5 DEF ValueEnd
<1>7. IsUntil(KeyStart, offset, Chars \ Blank) /\ IsUntil(KeyEnd, KeyStart, Blank)
  BY <1>1, <1>3, UntilExists DEF KeyStart, KeyEnd
<1>8. IsUntil(ValueStart, KeyEnd, Chars \ Blank) /\ IsUntil(ValueEnd, ValueStart, Eol)
  BY <1>1, <1>4, <1>5, UntilExists DEF ValueStart, ValueEnd
<1>9. ASSUME NEW i \in 0 .. Len(file), NEW o \in 0 .. Len(file), IsUntil(i, o, Chars \ Blank)
      PROVE  /\ \A j \in o .. i - 1 : file[j + 1] \in Blank
             /\ i # Len(file) => file[i + 1] \notin Blank
  <2>1. \A j \in 0 .. Len(file) - 1 : file[j + 1] \in Chars
    BY <1>1
  <2> QED
    BY <1>1, <1>9, <2>1 DEF IsUntil
<1> QED
  BY <1>3, <1>4, <1>5, <1>6, <1>7, <1>8, <1>9

(* A set of places that has a first element has it as its Min.              *)
LEMMA MinIs ==
  ASSUME NEW S \in SUBSET Nat, NEW m \in S, \A x \in S : m <= x
  PROVE  Min(S) = m
<1>1. \A x \in S : (\A y \in S : x <= y) => x = m
  OBVIOUS
<1> QED
  BY <1>1 DEF Min

(* In a file of plain lines a pair is a line: its first word and the rest   *)
(* of it.  The lines that it passes over are blank.                         *)
IsPair(s) ==
  /\ s \in Lines /\ offset <= s /\ s < ValueEnd
  /\ ValueStart # Len(file)
  /\ ValueEnd = Len(file) \/ file[ValueEnd + 1] \in Eol
  /\ Starts(LineText(s)) # {} /\ Key = WordOf(s) /\ Value = RestOf(s)
  /\ RestOf(s) \in Seq(Chars) /\ Len(RestOf(s)) > 0
  /\ \A r \in Lines : offset <= r /\ r < s => Starts(LineText(r)) = {}
  /\ \A r \in Lines : r < ValueEnd => r <= s

(* The loops find the next line that is not blank.                          *)
LEMMA PairIsLine ==
  ASSUME file \in Seq(Chars), Plain, Between, KeyStart # Len(file)
  PROVE  \E s : IsPair(s)
<1> DEFINE N == Len(file)
<1>1. N \in Nat /\ offset \in 0 .. N
  BY FileType DEF Between
<1>2. /\ KeyStart \in 0 .. N /\ KeyEnd \in 0 .. N /\ ValueStart \in 0 .. N /\ ValueEnd \in 0 .. N
      /\ offset <= KeyStart /\ KeyStart <= KeyEnd /\ KeyEnd <= ValueStart /\ ValueStart <= ValueEnd
      /\ \A j \in offset .. KeyStart - 1 : file[j + 1] \in Blank
      /\ \A j \in KeyEnd .. ValueStart - 1 : file[j + 1] \in Blank
      /\ file[KeyStart + 1] \notin Blank
      /\ ValueStart # N => file[ValueStart + 1] \notin Blank
  BY <1>1, PairType
<1>3. PICK s \in Lines : /\ s <= KeyStart
                         /\ \A r \in Lines : r <= KeyStart => r <= s
                         /\ \A j \in s .. KeyStart - 1 : file[j + 1] \notin Eol
  BY <1>2, LineAt
<1> DEFINE t == LineText(s)
           e == LineEnd(s)
<1>4. /\ s \in 0 .. N /\ e \in s .. N
      /\ e = N \/ file[e + 1] \in Eol
      /\ \A j \in s .. e - 1 : file[j + 1] \notin Eol
      /\ t \in Seq(Chars) /\ Len(t) = e - s /\ DOMAIN t = 1 .. e - s
      /\ \A i \in 1 .. e - s : t[i] = file[s + i]
  BY LineType
<1> HIDE DEF t, e
<1>5. offset <= s
  <2>1. CASE offset = 0
    BY <1>4, <2>1
  <2>2. CASE offset = N
    BY <1>1, <1>2, <2>2
  <2>3. CASE offset # N /\ file[offset + 1] \in Eol
    <3>1. offset # KeyStart
      BY <1>2, <2>3 DEF Eol, Blank
    <3>2. offset + 1 \in Lines /\ offset + 1 <= KeyStart
      BY <1>1, <1>2, <2>3, <3>1 DEF Lines
    <3>3. offset + 1 <= s
      BY <1>3, <3>2
    <3> QED
      BY <1>1, <1>4, <3>3
  <2> QED
    BY <2>1, <2>2, <2>3 DEF Between
<1>6. KeyStart < e
  <2>1. \A j \in 0 .. N : file[j + 1] \in Eol => file[j + 1] \in Blank
    BY DEF Eol, Blank
  <2>2. SUFFICES ASSUME e <= KeyStart
                 PROVE  FALSE
    BY <1>2, <1>4
  <2>3. CASE e = KeyStart
    BY <1>2, <1>4, <2>1, <2>3
  <2>4. CASE e # KeyStart
    BY <1>2, <1>3, <1>4, <2>2, <2>4
  <2> QED
    BY <2>3, <2>4
<1>n. /\ N \in Nat /\ s \in Nat /\ e \in Nat /\ offset \in Nat
      /\ KeyStart \in Nat /\ KeyEnd \in Nat /\ ValueStart \in Nat
      /\ s <= KeyStart /\ KeyStart < e /\ e <= N
      /\ KeyStart <= KeyEnd /\ KeyEnd <= ValueStart /\ ValueStart <= N
  BY <1>1, <1>2, <1>3, <1>4, <1>6
<1>t. /\ Len(t) = e - s
      /\ \A i \in 1 .. e - s : t[i] = file[s + i]
  BY <1>4
<1> DEFINE f == KeyStart - s + 1
           l == KeyEnd - s
<1>7. f \in 1 .. e - s /\ t[f] \notin Blank /\ \A i \in 1 .. f - 1 : t[i] \in Blank
  <2>1. f \in 1 .. e - s /\ s + f = KeyStart + 1
    BY <1>2, <1>3, <1>4, <1>6
  <2>2. ASSUME NEW i \in 1 .. f - 1
        PROVE  t[i] \in Blank
    <3>1. s + i - 1 \in offset .. KeyStart - 1 /\ (s + i - 1) + 1 = s + i /\ i \in 1 .. e - s
      BY <1>1, <1>2, <1>4, <1>5, <2>1
    <3> QED
      BY <1>2, <1>4, <3>1
  <2> QED
    BY <1>2, <1>4, <2>1, <2>2
<1>8. f \in Starts(t) /\ \A i \in Starts(t) : f <= i
  <2>1. f \in Starts(t)
    <3>1. f # 1 => f - 1 \in 1 .. f - 1
      BY <1>7
    <3> QED
      BY <1>4, <1>7, <3>1 DEF Starts
  <2>2. \A i \in Starts(t) : i \in 1 .. e - s /\ t[i] \notin Blank
    BY <1>4 DEF Starts
  <2>3. ASSUME NEW i \in Starts(t), i < f
        PROVE  FALSE
    BY <1>7, <2>2, <2>3
  <2> QED
    BY <1>7, <2>1, <2>2, <2>3
<1>9. l \in f .. e - s /\ (\A i \in f .. l : t[i] \notin Blank) /\ (l = e - s \/ t[l + 1] \in Blank)
  <2>1. /\ \A j \in KeyStart .. KeyEnd - 1 : file[j + 1] \notin Blank
        /\ KeyEnd = N \/ file[KeyEnd + 1] \in Blank
    BY <1>1, PairType DEF IsUntil
  <2>2. KeyEnd # KeyStart
    BY <1>2, <2>1
  <2>3. KeyEnd <= e
    <3>1. e # N => file[e + 1] \in Blank
      BY <1>4 DEF Eol, Blank
    <3> QED
      BY <1>1, <1>2, <1>4, <1>6, <2>1, <3>1
  <2>4. l \in f .. e - s
    BY <1>2, <1>4, <2>2, <2>3
  <2>5. ASSUME NEW i \in f .. l
        PROVE  t[i] \notin Blank
    <3>1. s + i - 1 \in KeyStart .. KeyEnd - 1 /\ (s + i - 1) + 1 = s + i /\ i \in 1 .. e - s
      BY <1>2, <1>4, <1>7, <2>4
    <3> QED
      BY <1>4, <2>1, <3>1
  <2>6. ASSUME l # e - s
        PROVE  t[l + 1] \in Blank
    <3>1. l + 1 \in 1 .. e - s /\ s + (l + 1) = KeyEnd + 1 /\ KeyEnd # N
      BY <1>2, <1>4, <1>7, <2>4, <2>6
    <3> QED
      BY <1>4, <2>1, <3>1
  <2> QED
    BY <2>4, <2>5, <2>6
<1>10. Starts(t) # {}
  BY <1>8
<1>m. f \in Nat /\ l \in Nat /\ 1 <= f /\ f <= l /\ KeyStart = s + f - 1 /\ KeyEnd = s + l
  BY <1>n, <1>7, <1>9
<1> HIDE DEF f, l
<1>11. l \in Ends(t) /\ \A i \in Ends(t) : l <= i
  <2>1. l \in 1 .. e - s /\ f \in Nat
    BY <1>4, <1>7, <1>9
  <2>2. l \in Ends(t)
    BY <1>4, <1>9, <2>1 DEF Ends
  <2>3. ASSUME NEW i \in Ends(t), i < l
        PROVE  FALSE
    <3>1. i \in 1 .. e - s /\ t[i] \notin Blank /\ (i = e - s \/ t[i + 1] \in Blank)
      BY <1>4 DEF Ends
    <3>2. f <= i
      BY <1>7, <2>1, <3>1
    <3>3. i + 1 \in f .. l /\ i # e - s
      BY <1>4, <2>1, <2>3, <3>1, <3>2
    <3> QED
      BY <1>9, <3>1, <3>3
  <2>4. \A i \in Ends(t) : i \in Nat
    BY <1>4 DEF Ends
  <2> QED
    BY <2>1, <2>2, <2>3, <2>4
<1>12. Min(Starts(t)) = f /\ Min(Ends(t)) = l
  <2>1. Starts(t) \in SUBSET Nat /\ Ends(t) \in SUBSET Nat
    BY <1>4 DEF Starts, Ends
  <2> QED
    BY <1>8, <1>11, <2>1, MinIs
(* The second word of the line is where the value starts.                   *)
<1>13. PICK w \in Starts(t) : w # f
  <2>1. PICK i \in Starts(t), j \in Starts(t) : i < j
    BY <1>10 DEF Plain, t
  <2>2. i # j
    BY <1>4, <2>1 DEF Starts
  <2> QED
    BY <2>1, <2>2
<1>14. w \in l + 2 .. e - s /\ t[w] \notin Blank
  <2>1. w \in 1 .. e - s /\ t[w] \notin Blank /\ (w = 1 \/ t[w - 1] \in Blank) /\ f < w
    BY <1>4, <1>7, <1>8, <1>13 DEF Starts
  <2>2. w - 1 \in 1 .. e - s /\ t[w - 1] \in Blank /\ f <= w - 1
    BY <1>4, <1>7, <2>1
  <2>3. l < w - 1
    BY <1>4, <1>7, <1>9, <2>2
  <2> QED
    BY <1>4, <1>7, <1>9, <2>1, <2>3
<1> DEFINE v == ValueStart - s + 1
<1>15. v \in l + 2 .. e - s /\ t[v] \notin Blank /\ \A i \in l + 1 .. v - 1 : t[i] \in Blank
  <2>1. l \in Nat /\ KeyEnd = s + l
    BY <1>m
  <2>2. ValueStart <= s + w - 1
    <3>1. s + w - 1 \in 0 .. N /\ (s + w - 1) + 1 = s + w /\ w \in 1 .. e - s
      BY <1>n, <1>m, <1>14
    <3>2. file[(s + w - 1) + 1] \notin Blank
      BY <1>4, <1>14, <3>1
    <3>3. KeyEnd <= s + w - 1
      BY <1>n, <1>m, <1>14
    <3>4. ~(s + w - 1 \in KeyEnd .. ValueStart - 1)
      BY <1>2, <3>2
    <3>5. s + w - 1 >= ValueStart
      BY <1>n, <3>1, <3>3, <3>4
    <3> QED
      BY <1>2, <3>1, <3>5
  <2>3. v \in l + 1 .. e - s /\ s + v = ValueStart + 1 /\ ValueStart # N /\ v \in 1 .. e - s
    BY <1>n, <1>m, <1>14, <2>1, <2>2
  <2>4. t[v] \notin Blank
    BY <1>2, <1>4, <2>3
  <2>5. v # l + 1
    <3>1. l # e - s
      BY <1>4, <1>14, <2>1
    <3> QED
      BY <1>9, <2>4, <3>1
  <2>6. ASSUME NEW i \in l + 1 .. v - 1
        PROVE  t[i] \in Blank
    <3>1. s + i - 1 \in KeyEnd .. ValueStart - 1 /\ (s + i - 1) + 1 = s + i /\ i \in 1 .. e - s
      BY <1>n, <2>1, <2>3
    <3> QED
      BY <1>2, <1>4, <3>1
  <2> QED
    BY <1>4, <2>1, <2>3, <2>4, <2>5, <2>6
<1>16. v \in Starts(t) \ {f} /\ \A i \in Starts(t) \ {f} : v <= i
  <2>1. l \in Nat /\ f \in Nat /\ f <= l /\ v \in Nat /\ v \in 1 .. e - s /\ v # 1 /\ v # f /\ v - 1 \in l + 1 .. v - 1
    <3>1. e - s \in Int /\ f \in 1 .. e - s /\ l \in f .. e - s
      BY <1>n, <1>m, <1>7, <1>9
    <3>2. v \in l + 2 .. e - s
      BY <1>15
    <3> HIDE DEF v
    <3> QED
      BY <3>1, <3>2
  <2> HIDE DEF v
  <2>2. v \in Starts(t)
    BY <1>4, <1>15, <2>1 DEF Starts
  <2>3. ASSUME NEW i \in Starts(t) \ {f}, i < v
        PROVE  FALSE
    <3>1. i \in 1 .. e - s /\ t[i] \notin Blank /\ (i = 1 \/ t[i - 1] \in Blank) /\ f < i
      BY <1>4, <1>7, <1>8 DEF Starts
    <3>2. ~(i \in l + 1 .. v - 1)
      BY <1>15, <3>1
    <3>3. i <= l
      BY <1>4, <2>1, <2>3, <3>1, <3>2
    <3>4. i - 1 \in f .. l /\ i # 1
      <4>1. i \in Nat /\ f \in Nat /\ l \in Nat /\ f >= 1
        BY <1>1, <1>4, <1>7, <2>1, <3>1
      <4> QED
        BY <3>1, <3>3, <4>1
    <3> QED
      BY <1>9, <3>1, <3>4
  <2>4. \A i \in Starts(t) : i \in Nat
    BY <1>4 DEF Starts
  <2> QED
    BY <2>1, <2>2, <2>3, <2>4
<1>17. Second(t) = v
  <2>1. Starts(t) \ {f} \in SUBSET Nat
    BY <1>4 DEF Starts
  <2> HIDE DEF v
  <2>2. Min(Starts(t) \ {f}) = v
    BY <1>16, <2>1, MinIs
  <2> QED
    BY <1>12, <2>2 DEF Second
<1>18. ValueEnd = e /\ ValueStart # N
  <2>1. ValueStart \in s .. e - 1
    BY <1>n, <1>m, <1>15
  <2>2. IsUntil(e, ValueStart, Eol)
    BY <1>1, <1>4, <2>1 DEF IsUntil
  <2>3. Until(ValueStart, Eol) = e
    BY <1>1, <1>2, <2>2, UntilExists
  <2> QED
    BY <1>1, <1>4, <2>1, <2>3 DEF ValueEnd
<1>19. Key = WordOf(s)
  <2>1. Key = Text(KeyStart, KeyEnd) /\ WordOf(s) = SubSeq(t, f, l)
    BY <1>12 DEF Key, WordOf, t
  <2>2. /\ Key \in Seq(Chars) /\ Len(Key) = KeyEnd - KeyStart
        /\ \A i \in 1 .. KeyEnd - KeyStart : Key[i] = file[KeyStart + i]
    BY <1>1, <1>2, <2>1, FileType
  <2>3. f \in Nat /\ l \in Nat /\ KeyStart = s + f - 1 /\ KeyEnd = s + l /\ KeyEnd - KeyStart = l - f + 1
    BY <1>n, <1>m
  <2>4. /\ WordOf(s) \in Seq(Chars) /\ Len(WordOf(s)) = l - f + 1
        /\ \A i \in 1 .. l - f + 1 : WordOf(s)[i] = t[f + i - 1]
    <3>1. f \in 1 .. Len(t) /\ l \in f .. Len(t)
      BY <1>4, <1>7, <1>9
    <3>2. t \in Seq(Chars)
      BY <1>4
    <3>3. /\ SubSeq(t, f, l) \in Seq(Chars) /\ Len(SubSeq(t, f, l)) = l - f + 1
          /\ \A i \in 1 .. l - f + 1 : SubSeq(t, f, l)[i] = t[f + i - 1]
      BY <3>1, <3>2, PartOfText
    <3> QED
      BY <2>1, <3>3, Zenon
  <2>5. ASSUME NEW i \in 1 .. l - f + 1
        PROVE  Key[i] = WordOf(s)[i]
    <3>1. f + i - 1 \in 1 .. e - s /\ s + (f + i - 1) = KeyStart + i
      BY <1>n, <1>m, <1>9, <2>3
    <3>2. Key[i] = file[KeyStart + i]
      BY <2>2, <2>3
    <3>3. WordOf(s)[i] = t[f + i - 1]
      BY <2>4
    <3>4. t[f + i - 1] = file[s + (f + i - 1)]
      BY <1>t, <3>1
    <3> QED
      BY <3>1, <3>2, <3>3, <3>4
  <2>6. Len(Key) = Len(WordOf(s)) /\ \A i \in 1 .. Len(Key) : Key[i] = WordOf(s)[i]
    BY <2>2, <2>3, <2>4, <2>5
  <2> QED
    BY <2>2, <2>4, <2>6
<1>20. Value = RestOf(s) /\ RestOf(s) \in Seq(Chars) /\ Len(RestOf(s)) > 0
  <2>1. Value = Text(ValueStart, e) /\ RestOf(s) = SubSeq(t, v, e - s)
    BY <1>4, <1>17, <1>18 DEF Value, RestOf, t
  <2>2. v \in 1 .. e - s /\ ValueStart = s + v - 1 /\ ValueStart \in 0 .. N /\ ValueStart <= e /\ e \in 0 .. N
    BY <1>n, <1>m, <1>15
  <2>3. /\ Value \in Seq(Chars) /\ Len(Value) = e - ValueStart
        /\ \A i \in 1 .. e - ValueStart : Value[i] = file[ValueStart + i]
    BY <2>1, <2>2, FileType
  <2> HIDE DEF v
  <2>4. /\ RestOf(s) \in Seq(Chars) /\ Len(RestOf(s)) = e - s - v + 1
        /\ \A i \in 1 .. e - s - v + 1 : RestOf(s)[i] = t[v + i - 1]
    <3>1. v \in 1 .. Len(t) /\ Len(t) \in v .. Len(t) /\ Len(t) = e - s
      BY <1>4, <2>2
    <3>2. t \in Seq(Chars)
      BY <1>4
    <3>3. /\ SubSeq(t, v, Len(t)) \in Seq(Chars) /\ Len(SubSeq(t, v, Len(t))) = Len(t) - v + 1
          /\ \A i \in 1 .. Len(t) - v + 1 : SubSeq(t, v, Len(t))[i] = t[v + i - 1]
      BY <3>1, <3>2, PartOfText
    <3> QED
      BY <2>1, <3>1, <3>3, Zenon
  <2>5. ASSUME NEW i \in 1 .. e - s - v + 1
        PROVE  Value[i] = RestOf(s)[i]
    <3>1. v + i - 1 \in 1 .. e - s /\ s + (v + i - 1) = ValueStart + i /\ i \in 1 .. e - ValueStart
      BY <1>n, <2>2
    <3>2. Value[i] = file[ValueStart + i]
      BY <2>3, <3>1
    <3>3. RestOf(s)[i] = t[v + i - 1]
      BY <2>4
    <3>4. t[v + i - 1] = file[s + (v + i - 1)]
      BY <1>t, <3>1
    <3> QED
      BY <3>1, <3>2, <3>3, <3>4
  <2>6. Len(Value) = Len(RestOf(s)) /\ \A i \in 1 .. Len(Value) : Value[i] = RestOf(s)[i]
    <3>1. e - ValueStart = e - s - v + 1
      BY <1>n, <2>2
    <3> QED
      BY <2>3, <2>4, <2>5, <3>1
  <2>7. Len(RestOf(s)) > 0
    BY <1>4, <2>2, <2>4
  <2> QED
    BY <2>3, <2>4, <2>6, <2>7
<1>21. ASSUME NEW r \in Lines, offset <= r, r < s
       PROVE  Starts(LineText(r)) = {}
  <2>1. /\ r \in Nat /\ LineEnd(r) \in Nat /\ r <= LineEnd(r)
        /\ \A j \in r .. LineEnd(r) - 1 : file[j + 1] \notin Eol
    <3>1. LineEnd(r) \in r .. Len(file) /\ r \in 0 .. Len(file)
      BY LineType
    <3>2. \A j \in r .. LineEnd(r) - 1 : file[j + 1] \notin Eol
      BY LineType
    <3> QED
      BY <1>n, <3>1, <3>2
  <2>2. s # 0 /\ file[s] \in Eol
    BY <1>4, <1>21, <2>1 DEF Lines
  <2>3. LineEnd(r) <= s - 1
    <3>1. s - 1 \in Nat /\ (s - 1) + 1 = s
      BY <1>4, <2>2
    <3> QED
      BY <1>4, <1>21, <2>1, <2>2, <3>1
  <2>4. LineEnd(r) <= KeyStart /\ KeyStart \in Nat /\ offset \in Nat
    BY <1>1, <1>2, <1>3, <1>4, <2>1, <2>3
  <2> QED
    BY <1>2, <1>21, <2>1, <2>4, BlankLine
<1>22. ASSUME NEW r \in Lines, r < e
       PROVE  r <= s
  <2>1. r \in Nat /\ (r # 0 => file[r] \in Eol)
    BY <1>1 DEF Lines
  <2>2. SUFFICES ASSUME s < r
                 PROVE  FALSE
    BY <1>4, <2>1
  <2>3. r - 1 \in s .. e - 1 /\ (r - 1) + 1 = r /\ r # 0
    BY <1>4, <1>22, <2>1, <2>2
  <2> QED
    BY <1>4, <2>1, <2>3
<1>23. s < ValueEnd
  BY <1>2, <1>3, <1>4, <1>6, <1>18
<1>24. s \in Lines
  OBVIOUS
<1> QED
  BY <1>4, <1>5, <1>10, <1>18, <1>19, <1>20, <1>21, <1>22, <1>23, <1>24 DEF IsPair, t

-----------------------------------------------------------------------------
(* Values                                                                   *)

(* g is the value of the first digits, up to n of them.                     *)
IsNumber(g, digits, n) ==
  g = [k \in 0 .. n |-> IF k = 0 THEN 0 ELSE 10 * g[k - 1] + Digit[digits[k]]]

(* A number is one: its recursion has a solution, in the naturals.          *)
LEMMA NumberType ==
  ASSUME NEW digits \in Seq(DOMAIN Digit)
  PROVE  NumberOf(digits) \in Nat
<1> DEFINE N == Len(digits)
           Has(n) == \E g \in [0 .. n -> Nat] : IsNumber(g, digits, n)
           T == {n \in Nat : n <= N => Has(n)}
<1>1. N \in Nat /\ \A i \in 1 .. N : Digit[digits[i]] \in Nat
  <2>1. \A i \in 1 .. N : digits[i] \in DOMAIN Digit
    OBVIOUS
  <2>2. \A i \in 1 .. N : Digit[digits[i]] \in 0 .. 9
    BY <2>1, DigitAssumption
  <2> QED
    BY <2>2
<1> HIDE DEF N
<1>2. 0 \in T
  <2> DEFINE g == [k \in 0 .. 0 |-> 0]
  <2>1. g \in [0 .. 0 -> Nat] /\ IsNumber(g, digits, 0)
    BY DEF IsNumber
  <2> QED
    BY <2>1
<1>3. ASSUME NEW n \in T
      PROVE  n + 1 \in T
  <2> SUFFICES ASSUME n + 1 <= N
               PROVE  Has(n + 1)
    OBVIOUS
  <2>1. n \in Nat /\ n <= N
    BY <1>1
  <2>2. PICK g \in [0 .. n -> Nat] : IsNumber(g, digits, n)
    BY <2>1
  <2>3. PICK d \in Nat : d = Digit[digits[n + 1]]
    BY <1>1, <2>1
  <2> DEFINE h == [k \in 0 .. n + 1 |-> IF k = n + 1 THEN 10 * g[n] + d ELSE g[k]]
  <2>4. h \in [0 .. n + 1 -> Nat]
    BY <2>1
  <2>5. \A k \in 0 .. n + 1 : h[k] = IF k = 0 THEN 0 ELSE 10 * h[k - 1] + Digit[digits[k]]
    <3>1. \A k \in 0 .. n : g[k] = IF k = 0 THEN 0 ELSE 10 * g[k - 1] + Digit[digits[k]]
      BY <2>2 DEF IsNumber
    <3>2. h[n + 1] = 10 * h[n] + d
      BY <2>1
    <3>3. \A k \in 0 .. n : h[k] = g[k] /\ (k # 0 => h[k - 1] = g[k - 1])
      BY <2>1
    <3> HIDE DEF h
    <3>4. ASSUME NEW k \in 0 .. n + 1, k # n + 1
          PROVE  h[k] = IF k = 0 THEN 0 ELSE 10 * h[k - 1] + Digit[digits[k]]
      <4>1. k \in 0 .. n
        BY <2>1, <3>4
      <4> QED
        BY <3>1, <3>3, <4>1
    <3>5. n + 1 # 0 /\ (n + 1) - 1 = n
      BY <2>1
    <3> QED
      BY <2>3, <3>2, <3>4, <3>5
  <2>6. IsNumber(h, digits, n + 1)
    <3> HIDE DEF h
    <3> QED
      BY <2>4, <2>5 DEF IsNumber
  <2> QED
    BY <2>4, <2>6
<1>4. Has(N)
  <2>1. N <= N
    BY <1>1
  <2> HIDE DEF Has
  <2> QED
    BY <1>1, <1>2, <1>3, <2>1, Induction
<1> DEFINE f == CHOOSE g : g = [k \in 0 .. Len(digits) |->
                                  IF k = 0 THEN 0 ELSE 10 * g[k - 1] + Digit[digits[k]]]
<1>5. IsNumber(f, digits, N)
  BY <1>4 DEF IsNumber, N
<1>6. NumberOf(digits) = f[N]
  BY DEF NumberOf, N
<1> HIDE DEF f
<1> DEFINE U == {k \in Nat : k <= N => f[k] \in Nat}
<1>7. 0 \in U
  BY <1>1, <1>5 DEF IsNumber
<1>8. ASSUME NEW k \in U
      PROVE  k + 1 \in U
  <2> SUFFICES ASSUME k + 1 <= N
               PROVE  f[k + 1] \in Nat
    OBVIOUS
  <2>1. k + 1 \in 1 .. N /\ k + 1 \in 0 .. N /\ k + 1 # 0 /\ (k + 1) - 1 = k /\ f[k] \in Nat
    BY <1>1
  <2>2. f[k + 1] = 10 * f[k] + Digit[digits[k + 1]]
    BY <1>5, <2>1 DEF IsNumber
  <2>3. Digit[digits[k + 1]] \in Nat
    BY <1>1, <2>1
  <2> QED
    BY <2>1, <2>2, <2>3
<1>9. f[N] \in Nat
  <2>1. U = Nat
    BY <1>7, <1>8, Induction
  <2> QED
    BY <1>1, <2>1
<1> QED
  BY <1>6, <1>9

(* The digits in front of a value.                                          *)
LEMMA DigitsType ==
  ASSUME NEW v \in Seq(Chars), Len(v) > 0
  PROVE  /\ DigitsOf(v) \in Seq(DOMAIN Digit)
         /\ DigitsOf(v) = <<>> <=> v[1] \notin DOMAIN Digit
<1> DEFINE L == Len(v)
           Led(n) == /\ \A i \in 1 .. n : v[i] \in DOMAIN Digit
                     /\ n = L \/ v[n + 1] \notin DOMAIN Digit
           T == {n \in 0 .. L : n = L \/ v[n + 1] \notin DOMAIN Digit}
           n == CHOOSE n \in 0 .. L : Led(n)
<1>1. L \in Nat /\ L > 0
  OBVIOUS
<1> HIDE DEF L
<1>2. \E k \in 0 .. L : Led(k)
  <2>1. T \in SUBSET Nat
    BY <1>1
  <2>2. L \in T
    BY <1>1
  <2> HIDE DEF T
  <2>3. PICK k \in T : \A m \in T : k <= m
    BY <2>1, <2>2, Least
  <2> USE DEF T
  <2>4. ASSUME NEW i \in 1 .. k
        PROVE  v[i] \in DOMAIN Digit
    <3>1. i - 1 \in 0 .. L /\ i - 1 < k /\ (i - 1) + 1 = i /\ i - 1 # L
      BY <1>1
    <3>2. i - 1 \notin T
      <4> HIDE DEF T
      <4> QED
        BY <2>1, <2>3, <3>1
    <3> QED
      BY <3>1, <3>2
  <2> QED
    BY <2>4
<1>3. n \in 0 .. L /\ Led(n)
  BY <1>2
<1>4. DigitsOf(v) = SubSeq(v, 1, n)
  BY DEF DigitsOf, L
<1> HIDE DEF n
<1>5. /\ Len(SubSeq(v, 1, n)) = n
      /\ \A i \in 1 .. n : SubSeq(v, 1, n)[i] = v[i]
  <2>1. n \in Nat /\ n <= Len(v)
    BY <1>1, <1>3 DEF L
  <2> QED
    BY <2>1
<1>6. SubSeq(v, 1, n) \in Seq(DOMAIN Digit)
  <2>1. \A i \in 1 .. n : v[i] \in DOMAIN Digit
    BY <1>3
  <2>2. n \in Nat /\ SubSeq(v, 1, n) = [i \in 1 .. n |-> v[i]]
    BY <1>1, <1>3 DEF L
  <2> QED
    BY <2>1, <2>2
<1>7. SubSeq(v, 1, n) = <<>> <=> n = 0
  BY <1>5, <1>6
<1>8. n = 0 <=> v[1] \notin DOMAIN Digit
  BY <1>1, <1>3
<1> QED
  BY <1>4, <1>6, <1>7, <1>8

(* A value that is no number that overflows has one meaning.                *)
LEMMA MeantIsRead ==
  ASSUME NEW s, NEW k \in Names, RestOf(s) \in Seq(Chars), Len(RestOf(s)) > 0,
         NumberOf(DigitsOf(RestOf(s))) <= SizeMax
  PROVE  Transform(k, RestOf(s)) = {Meant(s, k)}
<1> DEFINE v == RestOf(s)
           d == DigitsOf(v)
<1>1. d \in Seq(DOMAIN Digit) /\ (d = <<>> <=> v[1] \notin DOMAIN Digit)
  BY DigitsType
<1>2. NumberOf(d) \in Nat /\ SizeMax \in Nat
  BY <1>1, NumberType, NamesAssumption
<1>3. ReadNumber(k, d) = {IF v[1] \notin DOMAIN Digit THEN Invalid ELSE Bounded(k, NumberOf(d))}
  <2>1. ~(NumberOf(d) > SizeMax)
    BY <1>2
  <2> HIDE DEF v, d
  <2> QED
    BY <1>1, <2>1 DEF ReadNumber
<1>4. Type[k] \in {"string", "number", "bool"}
  BY NamesAssumption
<1>5. CASE Type[k] = "string"
  BY <1>5 DEF Transform, Meant
<1>6. CASE Type[k] = "bool"
  BY <1>6 DEF Transform, Meant
<1>7. CASE Type[k] = "number"
  <2>1. Transform(k, v) = ReadNumber(k, d)
    BY <1>7 DEF Transform
  <2>2. Meant(s, k) = IF v[1] \notin DOMAIN Digit THEN Invalid ELSE Bounded(k, NumberOf(d))
    BY <1>7 DEF Meant
  <2> QED
    BY <1>3, <2>1, <2>2
<1> QED
  BY <1>4, <1>5, <1>6, <1>7

(* A value is of the characters between two ends of lines.                  *)
LEMMA ValueType ==
  ASSUME file \in Seq(Chars), offset \in 0 .. Len(file), ValueStart # Len(file)
  PROVE  /\ Value \in Seq(Chars \ Eol) \ {<<>>} /\ Value \in Seq(Chars) /\ Len(Value) > 0
         /\ ValueEnd \in 0 .. Len(file)
<1>1. /\ Len(file) \in Nat
      /\ ValueStart \in 0 .. Len(file) /\ ValueEnd \in 0 .. Len(file) /\ ValueStart <= ValueEnd
      /\ file[ValueStart + 1] \notin Blank
      /\ IsUntil(ValueEnd, ValueStart, Eol)
  BY FileType, PairType
<1>2. ValueStart < ValueEnd
  <2>1. file[ValueStart + 1] \notin Eol
    BY <1>1 DEF Eol, Blank
  <2> QED
    BY <1>1, <2>1 DEF IsUntil
<1>3. /\ Value \in Seq(Chars) /\ Len(Value) = ValueEnd - ValueStart
      /\ \A i \in 1 .. ValueEnd - ValueStart : Value[i] = file[ValueStart + i]
  BY <1>1, FileType DEF Value
<1>4. ASSUME NEW i \in 1 .. Len(Value)
      PROVE  Value[i] \in Chars \ Eol
  <2>1. ValueStart + i - 1 \in ValueStart .. ValueEnd - 1 /\ (ValueStart + i - 1) + 1 = ValueStart + i
    BY <1>1, <1>3
  <2>2. file[(ValueStart + i - 1) + 1] \notin Eol
    BY <1>1, <2>1 DEF IsUntil
  <2>3. Value[i] \in Chars
    BY <1>3
  <2> QED
    BY <1>3, <2>1, <2>2, <2>3
<1>5. Value = [i \in 1 .. Len(Value) |-> Value[i]]
  BY <1>3
<1>6. Value \in Seq(Chars \ Eol)
  <2>1. Len(Value) \in Nat
    BY <1>3
  <2> HIDE DEF Value
  <2> QED
    BY <1>4, <1>5, <2>1
<1>7. Len(Value) > 0
  BY <1>1, <1>2, <1>3
<1> QED
  BY <1>1, <1>3, <1>6, <1>7

(* The types of the store.                                                  *)
ValueOK(k, v) ==
  v # Unset =>
    CASE Type[k] = "string" -> v \in Seq(Chars \ Eol) \ {<<>>}
      [] Type[k] = "bool"   -> v \in BOOLEAN
      [] Type[k] = "number" -> v \in 0 .. MaxOf[k]

(* What is put into it has its type.                                        *)
LEMMA TransformType ==
  ASSUME NEW k \in Names, NEW t \in Seq(Chars \ Eol) \ {<<>>}, t \in Seq(Chars), Len(t) > 0,
         NEW v \in Transform(k, t), v # Invalid
  PROVE  ValueOK(k, v)
<1>1. Type[k] \in {"string", "number", "bool"}
  BY NamesAssumption
<1>2. CASE Type[k] = "string"
  BY <1>2 DEF Transform, ValueOK
<1>3. CASE Type[k] = "bool"
  BY <1>3 DEF Transform, ValueOK
<1>4. CASE Type[k] = "number"
  <2> DEFINE d == DigitsOf(t)
  <2>1. NumberOf(d) \in Nat
    BY DigitsType, NumberType
  <2> HIDE DEF d
  <2>2. MaxOf[k] \in Nat /\ SizeMax \in Nat /\ Junk \subseteq Nat
    BY <1>4, NamesAssumption
  <2>3. v \in ReadNumber(k, d)
    BY <1>4 DEF Transform, d
  <2>4. \E n \in Nat : v = Bounded(k, n)
    BY <2>1, <2>2, <2>3 DEF ReadNumber
  <2>5. v \in 0 .. MaxOf[k]
    BY <2>2, <2>4 DEF Bounded
  <2> QED
    BY <1>4, <2>5 DEF ValueOK
<1> QED
  BY <1>1, <1>2, <1>3, <1>4

-----------------------------------------------------------------------------
(* The store                                                                *)

(* The lines before an offset that set a key.                               *)
SetBefore(o, k) == {s \in Lines : s < o /\ Setting(s, k)}

(* The value of a key is that of the last of them.                          *)
IsStored(c, S, k) ==
  IF S = {} THEN c[k] = Unset ELSE \E s \in S : (\A r \in S : r <= s) /\ c[k] = Meant(s, k)

(* None of them has an invalid value.                                       *)
Sound == \A k \in Names : \A s \in SetBefore(offset, k) : Meant(s, k) # Invalid

UpTo == Sound /\ \A k \in Names : IsStored(config, SetBefore(offset, k), k)

FileInv ==
  /\ TypeOK
  /\ DOMAIN config = Names
  /\ pc = "opening" => offset = 0 /\ config = [k \in Names |-> Unset]
  /\ pc = "reading" /\ Plain => Between /\ UpTo
  /\ StoreIsFile

(* What is stored is what was meant, as far as lines were read.             *)
LEMMA StoredIsFile ==
  ASSUME \A k \in Names : IsStored(config, {s \in Read : Setting(s, k)}, k)
  PROVE  StoreIsFile
BY DEF StoreIsFile, IsStored

(* The meaning of a file does not change.                                   *)
LEMMA SameFile ==
  ASSUME file' = file
  PROVE  /\ Plain' = Plain /\ Lines' = Lines /\ Read' = Read
         /\ \A s, k : Setting(s, k)' = Setting(s, k) /\ Meant(s, k)' = Meant(s, k)
         /\ \A o, k : SetBefore(o, k)' = SetBefore(o, k)
BY DEF Plain, Lines, Read, Setting, Meant, LineText, WordOf, RestOf, Until, Text, SetBefore

(* Where a pair has been found the lines that it passes over are those that *)
(* set nothing.                                                             *)
LEMMA SetBehind ==
  ASSUME NEW s, IsPair(s), NEW k, Between, file \in Seq(Chars)
  PROVE  /\ SetBefore(ValueEnd, k) =
              SetBefore(offset, k) \cup (IF Setting(s, k) THEN {s} ELSE {})
         /\ \A r \in SetBefore(offset, k) : r < s
         /\ {r \in Lines : r < s /\ Setting(r, k)} = SetBefore(offset, k)
<1>1. \A r \in Lines : r \in Nat
  BY FileType DEF Lines
<1>2. s \in Nat /\ offset \in Nat /\ ValueEnd \in Nat
  BY <1>1, FileType, PairType DEF IsPair, Between
<1>3. offset <= s /\ s < ValueEnd /\ s \in Lines
  BY DEF IsPair
<1>4. \A r \in Lines : r < s => r < offset \/ ~Setting(r, k)
  <2>1. ASSUME NEW r \in Lines, r < s, ~(r < offset)
        PROVE  ~Setting(r, k)
    <3>1. offset <= r
      BY <1>1, <1>2, <2>1
    <3> QED
      BY <2>1, <3>1 DEF IsPair, Setting
  <2> QED
    BY <2>1
<1>5. \A r \in Lines : r < ValueEnd <=> r < s \/ r = s
  <2>1. \A r \in Lines : r < ValueEnd => r <= s
    BY DEF IsPair
  <2> QED
    BY <1>1, <1>2, <1>3, <2>1
<1>6. \A r \in Lines : r < offset => r < s
  BY <1>1, <1>2, <1>3
<1> QED
  BY <1>3, <1>4, <1>5, <1>6 DEF SetBefore

(* A comment and a key that is not known.                                   *)
LEMMA PassStep ==
  ASSUME FileInv, Pass
  PROVE  FileInv'
<1>1. /\ file' = file /\ config' = config /\ pc' = pc /\ pc = "reading" /\ offset' = ValueEnd
      /\ KeyStart # Len(file) /\ ValueStart # Len(file)
      /\ Key[1] = "#" \/ ~Known(Key)
  BY DEF Pass, Advance, PairResult
<1>2. file \in Seq(Chars) /\ offset \in 0 .. Len(file)
  BY DEF FileInv, TypeOK
<1>3. TypeOK'
  BY <1>1, <1>2, ValueType DEF FileInv, TypeOK
<1>4. ASSUME Plain
      PROVE  Between' /\ UpTo'
  <2>1. Between /\ UpTo
    BY <1>1, <1>4 DEF FileInv
  <2>2. PICK s : IsPair(s)
    BY <1>1, <1>2, <1>4, <2>1, PairIsLine
  <2>3. Between'
    BY <1>1, <1>2, <2>2, ValueType DEF IsPair, Between
  <2>4. \A k \in Names : ~Setting(s, k)
    <3>1. Key = WordOf(s)
      BY <2>2 DEF IsPair
    <3> QED
      BY <1>1, <3>1, NamesAssumption DEF Setting, Known
  <2>5. \A k \in Names : SetBefore(offset', k) = SetBefore(offset, k)
    <3>1. ASSUME NEW k \in Names
          PROVE  SetBefore(ValueEnd, k) = SetBefore(offset, k)
      BY <1>2, <2>1, <2>2, <2>4, SetBehind, Zenon
    <3> QED
      BY <1>1, <3>1
  <2>6. \A k \in Names : SetBefore(offset, k)' = SetBefore(offset, k)
    BY <1>1, <2>5 DEF SetBefore, Lines, Setting, LineText, WordOf, Until, Text
  <2>7. UpTo'
    BY <1>1, <2>1, <2>6, SameFile DEF UpTo, Sound, IsStored
  <2> QED
    BY <2>3, <2>7
<1>5. StoreIsFile'
  BY <1>1 DEF StoreIsFile
<1> QED
  BY <1>1, <1>3, <1>4, <1>5, SameFile DEF FileInv

(* A key and its value.                                                     *)
LEMMA SetKeyStep ==
  ASSUME FileInv, NEW k \in Names, SetKey(k)
  PROVE  FileInv'
<1>1. /\ file' = file /\ pc = "reading" /\ offset' = ValueEnd
      /\ KeyStart # Len(file) /\ ValueStart # Len(file) /\ Word[k] = Key
  BY DEF SetKey, PairResult
<1>2. PICK v \in Transform(k, Value) :
         \/ v = Invalid /\ pc' = "done" /\ config' = config
         \/ v # Invalid /\ config' = [config EXCEPT ![k] = v] /\ pc' = pc
  BY DEF SetKey
<1>3. file \in Seq(Chars) /\ offset \in 0 .. Len(file) /\ DOMAIN config = Names
  BY DEF FileInv, TypeOK
<1>4. TypeOK' /\ (DOMAIN config = Names)'
  <2>1. \A l \in Names : ValueOK(l, config[l])
    BY DEF FileInv, TypeOK, ValueOK
  <2>2. v # Invalid => ValueOK(k, v)
    BY <1>1, <1>3, ValueType, TransformType
  <2>3. \A l \in Names : ValueOK(l, config'[l])
    BY <1>2, <1>3, <2>1, <2>2
  <2>4. ValueEnd \in 0 .. Len(file)
    BY <1>1, <1>3, ValueType
  <2>5. pc' \in {"reading", "done"} /\ DOMAIN config' = Names
    BY <1>1, <1>2, <1>3
  <2>6. \A l \in Names : (config[l] # Unset =>
          CASE Type[l] = "string" -> config[l] \in Seq(Chars \ Eol) \ {<<>>}
            [] Type[l] = "bool"   -> config[l] \in BOOLEAN
            [] Type[l] = "number" -> config[l] \in 0 .. MaxOf[l])'
    BY <2>3 DEF ValueOK
  <2> QED
    BY <1>1, <1>3, <2>4, <2>5, <2>6 DEF TypeOK
(* In a plain file it is what the line means.                               *)
<1>5. ASSUME Plain
      PROVE  \E s : /\ IsPair(s) /\ Setting(s, k) /\ v = Meant(s, k)
                    /\ \A l \in Names \ {k} : ~Setting(s, l)
  <2>1. PICK s : IsPair(s)
    BY <1>1, <1>3, <1>5, PairIsLine DEF FileInv
  <2>2. Starts(LineText(s)) # {} /\ Word[k] = WordOf(s) /\ Value = RestOf(s) /\ s \in Lines
    BY <1>1, <2>1 DEF IsPair
  <2>3. Setting(s, k) /\ \A l \in Names \ {k} : ~Setting(s, l)
    BY <2>2, NamesAssumption DEF Setting
  <2>4. NumberOf(DigitsOf(RestOf(s))) <= SizeMax
    BY <1>5, <2>2 DEF Plain
  <2>5. Transform(k, Value) = {Meant(s, k)}
    BY <2>1, <2>2, <2>4, MeantIsRead DEF IsPair
  <2> QED
    BY <1>2, <2>1, <2>3, <2>5
<1>6. ASSUME Plain, v # Invalid
      PROVE  Between' /\ UpTo'
  <2>1. Between /\ UpTo
    BY <1>1, <1>6 DEF FileInv
  <2>2. PICK s : /\ IsPair(s) /\ Setting(s, k) /\ v = Meant(s, k)
                 /\ \A l \in Names \ {k} : ~Setting(s, l)
    BY <1>5, <1>6
  <2>3. Between'
    BY <1>1, <1>3, <2>2, ValueType DEF IsPair, Between
  <2>4. /\ SetBefore(ValueEnd, k) = SetBefore(offset, k) \cup {s}
        /\ \A r \in SetBefore(offset, k) : r < s
    BY <1>3, <2>1, <2>2, SetBehind
  <2>5. \A l \in Names \ {k} : SetBefore(ValueEnd, l) = SetBefore(offset, l)
    <3>1. ASSUME NEW l \in Names \ {k}
          PROVE  SetBefore(ValueEnd, l) = SetBefore(offset, l)
      <4>1. SetBefore(ValueEnd, l) = SetBefore(offset, l) \cup (IF Setting(s, l) THEN {s} ELSE {})
        BY <1>3, <2>1, <2>2, SetBehind
      <4> QED
        BY <2>2, <4>1
    <3> QED
      BY <3>1
  <2>6. \A l \in Names : SetBefore(offset, l)' = SetBefore(ValueEnd, l)
    BY <1>1 DEF SetBefore, Lines, Setting, LineText, WordOf, Until, Text
  <2>7. Sound'
    <3>1. \A l \in Names : \A r \in SetBefore(ValueEnd, l) : Meant(r, l) # Invalid
      BY <1>6, <2>1, <2>2, <2>4, <2>5 DEF UpTo, Sound
    <3> QED
      BY <1>1, <2>6, <3>1, SameFile DEF Sound
  <2>8. \A l \in Names : IsStored(config', SetBefore(ValueEnd, l), l)
    <3>1. ASSUME NEW l \in Names \ {k}
          PROVE  IsStored(config', SetBefore(ValueEnd, l), l)
      <4>1. config'[l] = config[l]
        BY <1>2, <1>3, <1>6, <3>1
      <4> QED
        BY <2>1, <2>5, <4>1 DEF UpTo, IsStored
    <3>2. IsStored(config', SetBefore(ValueEnd, k), k)
      <4>1. config'[k] = Meant(s, k)
        BY <1>2, <1>3, <1>6, <2>2
      <4>2. s \in Nat
        BY <1>3, <2>2, FileType DEF IsPair, Lines
      <4>3. \A r \in SetBefore(ValueEnd, k) : r <= s
        <5>1. \A r \in SetBefore(offset, k) : r \in Nat
          BY <1>3, FileType DEF SetBefore, Lines
        <5> QED
          BY <2>4, <4>2, <5>1
      <4> QED
        BY <2>4, <4>1, <4>3 DEF IsStored
    <3> QED
      BY <3>1, <3>2
  <2>9. UpTo'
    BY <1>1, <2>6, <2>7, <2>8, SameFile DEF UpTo, IsStored
  <2> QED
    BY <2>3, <2>9
(* An invalid value ends the file.                                          *)
<1>7. ASSUME Plain, v = Invalid
      PROVE  StoreIsFile'
  <2>1. Between /\ UpTo
    BY <1>1, <1>7 DEF FileInv
  <2>2. PICK s : IsPair(s) /\ Setting(s, k) /\ v = Meant(s, k)
    BY <1>5, <1>7
  <2>3. \A l : /\ {r \in Lines : r < s /\ Setting(r, l)} = SetBefore(offset, l)
               /\ \A r \in SetBefore(offset, l) : r < s
    BY <1>3, <2>1, <2>2, SetBehind
  <2>4. s \in Lines /\ \A r \in Lines : r \in Nat
    BY <1>3, <2>2, FileType DEF IsPair, Lines
  <2>5. Read = {r \in Lines : r < s}
    <3>1. ASSUME NEW b \in Lines, NEW l \in Names, Setting(b, l), Meant(b, l) = Invalid, b < s
          PROVE  FALSE
      <4>1. b \in SetBefore(offset, l)
        BY <2>3, <3>1
      <4> QED
        BY <2>1, <3>1, <4>1 DEF UpTo, Sound
    <3>2. \A b \in Lines : (\E l \in Names : Setting(b, l) /\ Meant(b, l) = Invalid) => s <= b
      BY <2>4, <3>1
    <3>3. \E l \in Names : Setting(s, l) /\ Meant(s, l) = Invalid
      BY <1>7, <2>2
    <3> QED
      BY <2>4, <3>2, <3>3 DEF Read
  <2>6. \A l \in Names : {r \in Read : Setting(r, l)} = SetBefore(offset, l)
    BY <2>3, <2>5
  <2>7. StoreIsFile
    BY <2>1, <2>6, StoredIsFile DEF UpTo
  <2>8. \A l \in Names : IsStored(config, {r \in Read : Setting(r, l)}, l)
    BY <2>1, <2>6 DEF UpTo
  <2>9. config' = config
    BY <1>2, <1>7
  <2>10. \A l \in Names : IsStored(config, {r \in Read : Setting(r, l)}, l)'
    BY <1>1, <2>8, <2>9, SameFile DEF IsStored
  <2> QED
    BY <2>10 DEF StoreIsFile, IsStored
<1>8. v = Invalid => pc' = "done"
  BY <1>2
<1>9. v # Invalid => pc' = "reading"
  BY <1>1, <1>2
<1>10. StoreIsFile'
  BY <1>7, <1>9, <1>1, SameFile DEF StoreIsFile
<1> QED
  BY <1>1, <1>4, <1>6, <1>8, <1>9, <1>10, SameFile DEF FileInv

(* Behind the last pair there are only blank lines.                         *)
LEMMA FinishStep ==
  ASSUME FileInv, Finish
  PROVE  FileInv'
<1>1. UNCHANGED <<file, offset, config>> /\ pc = "reading" /\ pc' = "done" /\ PairResult # "PARSE_OK"
  BY DEF Finish
<1>2. file \in Seq(Chars) /\ offset \in 0 .. Len(file)
  BY DEF FileInv, TypeOK
<1>3. TypeOK' /\ (DOMAIN config = Names)'
  BY <1>1 DEF FileInv, TypeOK
<1>4. ASSUME Plain
      PROVE  StoreIsFile'
  <2>1. Between /\ UpTo
    BY <1>1, <1>4 DEF FileInv
  <2>2. KeyStart = Len(file)
    <3>1. SUFFICES ASSUME KeyStart # Len(file)
                   PROVE  FALSE
      OBVIOUS
    <3>2. ValueStart # Len(file)
      BY <1>2, <1>4, <2>1, <3>1, PairIsLine DEF IsPair
    <3> QED
      BY <1>1, <3>1, <3>2 DEF PairResult
  <2>3. ASSUME NEW r \in Lines, NEW l, Setting(r, l)
        PROVE  r < offset
    <3>1. /\ r \in Nat /\ LineEnd(r) <= Len(file) /\ Len(file) \in Nat /\ offset \in Nat
          /\ \A j \in offset .. Len(file) - 1 : file[j + 1] \in Blank
      BY <1>2, <2>2, FileType, LineType, PairType
    <3>2. ~(offset <= r)
      BY <1>2, <2>3, <3>1, BlankLine DEF Setting
    <3> QED
      BY <3>1, <3>2
  <2>4. Read = Lines
    <3>1. \A b \in Lines, l \in Names : Setting(b, l) => Meant(b, l) # Invalid
      BY <2>1, <2>3 DEF UpTo, Sound, SetBefore
    <3> QED
      BY <3>1 DEF Read
  <2>5. \A l \in Names : {r \in Read : Setting(r, l)} = SetBefore(offset, l)
    BY <2>3, <2>4 DEF SetBefore
  <2>6. \A l \in Names : IsStored(config, {r \in Read : Setting(r, l)}, l)
    BY <2>1, <2>5 DEF UpTo
  <2>7. \A l \in Names : IsStored(config, {r \in Read : Setting(r, l)}, l)'
    BY <1>1, <2>6, SameFile DEF IsStored
  <2> QED
    BY <2>7 DEF StoreIsFile, IsStored
<1>5. StoreIsFile'
  BY <1>1, <1>4, SameFile DEF StoreIsFile
<1> QED
  BY <1>1, <1>3, <1>5 DEF FileInv

(* Before the first line nothing is set.                                    *)
LEMMA OpenStep ==
  ASSUME FileInv, Open
  PROVE  FileInv'
<1>1. UNCHANGED <<file, offset, config>> /\ pc' \in {"reading", "failed"} /\ pc = "opening"
  BY DEF Open
<1>2. offset = 0 /\ config = [k \in Names |-> Unset] /\ file \in Seq(Chars)
  BY <1>1 DEF FileInv, TypeOK
<1>3. TypeOK' /\ (DOMAIN config = Names)' /\ StoreIsFile'
  BY <1>1 DEF FileInv, TypeOK, StoreIsFile
<1>4. \A k : SetBefore(0, k) = {}
  BY <1>2, FileType DEF SetBefore, Lines
<1>5. Between /\ UpTo
  <2>1. Between
    BY <1>2, FileType DEF Between
  <2>2. \A k \in Names : SetBefore(offset, k) = {} /\ config[k] = Unset
    BY <1>2, <1>4
  <2> QED
    BY <2>1, <2>2 DEF UpTo, Sound, IsStored
<1>6. Between' /\ UpTo'
  <2>1. Between'
    BY <1>1, <1>5 DEF Between
  <2>2. \A k : SetBefore(offset, k)' = SetBefore(offset, k)
    BY <1>1 DEF SetBefore, Lines, Setting, LineText, WordOf, Until, Text
  <2>3. UpTo'
    BY <1>1, <1>5, <2>2, SameFile DEF UpTo, Sound, IsStored
  <2> QED
    BY <2>1, <2>3
<1> QED
  BY <1>1, <1>3, <1>6 DEF FileInv

(* Nothing is set before the file has been read.                            *)
LEMMA FileInit == ConfigurationInit => FileInv
<1> SUFFICES ASSUME Init
             PROVE  FileInv
  BY DEF ConfigurationInit
<1>1. file \in Seq(Chars)
  BY FilesAssumption DEF Init
<1>2. TypeOK
  BY <1>1, FileType DEF Init, TypeOK
<1> QED
  BY <1>2 DEF Init, FileInv, StoreIsFile

(* Every step of the monitor; the exchange leaves the file and the store.   *)
LEMMA FileNext == FileInv /\ [Next]_allVars => FileInv'
<1> SUFFICES ASSUME FileInv, [Next]_allVars
             PROVE  FileInv'
  OBVIOUS
<1>1. ASSUME UNCHANGED vars
      PROVE  FileInv'
  <2>1. UNCHANGED <<file, offset, config, pc>>
    BY <1>1 DEF vars
  <2>2. TypeOK' /\ (DOMAIN config = Names)'
    BY <2>1 DEF FileInv, TypeOK
  <2>3. StoreIsFile'
    <3>1. pc = "done" /\ Plain => \A k \in Names : IsStored(config, {s \in Read : Setting(s, k)}, k)
      BY DEF FileInv, StoreIsFile, IsStored
    <3>2. ASSUME pc = "done", Plain
          PROVE  \A k \in Names : IsStored(config, {s \in Read : Setting(s, k)}, k)'
      <4>1. \A k \in Names : IsStored(config, {s \in Read : Setting(s, k)}, k)
        BY <3>1, <3>2
      <4> QED
        BY <2>1, <4>1, SameFile DEF IsStored
    <3> QED
      BY <2>1, <3>2, SameFile DEF StoreIsFile, IsStored
  <2>4. (pc = "opening" => offset = 0 /\ config = [k \in Names |-> Unset])'
    BY <2>1 DEF FileInv
  <2>5. ASSUME pc = "reading", Plain
        PROVE  Between' /\ UpTo'
    <3>1. Between /\ UpTo
      BY <2>5 DEF FileInv
    <3>2. \A k : SetBefore(offset, k)' = SetBefore(offset, k)
      BY <2>1 DEF SetBefore, Lines, Setting, LineText, WordOf, Until, Text
    <3> QED
      BY <2>1, <3>1, <3>2, SameFile DEF UpTo, Sound, IsStored, Between
  <2> QED
    BY <2>1, <2>2, <2>3, <2>4, <2>5, SameFile DEF FileInv
<1>2. CASE Serve
  <2>1. /\ pc' = "serving" /\ file' = <<>> /\ offset' = 0 /\ config' = config
    BY <1>2 DEF Serve
  <2>2. <<>> \in Seq(Chars) /\ 0 \in 0 .. Len(<<>>)
    OBVIOUS
  <2>3. TypeOK' /\ (DOMAIN config = Names)'
    <3>1. file' \in Seq(Chars) /\ offset' \in 0 .. Len(file')
      BY <2>1, <2>2
    <3> QED
      BY <2>1, <3>1 DEF FileInv, TypeOK
  <2> QED
    BY <2>1, <2>3 DEF FileInv, StoreIsFile
<1>3. CASE ReadFile
  BY <1>3, OpenStep, FinishStep, PassStep, SetKeyStep DEF ReadFile, Reload
<1>4. CASE Exchange \/ UNCHANGED allVars
  BY <1>1, <1>4 DEF Exchange, allVars
<1> QED
  BY <1>2, <1>3, <1>4 DEF Next

-----------------------------------------------------------------------------
(* The types of both, and the file.                                         *)
AllInv == ConfigurationInv /\ FileInv /\ InBounds

(* Every initial state.                                                     *)
LEMMA AllInit == ConfigurationInit => AllInv
  BY InitInv, FileInit, BoundsInit DEF ConfigurationInit, AllInv

(* Every step.                                                              *)
LEMMA AllNext == AllInv /\ [Next]_allVars => AllInv'
<1> SUFFICES ASSUME AllInv, [Next]_allVars
             PROVE  AllInv'
  OBVIOUS
<1>1. ConfigurationInv' /\ FileInv'
  BY NextInv, FileNext DEF AllInv
<1>2. ASSUME Exchange
      PROVE  InBounds'
  <2>1. ExchangeInv /\ X!Next /\ InBounds /\ UNCHANGED config
    BY <1>2, InvInv DEF Exchange, AllInv, vars
  <2> QED
    BY <2>1, BoundsNext
<1>3. ASSUME UNCHANGED exchange
      PROVE  InBounds'
  <2>1. UNCHANGED <<up, answering, boot>>
    BY <1>3 DEF exchange
  <2> QED
    BY <2>1 DEF AllInv, InBounds
<1>4. InBounds'
  BY <1>2, <1>3 DEF Next, ReadFile, Serve, allVars
<1> QED
  BY <1>1, <1>4 DEF AllInv

(* What the file says and what has been told of it have their types:        *)
(* numbers are within those of their keys, whatever from_chars made of them.*)
THEOREM Types == Spec => []AllTypeOK
<1>1. AllInv => AllTypeOK
  <2> SUFFICES ASSUME AllInv
               PROVE  AllTypeOK
    OBVIOUS
  <2>1. X!TypeOK
    BY InvInv, TypesHold DEF AllInv
  <2> QED
    BY <2>1 DEF AllInv, FileInv, AllTypeOK
<1> QED
  BY <1>1, AllInit, AllNext, PTL DEF Spec

(* reload_config reads pairs over ends of lines, and yet what it stores is  *)
(* what the file says line by line, up to the first value that is invalid.  *)
THEOREM ReadsLineByLine == Spec => []StoreIsFile
<1>1. AllInv => StoreIsFile
  BY DEF AllInv, FileInv
<1> QED
  BY <1>1, AllInit, AllNext, PTL DEF Spec

=============================================================================
