---------------------------- MODULE MonitorProofs ----------------------------
(***************************************************************************)
(* That the monitor has one receiver and misses no death, for any number of *)
(* receivers, stops and monitors, as long as no stopped receiver has been   *)
(* taken for a dead one.                                                    *)
(***************************************************************************)
EXTENDS Monitor, TLAPS

(* A monitor that does not run has nothing, and one that runs watches one   *)
(* of the processes that it forked.                                         *)
OwnChildren ==
  /\ ~running => children = {} /\ watched = None /\ pending = None
  /\ watched # None => watched \in children

(* SIGCHLD does not queue, but what is pending is never about another       *)
(* process than the one that is watched: that is why none is missed.        *)
PendingIsWatched == ~mistaken => pending \in {None, watched}

MonInv == TypeOK /\ OwnChildren /\ PendingIsWatched /\ OneReceiver /\ DeathIsSeen

-----------------------------------------------------------------------------
(* What Alive is after a step that changes one receiver.                    *)
LEMMA AliveAfter ==
  ASSUME child \in [Pids -> States], NEW p \in Pids, NEW s \in States,
         child' = [child EXCEPT ![p] = s]
  PROVE  /\ child' \in [Pids -> States]
         /\ s \in Living => Alive' = Alive \cup {p}
         /\ s = "dead" => Alive' = Alive \ {p}
<1>1. child' \in [Pids -> States] /\ child'[p] = s /\ \A q \in Pids \ {p} : child'[q] = child[q]
  OBVIOUS
<1>2. s \in Living => Alive' = Alive \cup {p}
  BY <1>1 DEF Alive
<1>3. s = "dead" => Alive' = Alive \ {p}
  BY <1>1 DEF Alive, Living
<1>4. QED
  BY <1>1, <1>2, <1>3

(* monitor::enter, when none of the processes before lives.                 *)
LEMMA EnterStep ==
  ASSUME TypeOK, NEW before \in SUBSET Pids, Enter(before)
  PROVE  /\ child' \in [Pids -> States]
         /\ watched' \in Pids \cup {None} /\ children' \subseteq Pids
         /\ Alive \subseteq Alive' /\ before \subseteq children'
         /\ watched' # None => watched' \in children' /\ watched' \in Alive'
         /\ before \cap Alive = {} => \A q \in children' \cap Alive' : q = watched'
<1>1. CASE watched' = None /\ children' = before /\ UNCHANGED child
  <2>1. Alive' = Alive
    BY <1>1 DEF Alive
  <2>2. QED
    BY <1>1, <2>1 DEF TypeOK
<1>2. ASSUME NEW p \in Fresh, child' = [child EXCEPT ![p] = "starting"], watched' = p,
             children' = before \cup {p}
      PROVE  /\ child' \in [Pids -> States]
             /\ watched' \in Pids \cup {None} /\ children' \subseteq Pids
             /\ Alive \subseteq Alive' /\ before \subseteq children'
             /\ watched' # None => watched' \in children' /\ watched' \in Alive'
             /\ before \cap Alive = {} => \A q \in children' \cap Alive' : q = watched'
  <2>1. p \in Pids /\ "starting" \in States \cap Living /\ child \in [Pids -> States]
    BY DEF Fresh, States, Living, TypeOK
  <2>2. child' \in [Pids -> States] /\ Alive' = Alive \cup {p}
    BY <1>2, <2>1, AliveAfter
  <2>3. QED
    BY <1>2, <2>1, <2>2
<1>3. QED
  BY <1>1, <1>2 DEF Enter

-----------------------------------------------------------------------------
(* A step that leaves what the monitor watches alone and kills nobody.      *)
LEMMA QuietStep ==
  ASSUME MonInv, child' \in [Pids -> States], Alive' = Alive,
         stopped' \subseteq Alive, deaf' \subseteq Alive, engaged' \in Pids \cup {None},
         stops' \in 0 .. MaxStops, reading' \in BOOLEAN, answering' \in BOOLEAN,
         UNCHANGED <<running, watched, children, mistaken>>,
         \/ UNCHANGED pending
         \/ \E p \in Alive : Raise(p)
  PROVE  MonInv'
<1>1. TypeOK'
  BY DEF MonInv, TypeOK, Raise
<1>2. OwnChildren'
  BY DEF MonInv, OwnChildren, Raise
<1>3. PendingIsWatched' /\ DeathIsSeen'
  BY DEF MonInv, PendingIsWatched, OneReceiver, DeathIsSeen, Raise
<1>4. OneReceiver'
  BY DEF MonInv, OneReceiver
<1>5. QED
  BY <1>1, <1>2, <1>3, <1>4 DEF MonInv

(* A monitor starts, and forks its receiver.                                *)
LEMMA StartStep == ASSUME MonInv, Start PROVE MonInv'
<1>1. /\ TypeOK /\ children = {} /\ watched = None /\ pending = None /\ running' = TRUE
      /\ reading' = TRUE /\ answering' = TRUE
      /\ UNCHANGED <<stopped, pending, engaged, deaf, stops, mistaken>>
  BY DEF MonInv, OwnChildren, Start
<1>2. Enter({}) /\ {} \in SUBSET Pids /\ {} \cap Alive = {}
  BY DEF Start
<1>3. /\ child' \in [Pids -> States]
      /\ watched' \in Pids \cup {None} /\ children' \subseteq Pids
      /\ Alive \subseteq Alive'
      /\ watched' # None => watched' \in children' /\ watched' \in Alive'
      /\ \A q \in children' \cap Alive' : q = watched'
  BY <1>1, <1>2, EnterStep
<1>4. TypeOK'
  BY <1>1, <1>3 DEF TypeOK
<1>5. OwnChildren' /\ PendingIsWatched' /\ OneReceiver' /\ DeathIsSeen'
  BY <1>1, <1>3 DEF OwnChildren, PendingIsWatched, OneReceiver, DeathIsSeen
<1>6. QED
  BY <1>4, <1>5 DEF MonInv

(* The monitor ends; its receiver lives on.                                 *)
LEMMA ExitStep == ASSUME MonInv, Exit PROVE MonInv'
<1>1. Alive' = Alive
  BY DEF Exit, Alive
<1>2. TypeOK'
  BY <1>1 DEF MonInv, TypeOK, Exit
<1>3. OwnChildren' /\ PendingIsWatched' /\ OneReceiver' /\ DeathIsSeen'
  BY DEF Exit, OwnChildren, PendingIsWatched, OneReceiver, DeathIsSeen
<1>4. QED
  BY <1>2, <1>3 DEF MonInv

(* A pending signal is handled: it is about the receiver that is watched.   *)
LEMMA SignalStep == ASSUME MonInv, Signal PROVE MonInv'
<1>1. TypeOK /\ running /\ pending # None /\ pending' = None
      /\ UNCHANGED <<stopped, running, reading, answering, engaged, deaf, stops>>
  BY DEF MonInv, Signal
<1>2. CASE pending = watched /\ Enter(children) /\ mistaken' = (mistaken \/ pending \in Alive)
  <2>1. children \in SUBSET Pids
    BY <1>1 DEF TypeOK
  <2>2. ~mistaken' => children \cap Alive = {}
    BY <1>2 DEF MonInv, OneReceiver
  <2>3. /\ child' \in [Pids -> States]
        /\ watched' \in Pids \cup {None} /\ children' \subseteq Pids
        /\ Alive \subseteq Alive'
        /\ watched' # None => watched' \in children' /\ watched' \in Alive'
        /\ children \cap Alive = {} => \A q \in children' \cap Alive' : q = watched'
    BY <1>1, <1>2, <2>1, EnterStep
  <2>4. TypeOK'
    BY <1>1, <1>2, <2>3 DEF TypeOK
  <2>5. OwnChildren' /\ PendingIsWatched' /\ DeathIsSeen'
    BY <1>1, <2>3 DEF OwnChildren, PendingIsWatched, DeathIsSeen
  <2>6. OneReceiver'
    BY <2>2, <2>3 DEF OneReceiver
  <2>7. QED
    BY <2>4, <2>5, <2>6 DEF MonInv
<1>3. CASE pending # watched /\ UNCHANGED <<child, watched, children, mistaken>>
  <2>1. mistaken
    BY <1>1, <1>3 DEF MonInv, PendingIsWatched
  <2>2. Alive' = Alive
    BY <1>3 DEF Alive
  <2>3. TypeOK'
    BY <1>1, <1>3, <2>2 DEF TypeOK
  <2>4. OwnChildren' /\ PendingIsWatched' /\ OneReceiver' /\ DeathIsSeen'
    BY <1>1, <1>3, <2>1 DEF MonInv, OwnChildren, PendingIsWatched, OneReceiver, DeathIsSeen
  <2>5. QED
    BY <2>3, <2>4 DEF MonInv
<1>4. QED
  BY <1>2, <1>3 DEF Signal

(* The death of a receiver, which is pending if it is watched.              *)
LEMMA DieStep == ASSUME MonInv, NEW p \in Pids, Die(p) PROVE MonInv'
<1>1. /\ TypeOK /\ p \in Alive /\ stopped' = stopped \ {p} /\ Raise(p)
      /\ child' = [child EXCEPT ![p] = "dead"]
      /\ engaged' \in {engaged, None}
      /\ deaf' = deaf \ {p}
      /\ UNCHANGED <<running, reading, answering, watched, children, stops, mistaken>>
  BY DEF MonInv, Die
<1>2. child' \in [Pids -> States] /\ Alive' = Alive \ {p}
  <2>1. "dead" \in States /\ child \in [Pids -> States]
    BY <1>1 DEF States, TypeOK
  <2>2. QED
    BY <1>1, <2>1, AliveAfter
<1>3. TypeOK'
  BY <1>1, <1>2 DEF TypeOK, Raise
<1>4. OwnChildren'
  BY <1>1 DEF MonInv, OwnChildren, Raise
<1>5. ~mistaken /\ p \in children => p = watched
  BY <1>1 DEF MonInv, OneReceiver
<1>6. PendingIsWatched'
  BY <1>1, <1>5 DEF MonInv, PendingIsWatched, Raise
<1>7. OneReceiver'
  BY <1>1, <1>2 DEF MonInv, OneReceiver
<1>8. DeathIsSeen'
  <2> SUFFICES ASSUME ~mistaken, watched # None, watched \notin Alive'
               PROVE  pending' = watched
    BY <1>1 DEF DeathIsSeen
  <2>1. CASE watched = p
    <3>1. p \in children /\ pending \in {None, watched}
      BY <2>1 DEF MonInv, OwnChildren, PendingIsWatched
    <3>2. QED
      BY <1>1, <2>1, <3>1 DEF Raise
  <2>2. CASE watched # p
    <3>1. pending = watched
      BY <1>2, <2>2 DEF MonInv, DeathIsSeen
    <3>2. QED
      BY <1>1, <3>1 DEF Raise
  <2>3. QED
    BY <2>1, <2>2
<1>9. QED
  BY <1>3, <1>4, <1>6, <1>7, <1>8 DEF MonInv

(* A living receiver that goes on to live.                                  *)
LEMMA BecomesStep ==
  ASSUME MonInv, NEW p \in Alive, NEW s \in Living, Becomes(p, s),
         engaged' \in Pids \cup {None}
  PROVE  MonInv'
<1>1. /\ child \in [Pids -> States] /\ stopped \subseteq Alive /\ deaf \subseteq Alive
      /\ stops \in 0 .. MaxStops /\ reading \in BOOLEAN /\ answering \in BOOLEAN
  BY DEF MonInv, TypeOK
<1>2. /\ child' = [child EXCEPT ![p] = s]
      /\ UNCHANGED <<stopped, running, reading, answering, watched, children, pending, deaf,
                     stops, mistaken>>
  BY DEF Becomes
<1>3. p \in Pids /\ s \in States
  BY DEF Alive, States
<1>4. child' \in [Pids -> States] /\ Alive' = Alive \cup {p}
  BY <1>1, <1>2, <1>3, AliveAfter
<1>5. Alive' = Alive
  BY <1>4
<1>6. QED
  BY <1>1, <1>2, <1>4, <1>5, QuietStep

(* The steps of a receiver that leave its life as it is.                    *)
LEMMA ReceiverStep ==
  ASSUME MonInv, NEW p \in Pids,
         \/ Configure(p) \/ Listen(p) \/ GoesOn(p) \/ HandlerEnds(p) \/ AcceptFails(p)
         \/ Stop(p) \/ Continue(p)
  PROVE  MonInv'
<1>1. /\ child \in [Pids -> States] /\ stopped \subseteq Alive /\ deaf \subseteq Alive
      /\ stops \in 0 .. MaxStops /\ reading \in BOOLEAN /\ answering \in BOOLEAN
      /\ engaged \in Pids \cup {None}
  BY DEF MonInv, TypeOK
<1>2. child[p] \in {"starting", "serving"} => p \in Alive
  BY DEF Alive, Living
<1>3. {"idle", "mute", "serving"} \subseteq Living
  BY DEF Living
<1>4. CASE Configure(p) \/ HandlerEnds(p)
  <2>1. Alive' = Alive /\ UNCHANGED <<child, running, watched, children, pending, mistaken>>
    BY <1>4 DEF Configure, HandlerEnds, Alive
  <2>2. /\ UNCHANGED <<stopped, stops, reading, answering>>
        /\ engaged' \in Pids \cup {None} /\ deaf' \subseteq Alive
    BY <1>1, <1>2, <1>4 DEF Configure, HandlerEnds
  <2>3. QED
    BY <1>1, <2>1, <2>2, QuietStep
<1>5. CASE Listen(p)
  BY <1>2, <1>3, <1>5, BecomesStep DEF Listen
<1>6. CASE GoesOn(p)
  BY <1>1, <1>2, <1>3, <1>6, BecomesStep DEF GoesOn
<1>7. CASE AcceptFails(p)
  BY <1>1, <1>2, <1>3, <1>7, BecomesStep DEF AcceptFails
<1>8. CASE Stop(p)
  <2>1. Alive' = Alive /\ p \in Alive /\ Raise(p)
    BY <1>8 DEF Stop, Alive
  <2>2. stops' \in 0 .. MaxStops
    BY <1>1, <1>8, BoundsAssumption DEF Stop
  <2>3. stopped' \subseteq Alive
    BY <1>1, <1>8, <2>1 DEF Stop
  <2>4. QED
    BY <1>1, <1>8, <2>1, <2>2, <2>3, QuietStep DEF Stop
<1>9. CASE Continue(p)
  <2>1. Alive' = Alive /\ p \in Alive /\ Raise(p)
    BY <1>1, <1>9 DEF Continue, Alive
  <2>2. stopped' \subseteq Alive
    BY <1>1, <1>9 DEF Continue
  <2>3. QED
    BY <1>1, <1>9, <2>1, <2>2, QuietStep DEF Continue
<1>10. QED
  BY <1>4, <1>5, <1>6, <1>7, <1>8, <1>9

(* The loops of the monitor that end.                                       *)
LEMMA EndStep ==
  ASSUME MonInv, LoopFails \/ AnsweringEnds
  PROVE  MonInv'
<1>1. Alive' = Alive
  BY DEF LoopFails, AnsweringEnds, Alive
<1>2. QED
  BY <1>1, QuietStep DEF LoopFails, AnsweringEnds, MonInv, TypeOK

-----------------------------------------------------------------------------
(* The initial state.                                                       *)
LEMMA MonInit == Init => MonInv
<1> SUFFICES ASSUME Init PROVE MonInv
  OBVIOUS
<1>1. TypeOK
  <2>1. 0 \in 0 .. MaxStops
    BY BoundsAssumption
  <2>2. QED
    BY <2>1 DEF Init, TypeOK, States
<1>2. OwnChildren /\ PendingIsWatched /\ OneReceiver /\ DeathIsSeen
  BY DEF Init, OwnChildren, PendingIsWatched, OneReceiver, DeathIsSeen
<1>3. QED
  BY <1>1, <1>2 DEF MonInv

(* Every step.                                                              *)
LEMMA MonNext == MonInv /\ [Next]_vars => MonInv'
<1> SUFFICES ASSUME MonInv, [Next]_vars PROVE MonInv'
  OBVIOUS
<1>1. CASE Start \/ Exit \/ Signal \/ LoopFails \/ AnsweringEnds
  BY <1>1, StartStep, ExitStep, SignalStep, EndStep
<1>2. ASSUME NEW p \in Pids,
             \/ Configure(p) \/ Listen(p) \/ GoesOn(p) \/ HandlerEnds(p) \/ AcceptFails(p)
             \/ Die(p) \/ Stop(p) \/ Continue(p)
      PROVE  MonInv'
  BY <1>2, DieStep, ReceiverStep
<1>3. CASE UNCHANGED vars
  BY <1>3 DEF vars, MonInv, TypeOK, Alive, OwnChildren, PendingIsWatched, OneReceiver, DeathIsSeen
<1>4. QED
  BY <1>1, <1>2, <1>3 DEF Next

(* MonInv holds in every reachable state of monitor.cpp and its receivers.  *)
THEOREM MonitorInvariant == Spec => []MonInv
  BY MonInit, MonNext, PTL DEF Spec

(* Every variable keeps its type: the pending SIGCHLD is about a process of *)
(* the running monitor, and who is stopped lives.                           *)
THEOREM MonitorTypes == Spec => []TypeOK
<1>1. MonInv => TypeOK
  BY DEF MonInv
<1>2. QED
  BY <1>1, MonitorInvariant, PTL

(* monitor::signal never starts a second receiver beside one that lives,    *)
(* unless that one had been stopped.                                        *)
THEOREM One == Spec => []OneReceiver
<1>1. MonInv => OneReceiver
  BY DEF MonInv
<1>2. QED
  BY <1>1, MonitorInvariant, PTL

(* A receiver that has died is the one that the pending SIGCHLD is about,   *)
(* although SIGCHLD does not queue.                                         *)
THEOREM NoDeathMissed == Spec => []DeathIsSeen
<1>1. MonInv => DeathIsSeen
  BY DEF MonInv
<1>2. QED
  BY <1>1, MonitorInvariant, PTL

=============================================================================
