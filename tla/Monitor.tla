------------------------------ MODULE Monitor ------------------------------
(***************************************************************************)
(* The monitor: it starts the receiver, learns from SIGCHLD that something  *)
(* happened to it and starts it again (main/src/monitor.cpp, main_async and *)
(* interrupt_signal of main/src/main.cpp).  Of the receiver it matters here *)
(* whether it lives, whether it has got the port to listen on (start in     *)
(* smtp/src/main.cpp) and whether somebody has stopped it.                  *)
(*                                                                         *)
(* Three loops end for good when what they wait for fails: that for         *)
(* signals, and handle_eipc of the monitor and of a receiver.               *)
(***************************************************************************)
EXTENDS Naturals, FiniteSets

CONSTANTS
  MaxPids,   \* bound: processes that can be forked
  MaxStops,  \* bound: times that somebody stops a receiver
  None       \* no process

ASSUME BoundsAssumption == MaxPids \in Nat /\ MaxStops \in Nat

Pids == 1 .. MaxPids

ASSUME NoneAssumption == None \notin Pids

VARIABLES
  child,     \* the receivers, by pid in the order of their forks
  stopped,   \* those that a signal has stopped
  running,   \* the monitor runs
  reading,   \* its loop for signals
  answering, \* its handle_eipc
  watched,   \* pid of its one entry; None is the -1 of a failed fork
  children,  \* the processes that the running monitor forked
  pending,   \* the process that the pending SIGCHLD is about, or None
  engaged,   \* the receiver that is being configured, or was when it died
  deaf,      \* the living receivers whose handle_eipc has ended
  stops,     \* number of stops so far
  mistaken   \* history: a receiver that was not dead has been replaced

vars == <<child, stopped, running, reading, answering, watched, children, pending, engaged,
          deaf, stops, mistaken>>

(* "idle": a receiver without the port; "mute": one that has bound it and   *)
(* accepts nobody.                                                          *)
Living == {"starting", "serving", "idle", "mute"}

States == Living \cup {"unborn", "dead"}

Alive == {p \in Pids : child[p] \in Living}

TypeOK ==
  /\ child \in [Pids -> States]
  /\ stopped \subseteq Alive
  /\ running \in BOOLEAN /\ reading \in BOOLEAN /\ answering \in BOOLEAN
  /\ watched \in Pids \cup {None}
  /\ children \subseteq Pids
  /\ pending \in children \cup {None}
  /\ engaged \in Pids \cup {None}
  /\ deaf \subseteq Alive
  /\ stops \in 0 .. MaxStops
  /\ mistaken \in BOOLEAN

Init ==
  /\ child = [p \in Pids |-> "unborn"]
  /\ stopped = {}
  /\ running = FALSE /\ reading = FALSE /\ answering = FALSE
  /\ watched = None
  /\ children = {}
  /\ pending = None
  /\ engaged = None
  /\ deaf = {}
  /\ stops = 0
  /\ mistaken = FALSE

-----------------------------------------------------------------------------
(* The next pid, if there is one.                                           *)
Fresh == {p \in Pids : child[p] = "unborn" /\ \A q \in 1 .. p - 1 : child[q] # "unborn"}

KeepPid(before) ==  \* mutant: the pid of another receiver than the first is not stored
  \E p \in Fresh :
    /\ child' = [child EXCEPT ![p] = "starting"]
    /\ watched' = IF watched = None THEN p ELSE watched
    /\ children' = before \cup {p}

(* monitor::enter: the result of fork is the pid of the entry, a failure    *)
(* included.                                                                *)
Enter(before) ==
  \/ \E p \in Fresh :
       /\ child' = [child EXCEPT ![p] = "starting"]
       /\ watched' = p
       /\ children' = before \cup {p}
  \/ /\ watched' = None
     /\ children' = before
     /\ UNCHANGED child

(* main_async: SIGCHLD is blocked and read from a descriptor from the       *)
(* start, so none is missed between fork and the loop.                      *)
Start ==
  /\ ~running
  /\ Fresh # {}
  /\ running' = TRUE /\ reading' = TRUE /\ answering' = TRUE
  /\ Enter({})
  /\ UNCHANGED <<stopped, pending, engaged, deaf, stops, mistaken>>

(* SIGINT: main returns.  The receivers live on and are nobody's.           *)
Exit ==
  /\ running
  /\ running' = FALSE /\ reading' = FALSE /\ answering' = FALSE
  /\ watched' = None
  /\ children' = {}
  /\ pending' = None
  /\ engaged' = None
  /\ UNCHANGED <<child, stopped, deaf, stops, mistaken>>

-----------------------------------------------------------------------------
RaiseAny(p) == pending' = IF pending = None THEN p ELSE pending  \* mutant: not the parent's

RaiseLate(p) ==  \* mutant: SIGCHLD is blocked only when the receiver has started
  pending' = IF p \in children /\ pending = None /\ child[p] # "starting" THEN p ELSE pending

(* SIGCHLD for p: only to the parent, and only if none is pending.          *)
Raise(p) == pending' = IF p \in children /\ pending = None THEN p ELSE pending

(* The monitor configures one receiver at a time (ConfigExchange).          *)
Configure(p) ==
  /\ running /\ answering /\ engaged = None
  /\ child[p] = "starting" /\ p \notin stopped
  /\ engaged' = p
  /\ UNCHANGED <<child, stopped, running, reading, answering, watched, children, pending,
                 deaf, stops, mistaken>>

(* A recv_request that fails ends the monitor's handle_eipc.                *)
AnsweringEnds ==
  /\ running /\ answering /\ engaged = None
  /\ answering' = FALSE
  /\ UNCHANGED <<child, stopped, running, reading, watched, children, pending, engaged, deaf,
                 stops, mistaken>>

PortTaken == \E q \in Pids : child[q] \in {"serving", "mute"}

(* A change of one receiver, seen by nobody else.                           *)
Becomes(p, s) ==
  /\ child' = [child EXCEPT ![p] = s]
  /\ UNCHANGED <<stopped, running, reading, answering, watched, children, pending, deaf, stops,
                 mistaken>>

(* With its configuration the receiver binds the port, or finds it taken    *)
(* and never tries again.                                                   *)
Listen(p) ==
  /\ running /\ engaged = p
  /\ child[p] = "starting" /\ p \notin stopped \cup deaf
  /\ engaged' = None
  /\ Becomes(p, IF PortTaken THEN "idle" ELSE "serving")

(* A request failed, its own for the configuration or one of the monitor's  *)
(* for a key, and nobody looks at that, or its handle_eipc ended behind the *)
(* last key: it goes on with what it has.  It binds the port that it knows, *)
(* if that is free, and without a hostname listen returns.                  *)
GoesOn(p) ==
  /\ child[p] = "starting" /\ p \notin stopped
  /\ engaged' = IF engaged = p THEN None ELSE engaged
  /\ \/ Becomes(p, "idle")
     \/ ~PortTaken /\ \E s \in {"serving", "mute"} : Becomes(p, s)

(* A recv_request that fails ends the handle_eipc of a receiver, which      *)
(* matters before it has its configuration.                                 *)
HandlerEnds(p) ==
  /\ child[p] = "starting" /\ p \notin stopped \cup deaf
  /\ deaf' = deaf \cup {p}
  /\ UNCHANGED <<child, stopped, running, reading, answering, watched, children, pending,
                 engaged, stops, mistaken>>

(* An accept that fails ends the loop of listen: the port stays bound.      *)
AcceptFails(p) ==
  /\ child[p] = "serving" /\ p \notin stopped
  /\ UNCHANGED engaged
  /\ Becomes(p, "mute")

(* A receiver dies, while there are pids left for another.  If it was being *)
(* configured the monitor may wait for its next answer for good.            *)
Die(p) ==
  /\ p \in Alive
  /\ Fresh # {}
  /\ child' = [child EXCEPT ![p] = "dead"]
  /\ stopped' = stopped \ {p}
  /\ Raise(p)
  /\ engaged' \in {engaged} \cup (IF engaged = p THEN {None} ELSE {})
  /\ deaf' = deaf \ {p}
  /\ UNCHANGED <<running, reading, answering, watched, children, stops, mistaken>>

(* A debugger or an operator stops a receiver, and lets it go on.           *)
Stop(p) ==
  /\ p \in Alive \ stopped
  /\ stops < MaxStops
  /\ stops' = stops + 1
  /\ stopped' = stopped \cup {p}
  /\ Raise(p)
  /\ UNCHANGED <<child, running, reading, answering, watched, children, engaged, deaf, mistaken>>

Continue(p) ==
  /\ p \in stopped
  /\ stopped' = stopped \ {p}
  /\ Raise(p)
  /\ UNCHANGED <<child, running, reading, answering, watched, children, engaged, deaf, stops,
                 mistaken>>

-----------------------------------------------------------------------------
(* A signal.get that fails ends the loop.                                   *)
LoopFails ==
  /\ running /\ reading
  /\ reading' = FALSE
  /\ UNCHANGED <<child, stopped, running, answering, watched, children, pending, engaged, deaf,
                 stops, mistaken>>

(* monitor::signal for the pid of the SIGCHLD.  waitpid reaps a dead child  *)
(* and finds nothing for one that was stopped or continued; its result is   *)
(* not looked at, and a receiver is started in any case.                    *)
Signal ==
  /\ running /\ reading
  /\ pending # None
  /\ pending' = None
  /\ \/ /\ pending = watched
        /\ Enter(children)
        /\ mistaken' = (mistaken \/ pending \in Alive)
     \/ /\ pending # watched
        /\ UNCHANGED <<child, watched, children, mistaken>>
  /\ UNCHANGED <<stopped, running, reading, answering, engaged, deaf, stops>>

Next ==
  \/ Start \/ Exit \/ Signal \/ LoopFails \/ AnsweringEnds
  \/ \E p \in Pids :
       \/ Configure(p) \/ Listen(p) \/ GoesOn(p) \/ HandlerEnds(p) \/ AcceptFails(p)
       \/ Die(p) \/ Stop(p) \/ Continue(p)

Spec == Init /\ [][Next]_vars

(* The monitor gets around to its signals and to the requests of its own    *)
(* receivers, for as long as the loops for them run.                        *)
FairSpec ==
  /\ Spec /\ WF_vars(Signal)
  /\ \A p \in Pids : WF_vars(p \in children /\ Configure(p)) /\ WF_vars(Listen(p))

-----------------------------------------------------------------------------
(* Until a stopped receiver has been taken for a dead one, the monitor has  *)
(* one living receiver at most, and it is the one it watches.               *)
OneReceiver == ~mistaken => \A p \in children \cap Alive : p = watched

(* Until then no death goes unnoticed, although signals are not queued: the *)
(* one that is pending is about the receiver that died.                     *)
DeathIsSeen ==
  ~mistaken /\ watched # None /\ watched \notin Alive => pending = watched

(* All loops run, the receiver is watched, no other has taken its port, no  *)
(* request for its configuration has failed, and the monitor does not wait  *)
(* for another.                                                             *)
Undisturbed ==
  /\ running /\ reading /\ answering /\ ~mistaken
  /\ watched # None /\ watched \notin deaf /\ child[watched] \notin {"idle", "mute"}
  /\ engaged \in {None, watched}

(* Then somebody serves, or will again, however often a receiver dies: its  *)
(* SIGCHLD, main_async's mask and monitor::signal see to it.                *)
ServesAgain ==
  Undisturbed ~> (\E p \in Pids : child[p] = "serving") \/ ~Undisturbed

(* A receiver is replaced only when it is dead: the log says "terminated".  *)
ReplacedIsDead ==
  [][running' /\ watched # None /\ watched' # watched => watched \notin Alive]_vars

=============================================================================
