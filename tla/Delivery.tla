------------------------------ MODULE Delivery ------------------------------
(***************************************************************************)
(* What the receiver promises: a message that it takes responsibility for   *)
(* (the 250 after the end of data) was stored before, as the client sent    *)
(* it, and what is stored is never changed, and removed by nothing but a    *)
(* failure of power.  `doubtful` are the names for which the storage device *)
(* reported a failure, `lost` those that a failure of power met: nothing is *)
(* stored or promised under them any more.                                  *)
(***************************************************************************)
VARIABLES
  stored,    \* the messages in safe storage, by name
  promised,  \* the messages taken responsibility for: [name, content]
  doubtful,
  lost

Init ==
  /\ stored = [n \in {} |-> {}]
  /\ promised = {}
  /\ doubtful = {}
  /\ lost = {}

IsPromised(n) == \E m \in promised : m.name = n

(* A step names the message or the file it is about by what it adds.       *)
Store ==
  \E n \in DOMAIN stored' \ (DOMAIN stored \cup lost) :
    /\ ~IsPromised(n)
    /\ stored' = [x \in DOMAIN stored \cup {n} |->
                    IF x = n THEN stored'[n] ELSE stored[x]]
    /\ UNCHANGED <<promised, doubtful, lost>>

Doubt ==
  \E n \in doubtful' \ (doubtful \cup lost) :
    /\ ~IsPromised(n)
    /\ doubtful' = doubtful \cup {n}
    /\ UNCHANGED <<stored, promised, lost>>

Promise ==
  \E m \in promised' \ promised :
    /\ ~IsPromised(m.name)
    /\ m.name \notin lost
    /\ \/ m.name \in DOMAIN stored /\ stored[m.name] = m.content
       \/ m.name \in doubtful
    /\ promised' = promised \cup {m}
    /\ UNCHANGED <<stored, doubtful, lost>>

(* Whatever was there may go, and the rest stays as it was.                 *)
PowerFailure ==
  /\ lost \subseteq lost' /\ lost' # lost
  /\ stored' = [n \in DOMAIN stored \ lost' |-> stored[n]]
  /\ UNCHANGED <<promised, doubtful>>

Next == Store \/ Doubt \/ Promise \/ PowerFailure

Spec == Init /\ [][Next]_<<stored, promised, doubtful, lost>>

=============================================================================
