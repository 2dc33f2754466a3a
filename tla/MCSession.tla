----------------------------- MODULE MCSession -----------------------------
(* The receiver on small instances. *)
EXTENDS Session, TLC

CONSTANTS c1, c2, p1, p2, d1

(* MaxLine is 3 and LineCap 4 in the runs: a line that is only a dot, one   *)
(* that starts with a dot and is as long as it may be, so that its stuffed  *)
(* form just fits the buffer, a plain one too long, and one that does not   *)
(* fit the buffer.                                                          *)
AllLines ==
  {[dots |-> 1, len |-> 0], [dots |-> 1, len |-> 2],
   [dots |-> 0, len |-> 4], [dots |-> 1, len |-> 4]}

(* The line that is only a dot.  *)
OneLine == {[dots |-> 1, len |-> 0]}

(* A refused command changes nothing but the reply, so what follows it also *)
(* follows from the state before: a run may leave its successors out.       *)
AfterRefusal == \A c \in Conns : sess[c].reply # "refused"

Peers == Permutations({c1, c2})

=============================================================================
