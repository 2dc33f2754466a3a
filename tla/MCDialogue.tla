----------------------------- MODULE MCDialogue -----------------------------
(* Conversations of a few lines, cut up in every way. *)
EXTENDS Dialogue

CONSTANTS MaxLines, MaxStream, D, Q, x

MCDataCmd == <<D>>
MCQuitCmd == <<Q>>
MCLeftovers == {<<NUL, CR>>}

LineSet == {<<D>>, <<Q>>, <<Dot>>, <<Dot, Dot>>, <<>>, <<x, x, x>>, <<CR>>, <<x, x, x, x, x>>}

Joined(ls) == FoldLeft(LAMBDA s, l : s \o l \o <<CR, LF>>, <<>>, ls)

(* Any bytes: a recv may end anywhere, so that shorter ones are part of them.*)
Raw == [1 .. MaxStream -> {CR, LF, x}]

(* Each of them may start with a line feed that ends nothing. *)
MCStreams ==
  LET all == {Joined(ls) : ls \in UNION {[1 .. n -> LineSet] : n \in 0 .. MaxLines}}
  IN all \cup Raw \cup {<<LF>> \o Joined(<<<<D>>, l>>) : l \in LineSet}
=============================================================================
