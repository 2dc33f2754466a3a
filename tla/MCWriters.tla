----------------------------- MODULE MCWriters ------------------------------
EXTENDS Writers

(* The limits of the code; hostnames around them; any small int, and large ones. *)
MCHostLens == (0 .. 3) \cup (25 .. 60) \cup {254, 980, 985, 988, 990, 1000}
MCLeftovers == (-50 .. 90) \cup {-2000000000, -1100, -1000, -900, 1000, 2000000000}

=============================================================================
