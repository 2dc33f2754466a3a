------------------------------ MODULE Writers ------------------------------
(* The two writers of a message file.  A session uses the one when it opens *)
(* the file and the other at its end; neither finds anything of the other.  *)
EXTENDS MetaLines, Integers

CONSTANTS HostLens, Leftovers, Preferred, MaxLine

VARIABLES
  which,  \* the writer that this behaviour is about
  parts, line_length, next, out, hpc

headerVars == <<parts, line_length, next, out, hpc>>

H == INSTANCE HeaderWriter WITH pc <- hpc

ASSUME HeaderAssumption == H!Sensible

(* The variables of the writer that a behaviour is not about stay as they   *)
(* are: those of the metadata as they begin, for its shortest lines.        *)
Shortest == \A n \in LineLens : len <= n

NoHeader == parts = <<>> /\ line_length = 0 /\ next = 1 /\ out = <<>> /\ hpc = "done"

WritersInit ==
  \/ which = "header" /\ Init /\ Shortest /\ H!Init
  \/ which = "metadata" /\ Init /\ NoHeader

WritersNext ==
  \/ which = "header" /\ H!Next /\ UNCHANGED <<which, vars>>
  \/ which = "metadata" /\ Next /\ UNCHANGED <<which, headerVars>>

WritersSpec == WritersInit /\ [][WritersNext]_<<which, vars, headerVars>>

(* Every variable of the header has its type, and the header unfolds to its *)
(* parts (write_body_part).                                                 *)
HeaderUnfolds == H!TypeOK /\ H!UnfoldsToParts

(* The lines of the header are as short as its parts allow                  *)
(* (write_body_part).                                                       *)
HeaderLinesFit == H!LinesFit
=============================================================================
