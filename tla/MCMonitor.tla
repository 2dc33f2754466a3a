----------------------------- MODULE MCMonitor -----------------------------
(* The monitor with a few processes; the configurations give the bounds. *)
EXTENDS Monitor
=============================================================================
