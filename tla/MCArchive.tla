----------------------------- MODULE MCArchive -----------------------------
(* Archives of a few blocks; the configuration gives the sizes. *)
EXTENDS Archive
=============================================================================
