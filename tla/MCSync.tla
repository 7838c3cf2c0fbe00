------------------------------- MODULE MCSync -------------------------------
(***************************************************************************)
(* A small instance of Sync.  With two messages the second one changes its *)
(* number when the first is removed, which is when a number names another  *)
(* message, or none, and when a count stands for the wrong ids.            *)
(***************************************************************************)
EXTENDS Sync
=============================================================================
