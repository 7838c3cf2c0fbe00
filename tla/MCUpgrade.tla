------------------------------ MODULE MCUpgrade -----------------------------
(***************************************************************************)
(* A small instance of Upgrade.  Three commands let an operation that was  *)
(* given up be followed by an STLS and by a login; operations begun before *)
(* the bound is reached run to their end.                                  *)
(***************************************************************************)
EXTENDS Upgrade
=============================================================================
