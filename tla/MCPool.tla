------------------------------- MODULE MCPool -------------------------------
(***************************************************************************)
(* A small instance of Pool: one account that may be registered twice; the *)
(* second time its builder has credentials of its own.                     *)
(***************************************************************************)
EXTENDS Pool

CONSTANTS alice, t1, t2
MCKeys  == {alice}
MCTasks == {t1, t2}
=============================================================================
