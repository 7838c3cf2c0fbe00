---------------------------- MODULE MCReconnect -----------------------------
(***************************************************************************)
(* Small instances of Reconnect: deletions of one message (dele) and of    *)
(* two at once (dele_many).                                                *)
(***************************************************************************)
EXTENDS Reconnect

MCBatches == {{1, 2}}
=============================================================================
