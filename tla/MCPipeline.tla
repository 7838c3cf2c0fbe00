----------------------------- MODULE MCPipeline -----------------------------
(***************************************************************************)
(* Small instances of Pipeline: windows of two, a batch of three ids, two  *)
(* of them the same, and batches that are refused or empty.  Message 1 is  *)
(* a text line, message 2 a line that is not UTF-8.                        *)
(***************************************************************************)
EXTENDS Pipeline

MCContent == [m \in Msgs |-> IF m = 2 THEN <<"raw">> ELSE <<"text">>]
MCIdLists == {<<1, 3, 1>>, <<2>>, <<1, BadInput>>, <<>>}
MCRetrLists == {<<1, 3>>}
=============================================================================
