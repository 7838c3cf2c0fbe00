--------------------------- MODULE MCPop3Session ----------------------------
(***************************************************************************)
(* Small instances of Pop3Session.  Message 1 is two text lines; message 2 *)
(* is a line that is not UTF-8 followed by a text line.                    *)
(***************************************************************************)
EXTENDS Pop3Session

MCContent == [m \in Msgs |-> IF m = 1 THEN <<"text", "text">> ELSE <<"raw", "text">>]
=============================================================================
