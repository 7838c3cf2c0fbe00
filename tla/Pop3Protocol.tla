---------------------------- MODULE Pop3Protocol ----------------------------
(***************************************************************************)
(* The vocabulary of one POP3 connection: the commands Pop3Client writes,  *)
(* the lines it reads back, and how it classifies a status line.  Messages *)
(* are abstract; a line keeps its kind, the message it belongs to and the  *)
(* number of the command it answers.  That number is not on the wire: POP3 *)
(* pairs replies with commands by position alone, and `of' is what lets a  *)
(* property say that the pairing was right.                                *)
(***************************************************************************)
EXTENDS Integers, Sequences

CONSTANTS
  Msgs,       \* message numbers of the maildrop
  NoMsg,      \* "no message argument"
  BadInput,   \* an argument validation refuses: message 0, CR or LF in a name
  Pipe,       \* the text of a CAPA line announcing PIPELINING
  Content     \* Content[m]: the kinds of the lines of message m

ASSUME ArgumentsDistinct ==
  /\ NoMsg \notin Msgs /\ BadInput \notin Msgs /\ Pipe \notin Msgs
  /\ NoMsg # BadInput /\ NoMsg # Pipe /\ BadInput # Pipe
ASSUME ContentIsLines == Content \in [Msgs -> Seq({"text", "raw"})]

(***************************************************************************)
(* A line of the server.  "ok" and "err" are the two status lines, "dot"   *)
(* the multi-line terminator, "text" any other line and "raw" a line that  *)
(* is not valid UTF-8, which AsyncBufReadExt::read_line refuses.           *)
(***************************************************************************)
Kinds == {"ok", "err", "text", "raw", "dot"}
Line  == [of : Nat, kind : Kinds, msg : Msgs \cup {NoMsg, Pipe}]

(***************************************************************************)
(* The public operations, and the verbs they send.  LOGIN and APOP run     *)
(* several commands: USER, PASS and the CAPA probe; APOP and the probe.    *)
(***************************************************************************)
MessageOps == {"RETR", "TOP", "DELE"}
ListOps    == {"LIST", "UIDL"}
PlainOps   == {"STAT", "NOOP", "RSET"}
AuthOps    == {"LOGIN", "APOP"}
Ops   == MessageOps \cup ListOps \cup PlainOps \cup AuthOps \cup {"CAPA", "QUIT"}
Verbs == (Ops \ {"LOGIN"}) \cup {"USER", "PASS"}

FirstVerb(op) == IF op = "LOGIN" THEN "USER" ELSE op

(* The arguments a caller can pass to an operation. *)
ArgsOf(op) == (IF op \in MessageOps THEN Msgs ELSE {NoMsg})
              \cup (IF op \in ListOps THEN Msgs ELSE {})
              \cup (IF op \in MessageOps \cup ListOps \cup AuthOps
                    THEN {BadInput} ELSE {})

(* Which commands have a multi-line reply. *)
IsMulti(verb, msg) == \/ verb \in {"CAPA", "RETR", "TOP"}
                      \/ verb \in ListOps /\ msg = NoMsg

(* The text after +OK that the caller still has to parse. *)
IsParsed(verb, msg) == verb = "STAT" \/ (verb \in ListOps /\ msg # NoMsg)

Command == {c \in [id : Nat, verb : Verbs, msg : Msgs \cup {NoMsg}] :
              c.verb \in MessageOps => c.msg \in Msgs}

(***************************************************************************)
(* What the server sends for an accepted command.                          *)
(***************************************************************************)
LineOf(c, kind, msg) == [of |-> c.id, kind |-> kind, msg |-> msg]

Bodies(c) ==
  IF c.verb \in {"RETR", "TOP"}
  THEN {[i \in DOMAIN Content[c.msg] |-> LineOf(c, Content[c.msg][i], c.msg)]}
  ELSE {<<LineOf(c, "text", x)>> :
          x \in IF c.verb = "CAPA" THEN {NoMsg, Pipe} ELSE {NoMsg}}

Replies(c) ==
  IF IsMulti(c.verb, c.msg)
  THEN {<<LineOf(c, "ok", NoMsg)>> \o b \o <<LineOf(c, "dot", NoMsg)>> : b \in Bodies(c)}
  ELSE {<<LineOf(c, "ok", NoMsg)>>}

Refusal(c) == <<LineOf(c, "err", NoMsg)>>
=============================================================================
