---------------------------- MODULE Pop3Session -----------------------------
(***************************************************************************)
(* One connection of Pop3Client (client.rs over transport.rs): the calls a *)
(* caller makes, the lines Transport reads for them, and every way a call  *)
(* can end: a status line, a terminator, a line that is not UTF-8, EOF, a  *)
(* reset, a read timeout, or the caller dropping the future.  The server   *)
(* and the network are external.                                           *)
(*                                                                         *)
(* The two directions of the connection are FIFO queues.  A line in        *)
(* toClient may still be on its way, so a read may time out although the   *)
(* queue is not empty.                                                     *)
(***************************************************************************)
EXTENDS Pop3Protocol

CONSTANTS
  Calls,        \* the operations the caller of this instance uses
  MaxCommands   \* bound: no call begins after this many commands
ASSUME CallsAreOps == Calls \subseteq Ops
ASSUME BoundIsNat == MaxCommands \in Nat

VARIABLES
  client,       \* the Pop3Client value: "connecting", "open", "dropped"
  state,        \* Pop3Client.state
  isPipelining, \* Pop3Client.is_pipelining
  isClosed,     \* Transport.is_closed
  stamped,      \* the greeting holds an APOP timestamp
  call,         \* the call in progress
  ret,          \* what the last call returned, until the next begins
  nextId,       \* number of the next command
  toServer, toClient,
  server,       \* "auth", "user", "trans"; after QUIT "updated" or "failed";
                \* "gone" when the session ended otherwise
  marks,        \* messages the server has marked for deletion
  expunged,     \* messages the server removed at QUIT
  \* history
  abandoned,    \* "no"; else how the first call ended that did not read its
                \* whole reply, "Swallowed" if its caller was not told
  acked,        \* messages whose dele returned Ok, since the last rset did
  loggedIn,     \* the server has accepted PASS or APOP
  cut           \* the end of the connection has cut a line short

clientVars == <<client, state, isPipelining, isClosed, stamped>>
serverVars == <<server, marks, expunged, loggedIn, cut>>
vars == <<clientVars, call, ret, nextId, toServer, toClient, serverVars,
          abandoned, acked>>

States == {"Connected", "Authenticated", "Disconnected"}
Phases == {"auth", "user", "trans", "updated", "failed", "gone"}
Ended  == server \in {"updated", "failed", "gone"}
Values == {"Ok", "NotAuthenticated", "InvalidInput", "ServerError", "Parse",
           "Io", "ConnectionClosed", "Timeout", "Cancelled"}

(* No call in progress; and what `ret' holds before the first return. *)
NoCall   == [op |-> "CAPA", verb |-> "CAPA", msg |-> NoMsg, at |-> "none",
             id |-> 0, stale |-> FALSE, body |-> <<>>]
Failure(op, msg, val) ==
  [op |-> op, msg |-> msg, val |-> val, stale |-> FALSE, body |-> <<>>]
NoReturn == Failure("CONNECT", NoMsg, "Io")

Call   == {c \in [op : Ops \cup {"CONNECT"}, verb : Verbs \cup {"CONNECT"},
                 msg : Msgs \cup {NoMsg}, at : {"none", "status", "body"},
                 id : Nat, stale : BOOLEAN, body : Seq(Line)] :
             c.verb \in MessageOps => c.msg \in Msgs}
Return == [op : Ops \cup {"CONNECT"}, msg : Msgs \cup {NoMsg, BadInput},
           val : Values, stale : BOOLEAN, body : Seq(Line)]

Idle == call.at = "none"

(* The greeting is line 0; a server may also greet with -ERR. *)
Init ==
  /\ client = "connecting" /\ state = "Connected"
  /\ isPipelining = FALSE /\ isClosed = FALSE /\ stamped \in BOOLEAN
  /\ call = [NoCall EXCEPT !.op = "CONNECT", !.verb = "CONNECT", !.at = "status"]
  /\ ret = NoReturn /\ nextId = 1
  /\ toServer = <<>>
  /\ toClient \in {<<[of |-> 0, kind |-> k, msg |-> NoMsg]>> : k \in {"ok", "err"}}
  /\ server = "auth" /\ marks = {} /\ expunged = {} /\ loggedIn = FALSE /\ cut = FALSE
  /\ abandoned = "no" /\ acked = {}

-----------------------------------------------------------------------------
(* Transport.send_command: the command takes the next number.  Writing to  *)
(* a connection the peer has closed may succeed; when it fails the call    *)
(* ends as in ReadEof.                                                     *)
Write(verb, msg) ==
  /\ nextId' = nextId + 1
  /\ toServer' = IF Ended THEN toServer
                 ELSE Append(toServer, [id |-> nextId, verb |-> verb, msg |-> msg])

(* The call that has just written a command.                               *)
Awaiting(op, verb, msg, stale) ==
  [op |-> op, verb |-> verb, msg |-> msg, at |-> "status", id |-> nextId,
   stale |-> stale, body |-> <<>>]

(* The CAPA probe of login and apop: `capa().await.unwrap_or_default()'.    *)
InProbe == call.verb = "CAPA" /\ call.op \in AuthOps

(* The value the caller of the current call sees when a step ends in val.  *)
Seen(val) == IF InProbe THEN "Ok" ELSE val

(* Mutant: dele's caller takes its mark for made whatever the server says. *)
EndCallUnchecked(val, stale) ==
  /\ call' = NoCall
  /\ ret' = [op |-> call.op, msg |-> call.msg, val |-> Seen(val),
             stale |-> call.stale \/ stale,
             body |-> IF val = "Ok" THEN call.body ELSE <<>>]
  /\ client' = IF call.op = "QUIT" \/ (call.op = "CONNECT" /\ val # "Ok")
               THEN "dropped" ELSE "open"
  /\ acked' = IF call.verb = "DELE" THEN acked \cup {call.msg}
              ELSE IF val = "Ok" /\ call.verb = "RSET" THEN {} ELSE acked
  /\ isPipelining' = IF InProbe
                     THEN val = "Ok" /\ \E i \in DOMAIN call.body : call.body[i].msg = Pipe
                     ELSE isPipelining
  /\ UNCHANGED nextId

(* The call returns.  quit(self) and a failed connect leave no client.     *)
EndCall(val, stale) ==
  /\ call' = NoCall
  /\ ret' = [op |-> call.op, msg |-> call.msg, val |-> Seen(val),
             stale |-> call.stale \/ stale,
             body |-> IF val = "Ok" THEN call.body ELSE <<>>]
  /\ client' = IF call.op = "QUIT" \/ (call.op = "CONNECT" /\ val # "Ok")
               THEN "dropped" ELSE "open"
  /\ acked' = IF val # "Ok" THEN acked
              ELSE IF call.verb = "DELE" THEN acked \cup {call.msg}
              ELSE IF call.verb = "RSET" THEN {} ELSE acked
  /\ isPipelining' = IF InProbe
                     THEN val = "Ok" /\ \E i \in DOMAIN call.body : call.body[i].msg = Pipe
                     ELSE isPipelining
  /\ UNCHANGED nextId

(* A read given up in the middle of a line loses the part that had         *)
(* arrived: the rest is some other line, a terminator at worst.  (That it  *)
(* could look like a status line is left out.)                             *)
TornQueues ==
  {toClient} \cup
    IF toClient = <<>> THEN {}
    ELSE {[toClient EXCEPT ![1].kind = k] : k \in {"text"} \cup
            (IF toClient[1].kind \in {"text", "raw"} THEN {"dot"} ELSE {})}

(* A call that ends here has left part of its reply unread.                *)
Abandon(how) == abandoned' = IF abandoned = "no" THEN how ELSE abandoned

-----------------------------------------------------------------------------
(***************************************************************************)
(* The caller.                                                             *)
(***************************************************************************)

(* Logins need a new session, all but CAPA and QUIT one that is logged in. *)
WrongState(op) ==
  \/ op \in AuthOps /\ state # "Connected"
  \/ op \notin AuthOps \cup {"CAPA", "QUIT"} /\ state # "Authenticated"

(* Mutant: no validate_message_id and no check_no_crlf.                    *)
RefusedUnvalidated(op, msg) ==
  IF WrongState(op) THEN "NotAuthenticated"
  ELSE IF op = "APOP" /\ ~stamped THEN "ServerError"
  ELSE "Ok"

(* The early returns of an operation, in the code's order: session state,  *)
(* argument, and for APOP the greeting.                                    *)
Refused(op, msg) ==
  IF WrongState(op) THEN "NotAuthenticated"
  ELSE IF msg = BadInput THEN "InvalidInput"
  ELSE IF op = "APOP" /\ ~stamped THEN "ServerError"
  ELSE "Ok"

Refuse(op, msg) ==
  /\ client = "open" /\ Idle
  /\ Refused(op, msg) # "Ok"
  /\ ret' = Failure(op, msg, Refused(op, msg))
  /\ UNCHANGED <<clientVars, call, nextId, toServer, toClient, serverVars,
                 abandoned, acked>>

Begin(op, msg) ==
  /\ client = "open" /\ Idle /\ nextId <= MaxCommands
  /\ Refused(op, msg) = "Ok"
  /\ call' = Awaiting(op, FirstVerb(op), msg, FALSE)
  /\ Write(FirstVerb(op), msg)
  /\ ret' = NoReturn
  /\ UNCHANGED <<clientVars, toClient, serverVars, abandoned, acked>>

(* The caller drops the future of the call in progress.                    *)
Cancel ==
  /\ ~Idle
  /\ call' = NoCall
  /\ ret' = Failure(call.op, call.msg, "Cancelled")
  /\ client' = IF call.op \in {"QUIT", "CONNECT"} THEN "dropped" ELSE "open"
  /\ Abandon("Cancelled")
  /\ toClient' \in TornQueues
  /\ UNCHANGED <<state, isPipelining, isClosed, stamped, nextId, toServer,
                 serverVars, acked>>

(* Mutant: a best-effort QUIT in Drop.                                     *)
DropClientQuits ==
  /\ client = "open" /\ Idle
  /\ client' = "dropped"
  /\ Write("QUIT", NoMsg)
  /\ UNCHANGED <<state, isPipelining, isClosed, stamped, call, ret,
                 toClient, serverVars, abandoned, acked>>

DropClient ==
  /\ client = "open" /\ Idle
  /\ client' = "dropped"
  /\ UNCHANGED <<state, isPipelining, isClosed, stamped, call, ret, nextId,
                 toServer, toClient, serverVars, abandoned, acked>>

-----------------------------------------------------------------------------
(***************************************************************************)
(* Transport.read_line, one step per line or failure.                      *)
(***************************************************************************)
Reads(at) == call.at = at /\ toClient # <<>> /\ toClient' = Tail(toClient)
NextLine  == Head(toClient)
IsStale   == NextLine.of # call.id

(* +OK to USER or to the credentials: the next command of the call.        *)
VerbAfter(verb) == IF verb = "USER" THEN "PASS" ELSE "CAPA"

(* Mutant: authenticated as soon as USER is accepted.                      *)
ContinueLoginEarly ==
  /\ Reads("status") /\ NextLine.kind = "ok"
  /\ call.verb \in {"USER", "PASS", "APOP"}
  /\ state' = "Authenticated"
  /\ call' = Awaiting(call.op, VerbAfter(call.verb), NoMsg, call.stale \/ IsStale)
  /\ Write(VerbAfter(call.verb), NoMsg)
  /\ UNCHANGED <<client, isPipelining, isClosed, stamped, ret, serverVars,
                 abandoned, acked>>

ContinueLogin ==
  /\ Reads("status") /\ NextLine.kind = "ok"
  /\ call.verb \in {"USER", "PASS", "APOP"}
  /\ state' = IF call.verb = "USER" THEN state ELSE "Authenticated"
  /\ call' = Awaiting(call.op, VerbAfter(call.verb), NoMsg, call.stale \/ IsStale)
  /\ Write(VerbAfter(call.verb), NoMsg)
  /\ UNCHANGED <<client, isPipelining, isClosed, stamped, ret, serverVars,
                 abandoned, acked>>

(* +OK to a multi-line command: its body follows.                          *)
BeginBody ==
  /\ Reads("status") /\ NextLine.kind = "ok" /\ IsMulti(call.verb, call.msg)
  /\ call' = [call EXCEPT !.at = "body", !.stale = @ \/ IsStale]
  /\ UNCHANGED <<clientVars, ret, nextId, toServer, serverVars, abandoned, acked>>

(* Mutant: a multi-line command that forgets read_multiline.               *)
ReturnOkUnread ==
  /\ Reads("status") /\ NextLine.kind = "ok"
  /\ call.verb \notin {"USER", "PASS", "APOP"}
  /\ \/ EndCall("Ok", IsStale)
     \/ IsParsed(call.verb, call.msg) /\ (IsStale \/ cut) /\ EndCall("Parse", IsStale)
  /\ isClosed' = (isClosed \/ call.op = "QUIT")
  /\ UNCHANGED <<state, stamped, toServer, serverVars, abandoned>>

(* +OK to a single-line command.  The text after +OK is parsed for STAT,   *)
(* LIST n and UIDL n; that of another command's +OK, or of a line that was *)
(* cut short, may not parse.                                               *)
ReturnOk ==
  /\ Reads("status") /\ NextLine.kind = "ok"
  /\ call.verb \notin {"USER", "PASS", "APOP"} /\ ~IsMulti(call.verb, call.msg)
  /\ \/ EndCall("Ok", IsStale)
     \/ IsParsed(call.verb, call.msg) /\ (IsStale \/ cut) /\ EndCall("Parse", IsStale)
  /\ isClosed' = (isClosed \/ call.op = "QUIT")
  /\ UNCHANGED <<state, stamped, toServer, serverVars, abandoned>>

(* Mutant: quit ignores what its status line says.                         *)
ReturnErrQuitOk ==
  /\ Reads("status")
  /\ \/ /\ NextLine.kind = "err"
        /\ EndCall(IF call.op = "QUIT" THEN "Ok" ELSE "ServerError", IsStale)
     \/ NextLine.kind \in {"text", "dot"} /\ EndCall("Parse", IsStale)
  /\ UNCHANGED <<state, isClosed, stamped, toServer, serverVars, abandoned>>

(* -ERR, or a line that is no status line at all.                          *)
ReturnErr ==
  /\ Reads("status")
  /\ \/ NextLine.kind = "err" /\ EndCall("ServerError", IsStale)
     \/ NextLine.kind \in {"text", "dot"} /\ EndCall("Parse", IsStale)
  /\ UNCHANGED <<state, isClosed, stamped, toServer, serverVars, abandoned>>

(* read_multiline: any line but the terminator is content.                 *)
ReadBodyLine ==
  /\ Reads("body") /\ NextLine.kind \in {"ok", "err", "text"}
  /\ call' = [call EXCEPT !.body = Append(@, NextLine), !.stale = @ \/ IsStale]
  /\ UNCHANGED <<clientVars, ret, nextId, toServer, serverVars, abandoned, acked>>

(* The body of LIST and UIDL is then parsed; another command's may not.    *)
ReadTerminator ==
  /\ Reads("body") /\ NextLine.kind = "dot"
  /\ \/ EndCall("Ok", IsStale)
     \/ call.verb \in ListOps /\ (call.stale \/ IsStale) /\ EndCall("Parse", IsStale)
  /\ UNCHANGED <<state, isClosed, stamped, toServer, serverVars, abandoned>>

(* read_line fails on a line that is not UTF-8, after consuming it: the    *)
(* rest of a multi-line reply stays unread.                                *)
ReadUndecodable ==
  /\ call.at # "none" /\ Reads(call.at) /\ NextLine.kind = "raw"
  /\ EndCall("Io", IsStale)
  /\ Abandon(IF InProbe THEN "Swallowed" ELSE "Io")
  /\ UNCHANGED <<state, isClosed, stamped, toServer, serverVars>>

(* Mutant: EOF in a body is taken for its end.                             *)
ReadEofEndsBody ==
  /\ ~Idle /\ Ended /\ toClient = <<>>
  /\ \/ /\ EndCall(IF call.at = "body" THEN "Ok" ELSE "ConnectionClosed", FALSE)
        /\ isClosed' = TRUE
     \/ EndCall("Io", FALSE) /\ isClosed' = isClosed
  /\ UNCHANGED <<state, stamped, toServer, toClient, serverVars, abandoned>>

(* EOF sets is_closed; a reset (or a failed write) does not.               *)
ReadEof ==
  /\ ~Idle /\ Ended /\ toClient = <<>>
  /\ \/ EndCall("ConnectionClosed", FALSE) /\ isClosed' = TRUE
     \/ EndCall("Io", FALSE) /\ isClosed' = isClosed
  /\ UNCHANGED <<state, stamped, toServer, toClient, serverVars, abandoned>>

(* Mutant: no timer on the status line of a command.                       *)
TimeOutInBody ==
  /\ call.at = "body"
  /\ EndCall("Timeout", FALSE)
  /\ Abandon(IF InProbe THEN "Swallowed" ELSE "Timeout")
  /\ toClient' \in TornQueues
  /\ UNCHANGED <<state, isClosed, stamped, toServer, serverVars>>

(* Mutant: a timeout marks the connection closed, but nothing looks at it. *)
TimeOutCloses ==
  /\ ~Idle
  /\ EndCall("Timeout", FALSE)
  /\ Abandon(IF InProbe THEN "Swallowed" ELSE "Timeout")
  /\ toClient' \in TornQueues
  /\ isClosed' = TRUE
  /\ UNCHANGED <<state, stamped, toServer, serverVars>>

(* tokio::time::timeout around every read_line.  The line it was reading   *)
(* may have arrived in part.                                               *)
TimeOut ==
  /\ ~Idle
  /\ EndCall("Timeout", FALSE)
  /\ Abandon(IF InProbe THEN "Swallowed" ELSE "Timeout")
  /\ toClient' \in TornQueues
  /\ UNCHANGED <<state, isClosed, stamped, toServer, serverVars>>

-----------------------------------------------------------------------------
(***************************************************************************)
(* The server and the network (external).                                  *)
(***************************************************************************)
MayAccept(c) ==
  CASE c.verb = "USER" -> server \in {"auth", "user"}
    [] c.verb = "PASS" -> server = "user"
    [] c.verb = "APOP" -> server \in {"auth", "user"}
    [] c.verb \in {"CAPA", "QUIT"} -> TRUE
    [] OTHER -> server = "trans" /\ c.msg \notin marks

Accept ==
  /\ toServer # <<>> /\ ~Ended
  /\ LET c == Head(toServer) IN
     /\ MayAccept(c)
     /\ \E r \in Replies(c) : toClient' = toClient \o r
     /\ toServer' = IF c.verb = "QUIT" THEN <<>> ELSE Tail(toServer)
     /\ server' = CASE c.verb = "USER" -> "user"
                    [] c.verb \in {"PASS", "APOP"} -> "trans"
                    [] c.verb = "QUIT" -> IF server = "trans" THEN "updated" ELSE "gone"
                    [] OTHER -> server
     /\ loggedIn' = (loggedIn \/ c.verb \in {"PASS", "APOP"})
     /\ marks' = CASE c.verb = "DELE" -> marks \cup {c.msg}
                   [] c.verb = "RSET" -> {}
                   [] OTHER -> marks
     /\ expunged' = IF c.verb = "QUIT" /\ server = "trans" THEN marks ELSE expunged
  /\ UNCHANGED <<clientVars, call, ret, nextId, cut, abandoned, acked>>

(* -ERR.  A QUIT that fails may have removed some of the marked messages.  *)
Reject ==
  /\ toServer # <<>> /\ ~Ended
  /\ LET c == Head(toServer) IN
     /\ toClient' = toClient \o Refusal(c)
     /\ toServer' = IF c.verb = "QUIT" THEN <<>> ELSE Tail(toServer)
     /\ server' = IF c.verb # "QUIT" THEN server
                  ELSE IF server = "trans" THEN "failed" ELSE "gone"
     /\ expunged' \in IF c.verb = "QUIT" /\ server = "trans"
                       THEN SUBSET marks ELSE {expunged}
  /\ UNCHANGED <<clientVars, call, ret, nextId, marks, loggedIn, cut, abandoned, acked>>

(* What read_line returns for a line that the end of the connection cuts   *)
(* short: the part that arrived, as if it were a line.  The first dot of a *)
(* stuffed line is taken for the terminator, and the terminator without its*)
(* LF for text; a part that ends within a character is not valid UTF-8.    *)
CutKinds(kind) == CASE kind \in {"text", "raw"} -> {"text", "dot", "raw"}
                    [] kind \in {"ok", "err"} -> {kind, "text", "raw"}
                    [] kind = "dot" -> {"dot", "text"}

(* The connection is lost, with some of what was on its way.               *)
Lose ==
  /\ ~Ended \/ toClient # <<>>
  /\ server' = IF Ended THEN server ELSE "gone"
  /\ toServer' = <<>>
  /\ \E n \in 0 .. Len(toClient) :
       \/ toClient' = SubSeq(toClient, 1, n) /\ cut' = cut
       \/ /\ n > 0 /\ cut' = TRUE
          /\ \E k \in CutKinds(toClient[n].kind) :
               toClient' = [SubSeq(toClient, 1, n) EXCEPT ![n].kind = k]
  /\ UNCHANGED <<clientVars, call, ret, nextId, marks, expunged, loggedIn,
                 abandoned, acked>>

(* The client's end is closed, and the server has read all it sent.        *)
SeeClientGone ==
  /\ client = "dropped" /\ toServer = <<>> /\ ~Ended
  /\ server' = "gone"
  /\ UNCHANGED <<clientVars, call, ret, nextId, toServer, toClient, marks,
                 expunged, loggedIn, cut, abandoned, acked>>

(* The session is over.                                                    *)
Over == client = "dropped" /\ Ended /\ UNCHANGED vars

-----------------------------------------------------------------------------
Next ==
  \/ \E op \in Calls : \E msg \in ArgsOf(op) : Refuse(op, msg) \/ Begin(op, msg)
  \/ ContinueLogin \/ BeginBody \/ ReturnOk \/ ReturnErr \/ ReadBodyLine
  \/ ReadTerminator \/ ReadUndecodable \/ ReadEof \/ TimeOut
  \/ Cancel \/ DropClient
  \/ Accept \/ Reject \/ Lose \/ SeeClientGone
  \/ Over

Spec == Init /\ [][Next]_vars

(* Every read returns: a line comes, the connection ends, or the timer     *)
(* fires.  Nothing is assumed of the server or of the caller.              *)
Read == \/ ContinueLogin \/ BeginBody \/ ReturnOk \/ ReturnErr \/ ReadBodyLine
        \/ ReadTerminator \/ ReadUndecodable \/ ReadEof \/ TimeOut
FairSpec == Spec /\ WF_vars(Read)

-----------------------------------------------------------------------------
(* Type invariant. *)
TypeOK ==
  /\ client \in {"connecting", "open", "dropped"}
  /\ state \in States
  /\ isPipelining \in BOOLEAN /\ isClosed \in BOOLEAN /\ stamped \in BOOLEAN
  /\ call \in Call /\ ret \in Return
  /\ nextId \in Nat
  /\ toServer \in Seq(Command) /\ toClient \in Seq(Line)
  /\ server \in Phases
  /\ marks \subseteq Msgs /\ expunged \subseteq Msgs /\ acked \subseteq Msgs
  /\ loggedIn \in BOOLEAN /\ cut \in BOOLEAN
  /\ abandoned \in {"no", "Timeout", "Io", "Cancelled", "Swallowed"}

InSync == abandoned = "no"

(* Pairing.  As long as every call has read its whole reply, no call ever  *)
(* consumes a line that answers another command: each path through         *)
(* send_and_check, read_multiline, login and quit reads exactly the lines  *)
(* the server sends for what it wrote, errors included.                    *)
NoForeignLine == InSync => ~call.stale /\ ~ret.stale

(* Lines of the awaited reply, and nothing else, at each point of a call.  *)
Pending == [id |-> call.id, verb |-> call.verb, msg |-> call.msg]
OwnLines(q) == \A i \in 1 .. Len(q) : q[i].of = call.id
DotIsLast(q) == \A i \in 1 .. Len(q) : q[i].kind = "dot" => i = Len(q)
StatusThenBody(q) ==
  /\ OwnLines(q) /\ DotIsLast(q)
  /\ Len(q) > 1 => q[1].kind = "ok" /\ IsMulti(call.verb, call.msg)

(* While in sync, the connection is empty between two calls; during a call *)
(* it holds the command waiting to be answered, or what is still unread of *)
(* its reply, and never both.  This is what makes pairing by position work.*)
OneOutstanding ==
  InSync =>
    /\ Idle => toServer = <<>> /\ toClient = <<>>
    /\ call.at = "status" =>
         \/ toServer = <<Pending>> /\ toClient = <<>>
         \/ toServer = <<>> /\ StatusThenBody(toClient)
    /\ call.at = "body" =>
         toServer = <<>> /\ OwnLines(toClient) /\ DotIsLast(toClient)

(* A message that retr or top returns is the one asked for, and whole: no  *)
(* line is dropped and a connection that ends inside the body is an error, *)
(* never a short message.  This holds while in sync, as long as the        *)
(* connection does not end in the middle of a line (see RetrIsComplete).   *)
Whole(r) == /\ Len(r.body) = Len(Content[r.msg])
            /\ \A i \in DOMAIN r.body : r.body[i].msg = r.msg
Retrieved == ret.op \in {"RETR", "TOP"} /\ ret.val = "Ok"
RetrievedWhole == InSync /\ ~cut /\ Retrieved => Whole(ret)

(* Login.  While in sync, state says Authenticated only if the server      *)
(* accepted the credentials (login sets it after PASS, not after USER),    *)
(* and between calls a live server agrees with the client.                 *)
SessionAgrees ==
  InSync =>
    /\ state = "Authenticated" => loggedIn
    /\ Idle /\ client = "open" /\ ~Ended
         => (state = "Authenticated" <=> server = "trans")

(* Deletion.  While in sync, quit returning Ok in an authenticated session *)
(* means that the server has removed exactly the messages whose dele       *)
(* returned Ok and that no rset has since released.                        *)
QuitCommits ==
  InSync /\ ret.op = "QUIT" /\ ret.val = "Ok" /\ state = "Authenticated"
    => expunged = acked

(* Messages disappear only by a QUIT the caller asked for: losing the      *)
(* connection, dropping the client or cancelling another call commits      *)
(* nothing, whatever was marked.                                           *)
OnlyQuitExpunges ==
  expunged # {} => \/ call.op = "QUIT" \/ ret.op = "QUIT"

(* Once is_closed is set, no later call reports success, in sync or not.   *)
NoSuccessOnceClosed == [][isClosed => ret' = ret \/ ret'.val # "Ok"]_vars

(* Every call returns, although the server may never answer: each read has *)
(* its own timer (transport.rs read_line).                                 *)
CallReturns == ~Idle ~> Idle

-----------------------------------------------------------------------------
(* A session is a deletion transaction: see MaildropTransaction.  A reply  *)
(* lost after QUIT leaves the caller with an error and the deletions made. *)
Phase ==
  IF ~InSync THEN "unknown"
  ELSE CASE server = "updated" -> "committed"
         [] server = "failed"  -> "failed"
         [] server = "gone"    -> "lost"
         [] OTHER -> IF state = "Authenticated" THEN "open" ELSE "new"
Deleted == IF InSync THEN acked ELSE {}
Removed == IF InSync THEN expunged ELSE {}

Transaction == INSTANCE MaildropTransaction WITH
  phase <- Phase, deleted <- Deleted, removed <- Removed

(* Refinement: every step of the session is a step of the transaction.     *)
IsTransaction == Transaction!Spec

-----------------------------------------------------------------------------
(***************************************************************************)
(* Statements of the repository that the code does not keep.               *)
(***************************************************************************)

(* "Only set authenticated after both commands succeed": the state is      *)
(* Authenticated only if the server accepted the credentials.              *)
AuthenticatedMeansAccepted == state = "Authenticated" => loggedIn

(* retr "returns the complete message content", and read_line reports an   *)
(* unexpected EOF as an error: while in sync, no retrieved message is      *)
(* short.                                                                  *)
RetrIsComplete == InSync /\ Retrieved => Whole(ret)
=============================================================================
