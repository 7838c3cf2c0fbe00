------------------------------ MODULE Pipeline ------------------------------
(***************************************************************************)
(* retr_many and dele_many of an authenticated Pop3Client: windows of      *)
(* PIPELINE_WINDOW commands written at once, whose replies are then read   *)
(* one after the other; or one command at a time if the server did not     *)
(* announce PIPELINING.  Pop3Session models the calls between batches.     *)
(*                                                                         *)
(* Commands pass through Transport's BufWriter: they are written there     *)
(* (`buffered') and reach the connection when they are flushed.  The       *)
(* connection takes only SendRoom commands that the server has not read:   *)
(* then the flush waits, and unlike a read it has no timer.  Torn and cut  *)
(* lines are in Pop3Session.                                               *)
(***************************************************************************)
EXTENDS Pop3Protocol

CONSTANTS
  Window,      \* PIPELINE_WINDOW
  SendRoom,    \* commands the connection holds
  IdLists,     \* the slices callers pass
  MaxBatches   \* bound on the number of batches

ASSUME WindowIsPositive == Window \in Nat \ {0}
ASSUME RoomForAWindow == SendRoom \in Nat /\ SendRoom >= Window
ASSUME ListsAreIds == IdLists \subseteq Seq(Msgs \cup {BadInput})
ASSUME BatchesAreNat == MaxBatches \in Nat

VARIABLES
  state,         \* Pop3Client.state: "Connected" or "Authenticated"
  isPipelining,  \* Pop3Client.is_pipelining
  isClosed,      \* Transport.is_closed
  batch,         \* the batch in progress, or the last one
  results,       \* its results so far
  ret,           \* what it returned
  buffered,      \* BufWriter: written, not flushed
  toServer, toClient,
  server,        \* "trans" or "gone"
  marks,         \* messages the server has marked for deletion
  \* history
  verdicts,      \* the server's decision on every command it has read
  abandoned,     \* a call has not read its whole reply
  calls

clientVars == <<state, isPipelining, isClosed>>
vars == <<clientVars, batch, results, ret, buffered, toServer, toClient, server,
          marks, verdicts, abandoned, calls>>

InSync == ~abandoned
Busy   == batch.at # "idle"

(* A result: how it ended, and the lines of the message.                   *)
Result(val, body) == [val |-> val, body |-> body]
Failures == {"Io", "ConnectionClosed", "Timeout"}

(* `first' numbers the command of the first id; `sent' counts the commands *)
(* written; `clean' says that the batch began on a connection in step.     *)
NoBatch == [kind |-> "RETR", ids |-> <<>>, at |-> "idle", first |-> 1,
            sent |-> 0, clean |-> FALSE, body |-> <<>>]

Init ==
  /\ state \in {"Connected", "Authenticated"} /\ isPipelining \in BOOLEAN
  /\ isClosed = FALSE
  /\ batch = NoBatch /\ results = <<>> /\ ret = "none"
  /\ buffered = <<>> /\ toServer = <<>> /\ toClient = <<>>
  /\ server = "trans" /\ marks = {}
  /\ verdicts = <<>> /\ abandoned = FALSE /\ calls = 0

-----------------------------------------------------------------------------
(* The number of the command a result is read for.                         *)
Awaited == batch.first + Len(results)

(* Commands from the n-th id on, up to a window (one without pipelining).  *)
ChunkSize == IF isPipelining THEN Window ELSE 1
(* Mutant: the whole slice is written before anything is read.             *)
ChunkEndAll(b, n) == Len(b.ids)
ChunkEnd(b, n) == IF n + ChunkSize < Len(b.ids) THEN n + ChunkSize ELSE Len(b.ids)
Chunk(b, n) == [i \in 1 .. ChunkEnd(b, n) - n |->
                  [id |-> b.first + n + i - 1, verb |-> b.kind, msg |-> b.ids[n + i]]]

(* The next window goes to the BufWriter.                                  *)
WriteChunk(b, n) ==
  /\ batch' = [b EXCEPT !.at = "send", !.sent = ChunkEnd(b, n), !.body = <<>>]
  /\ buffered' = buffered \o Chunk(b, n)
  /\ ret' = "none"

Finish(val) == /\ batch' = [batch EXCEPT !.at = "idle", !.body = <<>>]
               /\ ret' = val /\ buffered' = buffered

(* One more result: the last of the batch, the last of a window, or        *)
(* another reply of the window is awaited.                                 *)
Advance(rs) ==
  /\ results' = rs
  /\ IF Len(rs) = Len(batch.ids) THEN Finish("Ok")
     ELSE IF Len(rs) = batch.sent THEN WriteChunk(batch, Len(rs))
     ELSE /\ batch' = [batch EXCEPT !.at = "status", !.body = <<>>]
          /\ UNCHANGED <<ret, buffered>>

(* Mutant: one error for the failed read, and none for the ids after it.   *)
FailOnce(val, filler) ==
  IF isPipelining
  THEN /\ results' = Append(results, Result(val, <<>>))
       /\ Finish("Ok")
  ELSE Advance(Append(results, Result(val, <<>>)))

(* The connection fails.  A pipelined batch fills all that remains with    *)
(* errors; the sequential fallback goes on with the next id.               *)
Fail(val, filler) ==
  IF isPipelining
  THEN /\ results' = [i \in 1 .. Len(batch.ids) |->
                        IF i <= Len(results) THEN results[i] ELSE Result(filler, <<>>)]
       /\ Finish("Ok")
  ELSE Advance(Append(results, Result(val, <<>>)))

-----------------------------------------------------------------------------
(***************************************************************************)
(* The caller.                                                             *)
(***************************************************************************)
(* Mutant: no validate_message_id.                                         *)
RefusedUnvalidated(ids) == IF state # "Authenticated" THEN "NotAuthenticated" ELSE "Ok"

Refused(ids) == IF state # "Authenticated" THEN "NotAuthenticated"
                ELSE IF \E i \in DOMAIN ids : ids[i] = BadInput THEN "InvalidInput"
                ELSE "Ok"

Begin(kind, ids) ==
  /\ ~Busy /\ calls < MaxBatches
  /\ calls' = calls + 1
  /\ results' = <<>>
  /\ LET b == [kind |-> kind, ids |-> ids, at |-> "idle",
               first |-> batch.first + batch.sent, sent |-> 0,
               clean |-> InSync, body |-> <<>>]
     IN IF Refused(ids) = "Ok" /\ ids # <<>>
        THEN WriteChunk(b, 0)
        ELSE /\ batch' = [b EXCEPT !.ids = <<>>]
             /\ ret' = Refused(ids) /\ buffered' = buffered
  /\ UNCHANGED <<clientVars, toServer, toClient, server, marks, verdicts, abandoned>>

(* The caller drops the future: what was not flushed stays in BufWriter.   *)
Cancel ==
  /\ Busy
  /\ Finish("Cancelled")
  /\ abandoned' = TRUE
  /\ UNCHANGED <<clientVars, results, toServer, toClient, server, marks, verdicts, calls>>

-----------------------------------------------------------------------------
(***************************************************************************)
(* The client.                                                             *)
(***************************************************************************)
(* flush: a command at a time, as the connection has room.                 *)
Flush ==
  /\ batch.at = "send"
  /\ IF server = "gone" THEN toServer' = toServer
     ELSE Len(toServer) < SendRoom /\ toServer' = Append(toServer, Head(buffered))
  /\ buffered' = Tail(buffered)
  /\ batch' = [batch EXCEPT !.at = IF Len(buffered) = 1 THEN "status" ELSE "send"]
  /\ UNCHANGED <<clientVars, results, ret, toClient, server, marks, verdicts,
                 abandoned, calls>>

(* Writing fails; BufWriter keeps what it could not write.                 *)
FlushFails ==
  /\ batch.at = "send" /\ server = "gone"
  /\ Fail("Io", "Io")
  /\ abandoned' = TRUE
  /\ UNCHANGED <<clientVars, toServer, toClient, server, marks, verdicts, calls>>

Reading   == batch.at \in {"status", "body"}
Reads(at) == batch.at = at /\ toClient # <<>> /\ toClient' = Tail(toClient)
NextLine  == Head(toClient)
UnchangedByReads == UNCHANGED <<clientVars, toServer, server, marks, verdicts, calls>>

(* Mutant: a refused RETR ends the batch like a failed connection.         *)
ReadStatusStops ==
  /\ Reads("status")
  /\ \/ /\ NextLine.kind = "ok" /\ batch.kind = "RETR"
        /\ batch' = [batch EXCEPT !.at = "body"] /\ UNCHANGED <<results, ret, buffered>>
     \/ /\ NextLine.kind = "ok" /\ batch.kind = "DELE"
        /\ Advance(Append(results, Result("Ok", <<>>)))
     \/ NextLine.kind = "err" /\ Fail("ServerError", "ServerError")
     \/ /\ NextLine.kind \in {"text", "dot"}
        /\ Advance(Append(results, Result("Parse", <<>>)))
  /\ UnchangedByReads /\ UNCHANGED abandoned

(* Mutant: the status line of a DELE is read but not parsed.               *)
ReadStatusUnchecked ==
  /\ Reads("status")
  /\ \/ /\ NextLine.kind = "ok" /\ batch.kind = "RETR"
        /\ batch' = [batch EXCEPT !.at = "body"] /\ UNCHANGED <<results, ret, buffered>>
     \/ /\ NextLine.kind # "raw" /\ batch.kind = "DELE"
        /\ Advance(Append(results, Result("Ok", <<>>)))
     \/ /\ NextLine.kind = "err" /\ batch.kind = "RETR"
        /\ Advance(Append(results, Result("ServerError", <<>>)))
     \/ /\ NextLine.kind \in {"text", "dot"}
        /\ Advance(Append(results, Result("Parse", <<>>)))
  /\ UnchangedByReads /\ UNCHANGED abandoned

(* A status line: +OK, -ERR, or a line that is neither.                    *)
ReadStatus ==
  /\ Reads("status")
  /\ \/ /\ NextLine.kind = "ok" /\ batch.kind = "RETR"
        /\ batch' = [batch EXCEPT !.at = "body"] /\ UNCHANGED <<results, ret, buffered>>
     \/ /\ NextLine.kind = "ok" /\ batch.kind = "DELE"
        /\ Advance(Append(results, Result("Ok", <<>>)))
     \/ NextLine.kind = "err" /\ Advance(Append(results, Result("ServerError", <<>>)))
     \/ /\ NextLine.kind \in {"text", "dot"}
        /\ Advance(Append(results, Result("Parse", <<>>)))
  /\ UnchangedByReads /\ UNCHANGED abandoned

ReadBodyLine ==
  /\ Reads("body") /\ NextLine.kind \in {"ok", "err", "text"}
  /\ batch' = [batch EXCEPT !.body = Append(@, NextLine)]
  /\ UNCHANGED <<results, ret, buffered, abandoned>> /\ UnchangedByReads

ReadTerminator ==
  /\ Reads("body") /\ NextLine.kind = "dot"
  /\ Advance(Append(results, Result("Ok", batch.body)))
  /\ UNCHANGED abandoned /\ UnchangedByReads

(* A line that is not UTF-8 is consumed, the rest of its reply is not.     *)
ReadUndecodable ==
  /\ Reading /\ Reads(batch.at) /\ NextLine.kind = "raw"
  /\ Fail("Io", "ConnectionClosed")
  /\ abandoned' = TRUE
  /\ UnchangedByReads

(* End of file sets is_closed; a reset does not.                           *)
ReadEof ==
  /\ Reading /\ server = "gone" /\ toClient = <<>>
  /\ \/ Fail("ConnectionClosed", "ConnectionClosed") /\ isClosed' = TRUE
     \/ Fail("Io", "ConnectionClosed") /\ UNCHANGED isClosed
  /\ UNCHANGED <<state, isPipelining, toServer, toClient, server, marks, verdicts,
                 abandoned, calls>>

TimeOut ==
  /\ Reading
  /\ Fail("Timeout", "ConnectionClosed")
  /\ abandoned' = TRUE
  /\ UNCHANGED <<clientVars, toServer, toClient, server, marks, verdicts, calls>>

-----------------------------------------------------------------------------
(***************************************************************************)
(* The server and the network (external).  A server that announces         *)
(* PIPELINING answers the commands in the order it reads them.             *)
(***************************************************************************)
Serve(verdict, replies, marked) ==
  /\ toServer # <<>> /\ server = "trans"
  /\ toServer' = Tail(toServer)
  /\ \E r \in replies : toClient' = toClient \o r
  /\ verdicts' = Append(verdicts, verdict)
  /\ marks' = marks \cup marked
  /\ UNCHANGED <<clientVars, batch, results, ret, buffered, server, abandoned, calls>>

NextCommand == Head(toServer)
Accept == /\ toServer # <<>> /\ NextCommand.msg \notin marks
          /\ Serve("ok", Replies(NextCommand),
                   IF NextCommand.verb = "DELE" THEN {NextCommand.msg} ELSE {})
Reject == toServer # <<>> /\ Serve("err", {Refusal(NextCommand)}, {})

(* The connection is lost, with some of what was on its way.               *)
Lose ==
  /\ server = "trans"
  /\ server' = "gone" /\ toServer' = <<>>
  /\ \E n \in 0 .. Len(toClient) : toClient' = SubSeq(toClient, 1, n)
  /\ UNCHANGED <<clientVars, batch, results, ret, buffered, marks, verdicts,
                 abandoned, calls>>

Done == ~Busy /\ calls = MaxBatches /\ UNCHANGED vars

Read == ReadStatus \/ ReadBodyLine \/ ReadTerminator \/ ReadUndecodable \/ ReadEof \/ TimeOut
Next ==
  \/ \E kind \in {"RETR", "DELE"}, ids \in IdLists : Begin(kind, ids)
  \/ Cancel \/ Flush \/ FlushFails \/ Read
  \/ Accept \/ Reject \/ Lose \/ Done

Spec == Init /\ [][Next]_vars

(* A read ends by its timer at the latest; a flush goes on when there is   *)
(* room.  The server is free to read and to answer nothing.                *)
FairSpec == Spec /\ WF_vars(Read) /\ WF_vars(Flush)

-----------------------------------------------------------------------------
(* Type invariant, with the counters that keep the slices of a batch in    *)
(* their bounds.                                                           *)
Results == [val : {"Ok", "ServerError", "Parse"} \cup Failures, body : Seq(Line)]
TypeOK ==
  /\ state \in {"Connected", "Authenticated"}
  /\ isPipelining \in BOOLEAN /\ isClosed \in BOOLEAN /\ abandoned \in BOOLEAN
  /\ batch \in [kind : {"RETR", "DELE"}, ids : Seq(Msgs),
                at : {"idle", "send", "status", "body"}, first : Nat \ {0}, sent : Nat,
                clean : BOOLEAN, body : Seq(Line)]
  /\ results \in Seq(Results)
  /\ ret \in {"none", "Ok", "NotAuthenticated", "InvalidInput", "Cancelled"}
  /\ buffered \in Seq(Command) /\ toServer \in Seq(Command) /\ toClient \in Seq(Line)
  /\ server \in {"trans", "gone"} /\ marks \subseteq Msgs
  /\ verdicts \in Seq({"ok", "err"}) /\ calls \in 0 .. MaxBatches
  /\ Busy => Len(results) < batch.sent /\ batch.sent <= Len(batch.ids)
  /\ batch.at = "send" => buffered # <<>>

(* The last line of a reply, and the line that comes after a line.         *)
EndsReply(l) == l.kind \in {"dot", "err"} \/ (l.kind = "ok" /\ batch.kind = "DELE")
Follows(k, l) == IF EndsReply(k) THEN l.of = k.of + 1 /\ l.kind \in {"ok", "err"}
                 ELSE l.of = k.of /\ l.kind \notin {"ok", "err"}
Consecutive(q, n) ==
  \A i \in 1 .. Len(q) : q[i].id = n + i - 1 /\ q[i].verb = batch.kind

(* While in sync, what the connection holds is the unanswered part of the  *)
(* batch and no more: the replies still to be read, each whole and in the  *)
(* order of the ids, then the commands the server has not read, then those *)
(* not flushed.  The next line is always the one that is waited for.       *)
Served == Len(verdicts)
Quiet == ~Busy => toServer = <<>> /\ toClient = <<>> /\ buffered = <<>>
Windowed ==
  Busy => /\ buffered # <<>> => batch.at = "send"
          /\ Len(toServer) + Len(buffered) <= Window
CommandsInOrder ==
  IF server = "trans"
  THEN /\ Consecutive(toServer, Served + 1)
       /\ Consecutive(buffered, Served + Len(toServer) + 1)
       /\ Served + Len(toServer) + Len(buffered) = batch.first + batch.sent - 1
  ELSE toServer = <<>>
RepliesInOrder ==
  /\ toClient # <<>> => /\ Head(toClient).of = Awaited
                        /\ Head(toClient).kind \in {"ok", "err"} <=> batch.at # "body"
  /\ \A i \in 1 .. Len(toClient) - 1 : Follows(toClient[i], toClient[i + 1])
  /\ \A i \in 1 .. Len(toClient) : toClient[i].of < batch.first + batch.sent
RepliesAreWhole ==
  server = "trans" =>
    /\ \A i \in 1 .. Len(toClient) : toClient[i].of <= Served
    /\ toClient # <<>> => /\ EndsReply(toClient[Len(toClient)])
                          /\ toClient[Len(toClient)].of = Served
    /\ Busy /\ toClient = <<>> => batch.at # "body" /\ Awaited = Served + 1
InOrder ==
  InSync => /\ Quiet /\ Windowed /\ CommandsInOrder
            /\ RepliesInOrder /\ RepliesAreWhole

(* A window is written only when the last one has been answered, so that   *)
(* the connection has room for all of it: while in sync no flush waits for *)
(* the server, whatever the server does with its own output.               *)
FlushHasRoom ==
  InSync /\ batch.at = "send" => Len(toServer) < SendRoom /\ Len(buffered) <= Window

(* One result for each id when the call returns, and none made up: "Ok" is *)
(* the whole message of that very id, or a deletion the server has made.   *)
Whole(r, m) == /\ Len(r.body) = Len(Content[m])
               /\ \A i \in DOMAIN r.body : r.body[i].msg = m
ResultsInPlace ==
  batch.clean /\ (isPipelining \/ InSync) =>
    /\ ret = "Ok" => Len(results) = Len(batch.ids)
    /\ \A i \in DOMAIN results : results[i].val = "Ok" =>
         IF batch.kind = "RETR" THEN Whole(results[i], batch.ids[i])
         ELSE batch.ids[i] \in marks

(* Every pipelined batch that begins in sync returns, even if the server   *)
(* stops reading.                                                          *)
BatchEnds == isPipelining /\ Busy /\ InSync ~> ~Busy

-----------------------------------------------------------------------------
(* A batch is a call for each id, in order: see BatchCall.                 *)
Visible == batch.clean /\ (isPipelining \/ InSync) /\ ret # "Cancelled"
OutOf(r) == CASE r.val = "Ok" -> "ok" [] r.val = "ServerError" -> "err" [] OTHER -> "fail"
Size     == IF Visible THEN Len(batch.ids) ELSE 0
Decided  == IF Visible THEN SubSeq(verdicts, batch.first, Len(verdicts)) ELSE <<>>
Outcomes == IF Visible THEN [i \in DOMAIN results |-> OutOf(results[i])] ELSE <<>>
OneByOne == INSTANCE BatchCall WITH size <- Size, decided <- Decided, out <- Outcomes

(* Refinement: every step of a batch is a step of the calls one by one.    *)
IsOneByOne == OneByOne!Spec

-----------------------------------------------------------------------------
(* "Returns a Vec with one Result<Message> per input ID, in the same order *)
(* as the input slice": a result that is Ok is the message of its id.      *)
RetrManyInOrder ==
  batch.clean /\ batch.kind = "RETR" =>
    \A i \in DOMAIN results :
      results[i].val = "Ok" => \A k \in DOMAIN results[i].body :
                                 results[i].body[k].msg = batch.ids[i]
=============================================================================
