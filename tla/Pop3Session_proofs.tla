------------------------- MODULE Pop3Session_proofs -------------------------
(***************************************************************************)
(* Proofs about Pop3Session, for every set of messages, every content and  *)
(* any number of commands: types; the pairing of replies (SyncInv); what   *)
(* client and server agree on (ServerInv); that messages are whole; and    *)
(* that a session is a transaction on the maildrop.                        *)
(***************************************************************************)
EXTENDS Pop3Session, Pop3Protocol_proofs

(* Tearing a line changes neither the number of lines nor whose they are.  *)
LEMMA TornLines ==
  ASSUME toClient \in Seq(Line), NEW q \in TornQueues
  PROVE  q \in Seq(Line)
<1>1. CASE q = toClient
  BY <1>1
<1>2. CASE q # toClient
  <2>1. /\ toClient # <<>>
        /\ \E k \in {"text", "dot"} : q = [toClient EXCEPT ![1].kind = k]
    BY <1>2 DEF TornQueues
  <2>2. PICK k \in {"text", "dot"} : q = [toClient EXCEPT ![1].kind = k]
    BY <2>1
  <2>3. toClient[1] \in Line /\ 1 \in 1 .. Len(toClient)
    BY <2>1
  <2>4. [toClient[1] EXCEPT !.kind = k] \in Line
    BY <2>3 DEF Line, Kinds
  <2>5. q = [toClient EXCEPT ![1] = [toClient[1] EXCEPT !.kind = k]]
    BY <2>2
  <2> QED BY <2>3, <2>4, <2>5, ExceptSeq
<1> QED BY <1>1, <1>2

LEMMA NoCallType == NoCall \in Call /\ NoReturn \in Return
BY ArgumentsDistinct DEF NoCall, NoReturn, Failure, Call, Return, Ops, Verbs, Values, MessageOps,
   ListOps, PlainOps, AuthOps

(* Ending a call keeps the types of what it writes.                        *)
LEMMA EndCallType ==
  ASSUME TypeOK, NEW val \in Values, NEW stale \in BOOLEAN, EndCall(val, stale)
  PROVE  /\ call' \in Call /\ ret' \in Return
         /\ client' \in {"connecting", "open", "dropped"}
         /\ acked' \subseteq Msgs /\ isPipelining' \in BOOLEAN /\ nextId' \in Nat
<1>1. call' \in Call
  BY NoCallType DEF EndCall
<1>2. Seen(val) \in Values
  BY DEF Seen, Values
<1>3. ret' \in Return
  BY <1>2 DEF TypeOK, Call, Return, EndCall
<1>4. acked' \subseteq Msgs
  BY DEF TypeOK, Call, EndCall, MessageOps
<1>5. isPipelining' \in BOOLEAN
  BY DEF TypeOK, EndCall
<1> QED BY <1>1, <1>3, <1>4, <1>5 DEF EndCall, TypeOK

(* Writing a command keeps the types of what it writes.                    *)
LEMMA WriteType ==
  ASSUME TypeOK, NEW verb \in Verbs, NEW msg \in Msgs \cup {NoMsg},
         verb \in MessageOps => msg \in Msgs, Write(verb, msg)
  PROVE  nextId' \in Nat /\ toServer' \in Seq(Command)
<1>1. [id |-> nextId, verb |-> verb, msg |-> msg] \in Command
  BY DEF TypeOK, Command
<1> QED BY <1>1, AppendProperties DEF TypeOK, Write

(* What is left on the connection when it is lost after its n-th line.     *)
LostTail(n) ==
  /\ toClient' \in Seq(Line) /\ Len(toClient') = n
  /\ \A i \in 1 .. n : toClient'[i].of = toClient[i].of
  /\ \A i \in 1 .. n - 1 : toClient'[i] = toClient[i]
  /\ n > 1 => toClient'[1] = toClient[1]
  /\ \A i \in 1 .. n : toClient'[i].kind = "ok" => toClient[i].kind = "ok"
  /\ ~cut' => ~cut /\ \A i \in 1 .. n : toClient'[i] = toClient[i]
  /\ cut' \in BOOLEAN

LEMMA LoseShape ==
  ASSUME TypeOK, Lose
  PROVE  \E n \in 0 .. Len(toClient) : LostTail(n)
<1>1. PICK n \in 0 .. Len(toClient) :
        \/ toClient' = SubSeq(toClient, 1, n) /\ cut' = cut
        \/ /\ n > 0 /\ cut' = TRUE
           /\ \E k \in CutKinds(toClient[n].kind) :
                toClient' = [SubSeq(toClient, 1, n) EXCEPT ![n].kind = k]
  BY DEF Lose
<1> DEFINE q == SubSeq(toClient, 1, n)
<1>2. /\ q \in Seq(Line) /\ Len(q) = n /\ n \in Nat
      /\ \A i \in 1 .. n : q[i] = toClient[i] /\ toClient[i] \in Line
  BY DEF TypeOK
<1> HIDE DEF q
<1>3. CASE toClient' = q /\ cut' = cut
  BY <1>2, <1>3 DEF LostTail, TypeOK
<1>4. CASE ~(toClient' = q /\ cut' = cut)
  <2>1. n > 0 /\ cut' = TRUE
    BY <1>1, <1>4 DEF q
  <2>2. PICK k \in CutKinds(toClient[n].kind) : toClient' = [q EXCEPT ![n].kind = k]
    BY <1>1, <1>4 DEF q
  <2>3. n \in 1 .. Len(q) /\ q[n] \in Line /\ q[n] = toClient[n]
    BY <1>2, <2>1
  <2>4. k \in Kinds /\ (k = "ok" => q[n].kind = "ok")
    BY <2>3 DEF CutKinds, Line, Kinds
  <2>5. [q[n] EXCEPT !.kind = k] \in Line /\ [q[n] EXCEPT !.kind = k].of = q[n].of
    BY <2>3, <2>4 DEF Line
  <2>6. toClient' = [q EXCEPT ![n] = [q[n] EXCEPT !.kind = k]]
    BY <2>2
  <2>7. /\ toClient' \in Seq(Line) /\ Len(toClient') = n
        /\ toClient'[n].of = q[n].of
        /\ toClient'[n].kind = "ok" => q[n].kind = "ok"
        /\ \A i \in 1 .. n - 1 : toClient'[i] = q[i]
    BY <1>2, <2>3, <2>4, <2>5, <2>6, ExceptSeq
  <2>8. \A i \in 1 .. n : toClient'[i].kind = "ok" => toClient[i].kind = "ok"
    BY <1>2, <2>7
  <2> QED BY <1>2, <2>1, <2>3, <2>7, <2>8 DEF LostTail
<1> QED BY <1>3, <1>4

(* Type correctness.                                                       *)
THEOREM TypeCorrect == Spec => []TypeOK
<1>1. Init => TypeOK
  <2> SUFFICES ASSUME Init PROVE TypeOK
    OBVIOUS
  <2>1. call \in Call
    BY NoCallType DEF Init, Call, NoCall, Ops, Verbs, MessageOps
  <2>2. PICK l \in Line : toClient = <<l>>
    BY DEF Init, Line, Kinds
  <2>3. toClient \in Seq(Line) /\ toServer \in Seq(Command)
    BY <2>2 DEF Init
  <2> QED BY <2>1, <2>3, NoCallType DEF Init, TypeOK, States, Phases
<1>2. TypeOK /\ [Next]_vars => TypeOK'
  <2> SUFFICES ASSUME TypeOK, [Next]_vars PROVE TypeOK'
    OBVIOUS
  <2>1. ASSUME NEW op \in Calls, NEW msg \in ArgsOf(op), Refuse(op, msg)
        PROVE  TypeOK'
    <3>1. op \in Ops /\ msg \in Msgs \cup {NoMsg, BadInput}
      BY CallsAreOps DEF ArgsOf
    <3>2. Refused(op, msg) \in Values
      BY DEF Refused, Values
    <3>3. ret' \in Return
      BY <2>1, <3>1, <3>2 DEF Refuse, Failure, Return
    <3> QED BY <2>1, <3>3 DEF Refuse, TypeOK, clientVars, serverVars
  <2>2. ASSUME NEW op \in Calls, NEW msg \in ArgsOf(op), Begin(op, msg)
        PROVE  TypeOK'
    <3>1. /\ op \in Ops /\ FirstVerb(op) \in Verbs /\ msg \in Msgs \cup {NoMsg}
          /\ FirstVerb(op) \in MessageOps => msg \in Msgs
      <4>1. msg # BadInput
        BY <2>2 DEF Begin, Refused
      <4>2. op \in Ops
        BY CallsAreOps
      <4>3. msg \in Msgs \cup {NoMsg} /\ (op \in MessageOps => msg \in Msgs)
        BY <4>1 DEF ArgsOf, MessageOps, ListOps
      <4>4. FirstVerb(op) \in Verbs /\ (FirstVerb(op) \in MessageOps => op \in MessageOps)
        BY <4>2 DEF FirstVerb, Ops, Verbs, MessageOps
      <4> QED BY <4>2, <4>3, <4>4
    <3>2. call' \in Call
      BY <2>2, <3>1 DEF Begin, Awaiting, Call, TypeOK
    <3>3. nextId' \in Nat /\ toServer' \in Seq(Command)
      BY <2>2, <3>1, WriteType DEF Begin
    <3> QED BY <2>2, <3>2, <3>3, NoCallType DEF Begin, TypeOK, clientVars, serverVars
  <2>3. CASE ContinueLogin
    <3>1. VerbAfter(call.verb) \in {"PASS", "CAPA"}
      BY DEF VerbAfter
    <3>2. call' \in Call
      BY <2>3, <3>1 DEF ContinueLogin, Awaiting, Call, TypeOK, IsStale, Verbs, Ops, MessageOps
    <3>3. nextId' \in Nat /\ toServer' \in Seq(Command)
      BY <2>3, <3>1, WriteType DEF ContinueLogin, Verbs, Ops, MessageOps
    <3>4. toClient' \in Seq(Line)
      BY <2>3 DEF ContinueLogin, Reads, TypeOK
    <3>5. state' \in States
      BY <2>3 DEF ContinueLogin, TypeOK, States
    <3> QED BY <2>3, <3>2, <3>3, <3>4, <3>5 DEF ContinueLogin, TypeOK, serverVars
  <2>4. CASE BeginBody
    <3>1. call' \in Call
      BY <2>4 DEF BeginBody, Call, TypeOK, IsStale
    <3>2. toClient' \in Seq(Line)
      BY <2>4 DEF BeginBody, Reads, TypeOK
    <3> QED BY <2>4, <3>1, <3>2 DEF BeginBody, TypeOK, clientVars, serverVars
  <2>5. CASE ReturnOk
    <3>1. PICK val \in Values : EndCall(val, IsStale)
      BY <2>5 DEF ReturnOk, Values
    <3>2. toClient' \in Seq(Line)
      BY <2>5 DEF ReturnOk, Reads, TypeOK
    <3> QED BY <2>5, <3>1, <3>2, EndCallType DEF ReturnOk, TypeOK, serverVars, IsStale
  <2>6. CASE ReturnErr
    <3>1. PICK val \in Values : EndCall(val, IsStale)
      BY <2>6 DEF ReturnErr, Values
    <3>2. toClient' \in Seq(Line)
      BY <2>6 DEF ReturnErr, Reads, TypeOK
    <3> QED BY <2>6, <3>1, <3>2, EndCallType DEF ReturnErr, TypeOK, serverVars, IsStale
  <2>7. CASE ReadBodyLine
    <3>1. NextLine \in Line /\ toClient' \in Seq(Line)
      BY <2>7, HeadTailProperties DEF ReadBodyLine, Reads, NextLine, TypeOK
    <3>2. call' \in Call
      BY <2>7, <3>1, AppendProperties DEF ReadBodyLine, Call, TypeOK, IsStale
    <3> QED BY <2>7, <3>1, <3>2 DEF ReadBodyLine, TypeOK, clientVars, serverVars
  <2>8. CASE ReadTerminator
    <3>1. PICK val \in Values : EndCall(val, IsStale)
      BY <2>8 DEF ReadTerminator, Values
    <3>2. toClient' \in Seq(Line)
      BY <2>8 DEF ReadTerminator, Reads, TypeOK
    <3> QED BY <2>8, <3>1, <3>2, EndCallType DEF ReadTerminator, TypeOK, serverVars, IsStale
  <2>9. CASE ReadUndecodable
    <3>1. EndCall("Io", IsStale) /\ "Io" \in Values
      BY <2>9 DEF ReadUndecodable, Values
    <3>2. toClient' \in Seq(Line)
      BY <2>9 DEF ReadUndecodable, Reads, TypeOK
    <3> QED BY <2>9, <3>1, <3>2, EndCallType
            DEF ReadUndecodable, Abandon, TypeOK, serverVars, IsStale
  <2>10. CASE ReadEof
    <3>1. PICK val \in Values : EndCall(val, FALSE)
      BY <2>10 DEF ReadEof, Values
    <3> QED BY <2>10, <3>1, EndCallType DEF ReadEof, TypeOK, serverVars
  <2>11. CASE TimeOut
    <3>1. EndCall("Timeout", FALSE) /\ "Timeout" \in Values
      BY <2>11 DEF TimeOut, Values
    <3>2. toClient' \in Seq(Line)
      BY <2>11, TornLines DEF TimeOut, TypeOK
    <3> QED BY <2>11, <3>1, <3>2, EndCallType DEF TimeOut, Abandon, TypeOK, serverVars
  <2>12. CASE Cancel
    <3>1. toClient' \in Seq(Line)
      BY <2>12, TornLines DEF Cancel, TypeOK
    <3>2. ret' \in Return
      BY <2>12, NoCallType DEF Cancel, TypeOK, Failure, Return, Call, Values
    <3> QED BY <2>12, <3>1, <3>2, NoCallType DEF Cancel, Abandon, TypeOK, serverVars
  <2>13. CASE DropClient
    BY <2>13 DEF DropClient, TypeOK, serverVars
  <2>14. CASE Accept
    <3>1. Head(toServer) \in Command /\ Tail(toServer) \in Seq(Command)
      BY <2>14, HeadTailProperties DEF Accept, TypeOK
    <3>2. toClient' \in Seq(Line)
      BY <2>14, <3>1, ReplyShape, ConcatProperties DEF Accept, TypeOK
    <3>3. toServer' \in Seq(Command) /\ server' \in Phases
      BY <2>14, <3>1 DEF Accept, TypeOK, Phases
    <3>4. marks' \subseteq Msgs /\ expunged' \subseteq Msgs /\ loggedIn' \in BOOLEAN
      BY <2>14, <3>1 DEF Accept, TypeOK, Command, MessageOps
    <3> QED BY <2>14, <3>2, <3>3, <3>4 DEF Accept, TypeOK, clientVars
  <2>15. CASE Reject
    <3>1. Head(toServer) \in Command /\ Tail(toServer) \in Seq(Command)
      BY <2>15, HeadTailProperties DEF Reject, TypeOK
    <3>2. toClient' \in Seq(Line)
      BY <2>15, <3>1, ReplyShape, ConcatProperties DEF Reject, TypeOK
    <3>3. /\ toServer' \in Seq(Command) /\ server' \in Phases
          /\ expunged' \subseteq Msgs
      BY <2>15, <3>1 DEF Reject, TypeOK, Phases
    <3> QED BY <2>15, <3>2, <3>3 DEF Reject, TypeOK, clientVars
  <2>16. CASE Lose
    <3>1. PICK n \in 0 .. Len(toClient) : LostTail(n)
      BY <2>16, LoseShape
    <3> QED BY <2>16, <3>1 DEF Lose, LostTail, TypeOK, Phases, clientVars
  <2>17. CASE SeeClientGone
    BY <2>17 DEF SeeClientGone, TypeOK, Phases, clientVars
  <2>18. CASE UNCHANGED vars
    BY <2>18 DEF vars, clientVars, serverVars, TypeOK
  <2> QED BY <2>1, <2>2, <2>3, <2>4, <2>5, <2>6, <2>7, <2>8, <2>9, <2>10, <2>11, <2>12,
             <2>13, <2>14, <2>15, <2>16, <2>17, <2>18 DEF Next, Over
<1> QED BY <1>1, <1>2, PTL DEF Spec

-----------------------------------------------------------------------------
(***************************************************************************)
(* Pairing.  NoForeignLine is not inductive: that the next line answers    *)
(* this call follows from what the whole connection holds, OneOutstanding. *)
(***************************************************************************)
SyncInv == OneOutstanding /\ NoForeignLine

(* What is left of a reply after its first line has been read.             *)
LEMMA RestOfReply ==
  ASSUME NEW q \in Seq(Line), q # <<>>, OwnLines(q), DotIsLast(q)
  PROVE  /\ Head(q).of = call.id
         /\ OwnLines(Tail(q)) /\ DotIsLast(Tail(q))
         /\ Head(q).kind = "dot" => Tail(q) = <<>>
<1>1. PICK t \in Seq(Line) :
        /\ t = Tail(q) /\ Len(q) \in Nat /\ Len(q) >= 1 /\ Head(q) = q[1]
        /\ Len(t) = Len(q) - 1
        /\ \A i \in 1 .. Len(t) : t[i] = q[i + 1]
  <2>1. /\ Tail(q) \in Seq(Line) /\ Len(Tail(q)) = Len(q) - 1 /\ Len(q) \in Nat
        /\ \A i \in 1 .. Len(Tail(q)) : Tail(q)[i] = q[i + 1]
        /\ Head(q) = q[1] /\ Len(q) >= 1
    BY HeadTailProperties
  <2> QED BY <2>1, Zenon
<1>2. Head(q).of = call.id
  BY <1>1 DEF OwnLines
<1>3. ASSUME NEW i \in 1 .. Len(t)
      PROVE  t[i].of = call.id /\ (t[i].kind = "dot" => i = Len(t))
  <2>1. i + 1 \in 1 .. Len(q) /\ t[i] = q[i + 1]
    BY <1>1
  <2>2. q[i + 1].of = call.id /\ (q[i + 1].kind = "dot" => i + 1 = Len(q))
    BY <2>1 DEF OwnLines, DotIsLast
  <2>3. t[i].of = call.id /\ (t[i].kind = "dot" => i + 1 = Len(q))
    BY <2>1, <2>2, Zenon
  <2>4. Len(t) = Len(q) - 1 /\ Len(q) \in Nat /\ i \in Int
    BY <1>1
  <2>5. i + 1 = Len(q) => i = Len(t)
    BY <2>4
  <2> QED BY <2>3, <2>5
<1>4. Head(q).kind = "dot" => t = <<>>
  <2> SUFFICES ASSUME Head(q).kind = "dot" PROVE t = <<>>
    OBVIOUS
  <2>1. 1 \in 1 .. Len(q) /\ q[1].kind = "dot"
    BY <1>1
  <2>2. Len(q) = 1
    BY <2>1 DEF DotIsLast
  <2> QED BY <1>1, <2>2, EmptySeq
<1> QED BY <1>1, <1>2, <1>3, <1>4 DEF OwnLines, DotIsLast

(* In sync, the status line a call reads answers the call, and nothing     *)
(* else is on the connection but the rest of the same reply.               *)
LEMMA StatusRead ==
  ASSUME TypeOK, SyncInv, InSync, Reads("status")
  PROVE  /\ ~IsStale /\ ~call.stale /\ toServer = <<>>
         /\ OwnLines(Tail(toClient)) /\ DotIsLast(Tail(toClient))
         /\ ~(NextLine.kind = "ok" /\ IsMulti(call.verb, call.msg)) => Tail(toClient) = <<>>
<1>1. /\ toClient \in Seq(Line) /\ toClient # <<>> /\ call.at = "status"
  BY DEF TypeOK, Reads
<1>2. toServer = <<>> /\ StatusThenBody(toClient)
  BY <1>1 DEF SyncInv, OneOutstanding
<1>3. ~(NextLine.kind = "ok" /\ IsMulti(call.verb, call.msg)) => Tail(toClient) = <<>>
  BY <1>1, <1>2, HeadTailProperties, EmptySeq DEF StatusThenBody, NextLine
<1> QED BY <1>1, <1>2, <1>3, RestOfReply
        DEF SyncInv, NoForeignLine, IsStale, NextLine, StatusThenBody

LEMMA BodyRead ==
  ASSUME TypeOK, SyncInv, InSync, Reads("body")
  PROVE  /\ ~IsStale /\ ~call.stale /\ toServer = <<>>
         /\ OwnLines(Tail(toClient)) /\ DotIsLast(Tail(toClient))
         /\ NextLine.kind = "dot" => Tail(toClient) = <<>>
<1>1. /\ toClient \in Seq(Line) /\ toClient # <<>> /\ call.at = "body"
  BY DEF TypeOK, Reads
<1>2. toServer = <<>> /\ OwnLines(toClient) /\ DotIsLast(toClient)
  BY <1>1 DEF SyncInv, OneOutstanding
<1> QED BY <1>1, <1>2, RestOfReply DEF SyncInv, NoForeignLine, IsStale, NextLine

(* A call that ends with nothing left unread preserves the invariant.      *)
LEMMA EndInSync ==
  ASSUME SyncInv, NEW val, EndCall(val, FALSE), abandoned' = abandoned,
         InSync => toServer' = <<>> /\ toClient' = <<>>
  PROVE  SyncInv'
BY DEF SyncInv, OneOutstanding, NoForeignLine, InSync, EndCall, NoCall, Idle

(* Nothing is queued for a server that has ended the session.              *)
NothingQueued == Ended => toServer = <<>>

LEMMA EndedIsQuiet == Spec => []NothingQueued
<1>1. Init => NothingQueued
  BY DEF Init, NothingQueued
<1>2. NothingQueued /\ [Next]_vars => NothingQueued'
  <2> SUFFICES ASSUME NothingQueued, [Next]_vars PROVE NothingQueued'
    OBVIOUS
  <2> USE DEF NothingQueued, Ended
  <2>1. ASSUME NEW op \in Calls, NEW msg \in ArgsOf(op), Refuse(op, msg) \/ Begin(op, msg)
        PROVE  NothingQueued'
    BY <2>1 DEF Refuse, Begin, Write, serverVars
  <2>2. CASE ContinueLogin \/ BeginBody \/ ReturnOk \/ ReturnErr \/ ReadBodyLine
    BY <2>2 DEF ContinueLogin, BeginBody, ReturnOk, ReturnErr, ReadBodyLine, Write, serverVars
  <2>3. CASE ReadTerminator \/ ReadUndecodable \/ ReadEof \/ TimeOut \/ Cancel \/ DropClient
    BY <2>3 DEF ReadTerminator, ReadUndecodable, ReadEof, TimeOut, Cancel, DropClient, serverVars
  <2>4. CASE Accept \/ Reject
    BY <2>4 DEF Accept, Reject
  <2>5. CASE Lose \/ SeeClientGone \/ UNCHANGED vars
    BY <2>5 DEF Lose, SeeClientGone, vars, serverVars
  <2> QED BY <2>1, <2>2, <2>3, <2>4, <2>5 DEF Next, Over
<1> QED BY <1>1, <1>2, PTL DEF Spec

(* A command just written is the only thing on the connection.             *)
LEMMA WrittenInSync ==
  ASSUME SyncInv, NEW op, NEW verb, NEW msg, Write(verb, msg),
         call' = Awaiting(op, verb, msg, FALSE), abandoned' = abandoned,
         InSync => ~ret'.stale /\ toServer = <<>> /\ toClient' = <<>>
  PROVE  SyncInv'
<1> SUFFICES ASSUME InSync PROVE SyncInv'
  BY DEF SyncInv, OneOutstanding, NoForeignLine, InSync
<1>1. call'.at = "status" /\ ~call'.stale /\ ~Idle'
  BY DEF Awaiting, Idle
<1>2. \/ toServer' = <<>>
      \/ toServer' = <<[id |-> nextId, verb |-> verb, msg |-> msg]>>
  BY DEF Write
<1>3. Pending' = [id |-> nextId, verb |-> verb, msg |-> msg]
  BY DEF Pending, Awaiting
<1>4. StatusThenBody(<<>>)'
  BY DEF StatusThenBody, OwnLines, DotIsLast
<1>5. OneOutstanding'
  BY <1>1, <1>2, <1>3, <1>4 DEF OneOutstanding
<1> QED BY <1>1, <1>5 DEF SyncInv, NoForeignLine

(* Every call reads the whole of its own reply and nothing else, as long   *)
(* as no call has been given up half-way.                                  *)
THEOREM Pairing == Spec => []SyncInv
<1>1. Init => SyncInv
  <2> SUFFICES ASSUME Init PROVE SyncInv
    OBVIOUS
  <2>1. call.at = "status" /\ call.id = 0 /\ ~call.stale /\ ~ret.stale
    BY DEF Init, NoCall, NoReturn, Failure
  <2>2. PICK k \in {"ok", "err"} : toClient = <<[of |-> 0, kind |-> k, msg |-> NoMsg]>>
    BY DEF Init
  <2>3. StatusThenBody(toClient)
    BY <2>1, <2>2 DEF StatusThenBody, OwnLines, DotIsLast
  <2> QED BY <2>1, <2>3 DEF Init, SyncInv, OneOutstanding, NoForeignLine, Idle
<1>2. TypeOK /\ NothingQueued /\ SyncInv /\ [Next]_vars => SyncInv'
  <2> SUFFICES ASSUME TypeOK, NothingQueued, SyncInv, [Next]_vars PROVE SyncInv'
    OBVIOUS
  <2>1. ASSUME NEW op \in Calls, NEW msg \in ArgsOf(op), Refuse(op, msg)
        PROVE  SyncInv'
    BY <2>1 DEF Refuse, Failure, SyncInv, OneOutstanding, NoForeignLine, InSync, Idle,
       Pending, StatusThenBody, OwnLines, DotIsLast
  <2>2. ASSUME NEW op \in Calls, NEW msg \in ArgsOf(op), Begin(op, msg)
        PROVE  SyncInv'
    <3>1. InSync => toServer = <<>> /\ toClient' = <<>> /\ ~ret'.stale
      BY <2>2 DEF Begin, SyncInv, OneOutstanding, NoReturn, Failure
    <3> QED BY <2>2, <3>1, WrittenInSync DEF Begin
  <2>3. CASE ContinueLogin
    <3>1. ~IsMulti(call.verb, call.msg)
      BY <2>3 DEF ContinueLogin, IsMulti, ListOps
    <3>2. CASE InSync
      <4>1. ~IsStale /\ ~call.stale /\ toServer = <<>> /\ toClient' = <<>>
        BY <2>3, <3>1, <3>2, StatusRead DEF ContinueLogin, Reads
      <4>2. ~ret'.stale
        BY <2>3, <3>2 DEF ContinueLogin, SyncInv, NoForeignLine
      <4>3. (call.stale \/ IsStale) = FALSE
        BY <4>1 DEF IsStale, TypeOK, Call
      <4> QED BY <2>3, <4>1, <4>2, <4>3, WrittenInSync DEF ContinueLogin
    <3>3. CASE ~InSync
      BY <2>3, <3>3 DEF ContinueLogin, SyncInv, OneOutstanding, NoForeignLine, InSync
    <3> QED BY <3>2, <3>3
  <2>4. CASE BeginBody
    <3>1. CASE InSync
      <4>1. /\ ~IsStale /\ ~call.stale /\ toServer = <<>>
            /\ OwnLines(Tail(toClient)) /\ DotIsLast(Tail(toClient))
        BY <2>4, <3>1, StatusRead DEF BeginBody
      <4>2. call'.at = "body" /\ call'.id = call.id /\ ~call'.stale
        BY <2>4, <4>1 DEF BeginBody, TypeOK, Call
      <4>3. toServer' = <<>> /\ OwnLines(toClient)' /\ DotIsLast(toClient)'
        BY <2>4, <4>1, <4>2 DEF BeginBody, Reads, OwnLines, DotIsLast
      <4> QED BY <2>4, <3>1, <4>2, <4>3
              DEF BeginBody, SyncInv, OneOutstanding, NoForeignLine, Idle
    <3>2. CASE ~InSync
      BY <2>4, <3>2 DEF BeginBody, SyncInv, OneOutstanding, NoForeignLine, InSync
    <3> QED BY <3>1, <3>2
  <2>5. CASE ReturnOk \/ ReturnErr
    <3>1. CASE InSync
      <4>1. ~IsStale /\ toServer' = <<>> /\ toClient' = <<>>
        BY <2>5, <3>1, StatusRead DEF ReturnOk, ReturnErr, Reads
      <4>2. PICK val : EndCall(val, FALSE)
        BY <2>5, <4>1 DEF ReturnOk, ReturnErr, IsStale
      <4> QED BY <2>5, <4>1, <4>2, EndInSync DEF ReturnOk, ReturnErr
    <3>2. CASE ~InSync
      BY <2>5, <3>2 DEF ReturnOk, ReturnErr, SyncInv, OneOutstanding, NoForeignLine, InSync
    <3> QED BY <3>1, <3>2
  <2>6. CASE ReadBodyLine
    <3>1. CASE InSync
      <4>1. /\ ~IsStale /\ ~call.stale /\ toServer = <<>>
            /\ OwnLines(Tail(toClient)) /\ DotIsLast(Tail(toClient))
        BY <2>6, <3>1, BodyRead DEF ReadBodyLine
      <4>2. call'.at = "body" /\ call'.id = call.id /\ ~call'.stale
        BY <2>6, <4>1 DEF ReadBodyLine, Reads, TypeOK, Call
      <4>3. toServer' = <<>> /\ OwnLines(toClient)' /\ DotIsLast(toClient)'
        BY <2>6, <4>1, <4>2 DEF ReadBodyLine, Reads, OwnLines, DotIsLast
      <4> QED BY <2>6, <3>1, <4>2, <4>3
              DEF ReadBodyLine, SyncInv, OneOutstanding, NoForeignLine, Idle
    <3>2. CASE ~InSync
      BY <2>6, <3>2 DEF ReadBodyLine, SyncInv, OneOutstanding, NoForeignLine, InSync
    <3> QED BY <3>1, <3>2
  <2>7. CASE ReadTerminator
    <3>1. CASE InSync
      <4>1. ~IsStale /\ toServer' = <<>> /\ toClient' = <<>>
        BY <2>7, <3>1, BodyRead DEF ReadTerminator, Reads
      <4>2. PICK val : EndCall(val, FALSE)
        BY <2>7, <4>1 DEF ReadTerminator, IsStale
      <4> QED BY <2>7, <4>1, <4>2, EndInSync DEF ReadTerminator
    <3>2. CASE ~InSync
      BY <2>7, <3>2 DEF ReadTerminator, SyncInv, OneOutstanding, NoForeignLine, InSync
    <3> QED BY <3>1, <3>2
  <2>8. CASE ReadUndecodable \/ TimeOut \/ Cancel
    <3>1. abandoned' # "no"
      BY <2>8 DEF ReadUndecodable, TimeOut, Cancel, Abandon
    <3> QED BY <3>1 DEF SyncInv, OneOutstanding, NoForeignLine, InSync
  <2>9. CASE ReadEof
    <3>1. PICK val : EndCall(val, FALSE)
      BY <2>9 DEF ReadEof
    <3>2. InSync => toServer' = <<>> /\ toClient' = <<>>
      BY <2>9 DEF ReadEof, NothingQueued
    <3> QED BY <2>9, <3>1, <3>2, EndInSync DEF ReadEof
  <2>10. CASE DropClient \/ SeeClientGone
    BY <2>10 DEF DropClient, SeeClientGone, SyncInv, OneOutstanding, NoForeignLine, InSync,
       Idle, Pending, StatusThenBody, OwnLines, DotIsLast
  <2>11. CASE Accept \/ Reject
    <3>1. /\ abandoned' = abandoned /\ call' = call /\ ret' = ret
          /\ toServer # <<>> /\ Head(toServer) \in Command
      BY <2>11, HeadTailProperties DEF Accept, Reject, TypeOK
    <3>2. PICK r \in Replies(Head(toServer)) \cup {Refusal(Head(toServer))} :
            toClient' = toClient \o r
      BY <2>11 DEF Accept, Reject
    <3>3. CASE InSync
      <4>1. call.at = "status" /\ toServer = <<Pending>> /\ toClient = <<>>
        BY <3>1, <3>3 DEF SyncInv, OneOutstanding, Idle, TypeOK, Call
      <4>2. Head(toServer) = Pending /\ Tail(toServer) = <<>>
        BY <4>1
      <4>3. toServer' = <<>>
        BY <2>11, <4>2 DEF Accept, Reject
      <4>4. toClient' = r
        BY <3>1, <3>2, <4>1, ReplyShape, ConcatEmptySeq
      <4>5. StatusThenBody(toClient)'
        BY <3>1, <4>2, <4>4, ReplyShape DEF StatusThenBody, OwnLines, DotIsLast, Pending
      <4> QED BY <3>1, <4>1, <4>3, <4>5
              DEF SyncInv, OneOutstanding, NoForeignLine, InSync, Idle
    <3>4. CASE ~InSync
      BY <3>1, <3>4 DEF SyncInv, OneOutstanding, NoForeignLine, InSync
    <3> QED BY <3>3, <3>4
  <2>12. CASE Lose
    <3>1. PICK k \in 0 .. Len(toClient) : LostTail(k)
      BY <2>12, LoseShape
    <3>2. /\ toClient' \in Seq(Line) /\ Len(toClient') = k
          /\ \A i \in 1 .. k : toClient'[i].of = toClient[i].of
          /\ \A i \in 1 .. k - 1 : toClient'[i] = toClient[i]
          /\ k > 1 => toClient'[1] = toClient[1]
          /\ k <= Len(toClient)
      BY <3>1 DEF LostTail, TypeOK
    <3>3. call' = call /\ ret' = ret /\ abandoned' = abandoned /\ toServer' = <<>>
      BY <2>12 DEF Lose
    <3>4. OwnLines(toClient) => OwnLines(toClient)'
      BY <3>2, <3>3 DEF OwnLines, TypeOK
    <3>5. DotIsLast(toClient) => DotIsLast(toClient)'
      BY <3>2 DEF DotIsLast, TypeOK
    <3>6. StatusThenBody(toClient) => StatusThenBody(toClient)'
      BY <3>2, <3>3, <3>4, <3>5 DEF StatusThenBody, TypeOK
    <3>7. toClient = <<>> => toClient' = <<>>
      BY <3>2
    <3>8. StatusThenBody(<<>>)'
      BY DEF StatusThenBody, OwnLines, DotIsLast
    <3> QED BY <3>3, <3>4, <3>5, <3>6, <3>7, <3>8
            DEF SyncInv, OneOutstanding, NoForeignLine, InSync, Idle
  <2>13. CASE UNCHANGED vars
    BY <2>13 DEF vars, SyncInv, OneOutstanding, NoForeignLine, InSync, Idle, Pending,
       StatusThenBody, OwnLines, DotIsLast
  <2> QED BY <2>1, <2>2, <2>3, <2>4, <2>5, <2>6, <2>7, <2>8, <2>9, <2>10, <2>11, <2>12,
             <2>13 DEF Next, Over
<1> QED BY <1>1, <1>2, TypeCorrect, EndedIsQuiet, PTL DEF Spec
(* The two halves of SyncInv, by the names the runs check them under.      *)
(* While every call has read its whole reply, the connection holds at most *)
(* one command or one reply, and that of the call in progress.             *)
THEOREM OneReplyOutstanding == Spec => []OneOutstanding
BY Pairing, PTL DEF SyncInv

(* While every call has read its whole reply, no call consumes a line that *)
(* answers another command.                                                *)
THEOREM RepliesArePaired == Spec => []NoForeignLine
BY Pairing, PTL DEF SyncInv
-----------------------------------------------------------------------------
(***************************************************************************)
(* A connection known to be closed.  is_closed is set by an EOF, when      *)
(* there is nothing left to read, or by quit, which consumes the client;   *)
(* nothing can arrive afterwards, and no later call gets as far as the     *)
(* CAPA probe, whose errors login would hide.                              *)
(***************************************************************************)
ClosedInv == isClosed => \/ client = "dropped" /\ Idle
                         \/ Ended /\ toClient = <<>> /\ ~InProbe

(* The steps that may follow, once is_closed is set: none of them reads.   *)
LEMMA NothingToRead ==
  ASSUME ClosedInv, isClosed, NEW at \in {"status", "body"}
  PROVE  ~Reads(at)
BY DEF ClosedInv, Reads, Idle

LEMMA ClosedInductive == ClosedInv /\ [Next]_vars => ClosedInv'
<1> SUFFICES ASSUME ClosedInv, [Next]_vars PROVE ClosedInv'
  OBVIOUS
<1> USE DEF Idle, Ended, InProbe
<1>1. ASSUME NEW op \in Calls, NEW msg \in ArgsOf(op), Refuse(op, msg)
      PROVE  ClosedInv'
  BY <1>1 DEF Refuse, ClosedInv, clientVars, serverVars
<1>2. ASSUME NEW op \in Calls, NEW msg \in ArgsOf(op), Begin(op, msg)
      PROVE  ClosedInv'
  <2>1. ~InProbe'
    BY <1>2 DEF Begin, Awaiting, FirstVerb, AuthOps
  <2> QED BY <1>2, <2>1 DEF Begin, ClosedInv, clientVars, serverVars
<1>3. CASE ContinueLogin \/ BeginBody \/ ReadBodyLine
  <2>1. ~isClosed
    BY <1>3, NothingToRead DEF ContinueLogin, BeginBody, ReadBodyLine
  <2> QED BY <1>3, <2>1 DEF ContinueLogin, BeginBody, ReadBodyLine, ClosedInv, clientVars
<1>4. CASE ReturnOk
  <2>1. ~isClosed
    BY <1>4, NothingToRead DEF ReturnOk
  <2>2. isClosed' => call.op = "QUIT"
    BY <1>4, <2>1, Zenon DEF ReturnOk
  <2>3. PICK val : EndCall(val, IsStale)
    BY <1>4 DEF ReturnOk
  <2>4. call.op = "QUIT" => client' = "dropped"
    BY <2>3 DEF EndCall
  <2>5. call'.at = "none"
    BY <2>3 DEF EndCall, NoCall
  <2> QED BY <2>2, <2>4, <2>5 DEF ClosedInv
<1>5. CASE ReturnErr \/ ReadTerminator
  <2>1. ~isClosed
    BY <1>5, NothingToRead DEF ReturnErr, ReadTerminator
  <2> QED BY <1>5, <2>1 DEF ReturnErr, ReadTerminator, ClosedInv
<1>6. CASE ReadUndecodable
  <2>1. call.at # "none" /\ Reads(call.at) /\ isClosed' = isClosed
    BY <1>6 DEF ReadUndecodable
  <2>2. ~isClosed
    BY <2>1 DEF ClosedInv, Reads
  <2> QED BY <2>1, <2>2 DEF ClosedInv
<1>7. CASE ReadEof
  <2>1. Ended' /\ toClient' = <<>> /\ call' = NoCall
    BY <1>7 DEF ReadEof, EndCall, serverVars
  <2> QED BY <2>1 DEF ClosedInv, NoCall, AuthOps
<1>8. CASE TimeOut \/ Cancel
  <2>1. call' = NoCall /\ isClosed' = isClosed /\ Ended' = Ended /\ ~Idle
    BY <1>8 DEF TimeOut, Cancel, EndCall, serverVars
  <2>2. toClient = <<>> => toClient' = <<>>
    BY <1>8 DEF TimeOut, Cancel, TornQueues
  <2> QED BY <2>1, <2>2 DEF ClosedInv, NoCall, AuthOps
<1>9. CASE DropClient
  BY <1>9 DEF DropClient, ClosedInv
<1>10. CASE Accept \/ Reject
  BY <1>10 DEF Accept, Reject, ClosedInv, clientVars
<1>11. CASE Lose \/ SeeClientGone
  <2>1. toClient = <<>> => toClient' = <<>>
    BY <1>11 DEF Lose, SeeClientGone
  <2>2. Ended' /\ UNCHANGED <<clientVars, call>>
    BY <1>11 DEF Lose, SeeClientGone
  <2> QED BY <2>1, <2>2 DEF ClosedInv, clientVars
<1>12. CASE UNCHANGED vars
  BY <1>12 DEF vars, ClosedInv, clientVars, serverVars
<1> QED BY <1>1, <1>2, <1>3, <1>4, <1>5, <1>6, <1>7, <1>8, <1>9, <1>10, <1>11, <1>12
        DEF Next, Over

(* No call reports success on a connection that is known to be closed.     *)
THEOREM ClosedIsFinal == Spec => NoSuccessOnceClosed
<1>1. Init => ClosedInv
  BY DEF Init, ClosedInv
<1>2. ClosedInv /\ [Next]_vars => [isClosed => ret' = ret \/ ret'.val # "Ok"]_vars
  <2> SUFFICES ASSUME ClosedInv, [Next]_vars, isClosed, ret' # ret
               PROVE  ret'.val # "Ok"
    OBVIOUS
  <2>1. ASSUME NEW op \in Calls, NEW msg \in ArgsOf(op), Refuse(op, msg) \/ Begin(op, msg)
        PROVE  ret'.val # "Ok"
    <3>1. CASE Refuse(op, msg)
      <4>1. ret'.val = Refused(op, msg) /\ Refused(op, msg) # "Ok"
        BY <3>1 DEF Refuse, Failure
      <4> QED BY <4>1
    <3>2. CASE Begin(op, msg)
      BY <3>2 DEF Begin, NoReturn, Failure
    <3> QED BY <2>1, <3>1, <3>2
  <2>2. CASE ContinueLogin \/ BeginBody \/ ReturnOk \/ ReturnErr \/ ReadBodyLine \/ ReadTerminator
    BY <2>2, NothingToRead
       DEF ContinueLogin, BeginBody, ReturnOk, ReturnErr, ReadBodyLine, ReadTerminator
  <2>3. CASE ReadUndecodable
    BY <2>3 DEF ReadUndecodable, ClosedInv, Reads, Idle
  <2>4. CASE ReadEof \/ TimeOut
    <3>1. ~InProbe
      BY <2>4 DEF ReadEof, TimeOut, ClosedInv
    <3>2. PICK val \in {"ConnectionClosed", "Io", "Timeout"} : EndCall(val, FALSE)
      BY <2>4 DEF ReadEof, TimeOut
    <3> QED BY <3>1, <3>2 DEF EndCall, Seen
  <2>5. CASE Cancel
    BY <2>5 DEF Cancel, Failure
  <2>6. CASE DropClient \/ Accept \/ Reject \/ Lose \/ SeeClientGone \/ UNCHANGED vars
    BY <2>6 DEF DropClient, Accept, Reject, Lose, SeeClientGone, vars
  <2> QED BY <2>1, <2>2, <2>3, <2>4, <2>5, <2>6 DEF Next, Over
<1> QED BY <1>1, <1>2, ClosedInductive, PTL DEF Spec, NoSuccessOnceClosed
-----------------------------------------------------------------------------
(***************************************************************************)
(* Client and server, while in sync: both agree on the login and on the    *)
(* deletions, a retrieved message is whole, and a session implements       *)
(* MaildropTransaction.                                                    *)
(***************************************************************************)
Logins == {"USER", "PASS", "APOP", "CONNECT"}

(* What a call in progress says of the session: logins run in a new one,   *)
(* all but CAPA and QUIT in one that is logged in.                         *)
CallShape ==
  /\ state \in {"Connected", "Authenticated"}
  /\ call.op = "QUIT" <=> call.verb = "QUIT"
  /\ call.op \in {"RETR", "TOP"} => call.verb = call.op
  /\ Idle => call.verb = "CAPA"
  /\ ret.op = "QUIT" => Idle
  /\ (~Idle /\ call.verb \in Logins) => state = "Connected"
  /\ (~Idle /\ call.verb \notin Logins \cup {"CAPA", "QUIT"}) => state = "Authenticated"
  /\ call.at = "body" => IsMulti(call.verb, call.msg)

LEMMA CallShapeInvariant == Spec => []CallShape
<1>1. Init => CallShape
  BY DEF Init, CallShape, Idle, NoCall, NoReturn, Failure, Logins
<1>2. TypeOK /\ CallShape /\ [Next]_vars => CallShape'
  <2> SUFFICES ASSUME TypeOK, CallShape, [Next]_vars PROVE CallShape'
    OBVIOUS
  <2>1. ASSUME NEW op \in Calls, NEW msg \in ArgsOf(op), Begin(op, msg)
        PROVE  CallShape'
    <3>1. /\ call'.op = op /\ call'.verb = FirstVerb(op) /\ call'.at = "status"
          /\ state' = state /\ ~WrongState(op) /\ op \in Ops /\ ret'.op = "CONNECT"
      BY <2>1, CallsAreOps DEF Begin, Awaiting, Refused, NoReturn, Failure, clientVars
    <3> QED BY <3>1 DEF CallShape, Idle, Logins, FirstVerb, WrongState, Ops, MessageOps, ListOps,
               PlainOps, AuthOps
  <2>2. CASE ContinueLogin
    <3>1. /\ call.verb \in {"USER", "PASS", "APOP"} /\ call.at = "status"
          /\ call'.op = call.op /\ call'.verb = VerbAfter(call.verb) /\ call'.at = "status"
          /\ state' = IF call.verb = "USER" THEN state ELSE "Authenticated"
          /\ ret' = ret
      BY <2>2 DEF ContinueLogin, Awaiting, Reads
    <3> QED BY <3>1 DEF CallShape, Idle, Logins, VerbAfter
  <2>3. CASE BeginBody \/ ReadBodyLine
    <3>1. /\ call'.op = call.op /\ call'.verb = call.verb /\ call'.msg = call.msg
          /\ ~Idle /\ call'.at = "body" /\ state' = state /\ IsMulti(call.verb, call.msg)
          /\ ret' = ret
      BY <2>3 DEF BeginBody, ReadBodyLine, Reads, Idle, clientVars, TypeOK, Call, CallShape
    <3> QED BY <3>1 DEF CallShape, Idle
  <2>4. CASE ReturnOk \/ ReturnErr \/ ReadTerminator \/ ReadUndecodable \/ ReadEof
             \/ TimeOut \/ Cancel
    <3>1. call' = NoCall /\ state' = state
      BY <2>4 DEF ReturnOk, ReturnErr, ReadTerminator, ReadUndecodable, ReadEof, TimeOut,
         Cancel, EndCall
    <3> QED BY <3>1 DEF CallShape, NoCall, Idle
  <2>5. CASE UNCHANGED <<call, state, ret>>
    BY <2>5 DEF CallShape, Idle
  <2>6. ASSUME NEW op \in Calls, NEW msg \in ArgsOf(op), Refuse(op, msg)
        PROVE  CallShape'
    BY <2>6 DEF Refuse, clientVars, CallShape, Idle
  <2>7. DropClient \/ Accept \/ Reject \/ Lose \/ SeeClientGone \/ UNCHANGED vars
          => UNCHANGED <<call, state, ret>>
    BY DEF DropClient, Accept, Reject, Lose, SeeClientGone, clientVars, vars
  <2> QED BY <2>1, <2>2, <2>3, <2>4, <2>5, <2>6, <2>7 DEF Next, Over
<1> QED BY <1>1, <1>2, TypeCorrect, PTL DEF Spec

(***************************************************************************)
(* A QUIT on its way, or one that has removed messages, is the QUIT of the *)
(* call in progress, or of the last call there will be.                    *)
(***************************************************************************)
QuitAsked == \/ call.op = "QUIT"
             \/ ret.op = "QUIT" /\ client = "dropped" /\ Idle
QuitInv == (\/ expunged # {}
            \/ \E i \in 1 .. Len(toServer) : toServer[i].verb = "QUIT") => QuitAsked

LEMMA QuitInvariant == Spec => []QuitInv
<1>1. Init => QuitInv
  BY DEF Init, QuitInv
<1>2. TypeOK /\ CallShape /\ QuitInv /\ [Next]_vars => QuitInv'
  <2> SUFFICES ASSUME TypeOK, CallShape, QuitInv, [Next]_vars PROVE QuitInv'
    OBVIOUS
  <2> USE DEF QuitInv
  <2>1. ASSUME NEW verb \in Verbs, NEW msg, Write(verb, msg), expunged' = expunged,
               QuitAsked => QuitAsked', verb = "QUIT" => QuitAsked'
        PROVE  QuitInv'
    <3> DEFINE c == [id |-> nextId, verb |-> verb, msg |-> msg]
    <3>1. CASE toServer' = Append(toServer, c)
      <4>1. /\ Len(toServer') = Len(toServer) + 1 /\ Len(toServer) \in Nat
            /\ toServer'[Len(toServer) + 1] = c
            /\ \A i \in 1 .. Len(toServer) : toServer'[i] = toServer[i]
        BY <3>1, AppendProperties DEF TypeOK
      <4>2. ASSUME NEW i \in 1 .. Len(toServer'), toServer'[i].verb = "QUIT"
            PROVE  QuitAsked'
        <5>1. CASE i = Len(toServer) + 1
          BY <2>1, <4>1, <4>2, <5>1
        <5>2. CASE i # Len(toServer) + 1
          BY <2>1, <4>1, <4>2, <5>2
        <5> QED BY <5>1, <5>2
      <4> QED BY <2>1, <4>2
    <3>2. CASE toServer' = toServer
      BY <2>1, <3>2
    <3> QED BY <2>1, <3>1, <3>2 DEF Write
  <2>2. ASSUME NEW op \in Calls, NEW msg \in ArgsOf(op), Begin(op, msg)
        PROVE  QuitInv'
    <3>1. /\ ~QuitAsked
          /\ FirstVerb(op) = "QUIT" => QuitAsked'
          /\ FirstVerb(op) \in Verbs
      BY <2>2, CallsAreOps
         DEF Begin, QuitAsked, CallShape, Awaiting, FirstVerb, Ops, Verbs, NoReturn, Failure
    <3> QED BY <2>1, <2>2, <3>1 DEF Begin, serverVars
  <2>3. CASE ContinueLogin
    <3>1. /\ call.op # "QUIT" /\ ~QuitAsked /\ VerbAfter(call.verb) \in {"PASS", "CAPA"}
      BY <2>3 DEF ContinueLogin, CallShape, QuitAsked, Reads, Idle, VerbAfter
    <3> QED BY <2>1, <2>3, <3>1 DEF ContinueLogin, serverVars, Verbs, Ops
  <2>4. CASE BeginBody \/ ReadBodyLine
    <3>1. call'.op = call.op /\ UNCHANGED <<ret, toServer, expunged>> /\ ~Idle
      BY <2>4 DEF BeginBody, ReadBodyLine, Reads, Idle, TypeOK, Call, serverVars
    <3> QED BY <3>1 DEF QuitAsked
  <2>5. CASE ReturnOk \/ ReturnErr \/ ReadTerminator \/ ReadUndecodable \/ ReadEof \/ TimeOut
    <3>1. PICK val, stale : EndCall(val, stale)
      BY <2>5 DEF ReturnOk, ReturnErr, ReadTerminator, ReadUndecodable, ReadEof, TimeOut
    <3>2. ~Idle /\ UNCHANGED <<toServer, expunged>>
      BY <2>5 DEF ReturnOk, ReturnErr, ReadTerminator, ReadUndecodable, ReadEof, TimeOut,
         Reads, Idle, serverVars
    <3> QED BY <3>1, <3>2 DEF EndCall, QuitAsked, NoCall, Idle
  <2>6. CASE Cancel
    BY <2>6 DEF Cancel, QuitAsked, NoCall, Failure, Idle, serverVars
  <2>7. CASE Accept \/ Reject
    <3> DEFINE c == Head(toServer)
    <3>1. /\ toServer # <<>> /\ c = toServer[1] /\ UNCHANGED <<call, ret, client>>
          /\ toServer' = <<>> \/ toServer' = Tail(toServer)
          /\ expunged' = expunged \/ c.verb = "QUIT"
      BY <2>7, HeadTailProperties DEF Accept, Reject, TypeOK, clientVars
    <3>2. /\ 1 \in 1 .. Len(toServer)
          /\ \A i \in 1 .. Len(Tail(toServer)) :
               i + 1 \in 1 .. Len(toServer) /\ Tail(toServer)[i] = toServer[i + 1]
      BY <3>1, HeadTailProperties DEF TypeOK
    <3>3. QuitAsked' = QuitAsked
      BY <3>1 DEF QuitAsked, Idle
    <3>4. expunged' # {} => QuitAsked
      BY <3>1, <3>2
    <3>5. ASSUME NEW i \in 1 .. Len(toServer'), toServer'[i].verb = "QUIT"
          PROVE  QuitAsked
      BY <3>1, <3>2, <3>5
    <3> QED BY <3>3, <3>4, <3>5
  <2>8. CASE Lose
    BY <2>8 DEF Lose, QuitAsked, Idle, clientVars
  <2>9. ASSUME NEW op \in Calls, NEW msg \in ArgsOf(op), Refuse(op, msg)
        PROVE  QuitInv'
    <3>1. ~QuitAsked
      BY <2>9 DEF Refuse, QuitAsked, CallShape
    <3> QED BY <2>9, <3>1 DEF Refuse, serverVars
  <2>10. CASE DropClient \/ SeeClientGone \/ UNCHANGED vars
    BY <2>10 DEF DropClient, SeeClientGone, vars, serverVars, clientVars, QuitAsked, Idle
  <2> QED BY <2>2, <2>3, <2>4, <2>5, <2>6, <2>7, <2>8, <2>9, <2>10 DEF Next, Over
<1> QED BY <1>1, <1>2, TypeCorrect, CallShapeInvariant, PTL DEF Spec

(* Messages disappear only by a QUIT the caller asked for, in sync or not. *)
THEOREM OnlyQuit == Spec => []OnlyQuitExpunges
BY QuitInvariant, PTL DEF QuitInv, QuitAsked, OnlyQuitExpunges

(***************************************************************************)
(* In sync, client and server differ by the reply on its way at most.      *)
(***************************************************************************)
Agreed == (state = "Authenticated" <=> server = "trans") /\ marks = acked

(* The server has accepted the command of the call in progress.            *)
Accepted ==
  /\ IF call.verb \in {"PASS", "APOP"} THEN server = "trans"
     ELSE state = "Authenticated" <=> server = "trans"
  /\ marks = CASE call.verb = "DELE" -> acked \cup {call.msg}
               [] call.verb = "RSET" -> {}
               [] OTHER -> acked

OkComes == call.at = "status" /\ toClient # <<>> /\ toClient[1].kind = "ok"

Live ==
  /\ expunged = {}
  /\ IF call.at = "status" /\ toServer = <<>>
     THEN toClient # <<>> /\ IF toClient[1].kind = "ok" THEN Accepted ELSE Agreed
     ELSE Agreed

Closed ==
  /\ server = "gone" => expunged = {}
  /\ server = "updated" => expunged = acked
  /\ server = "failed" => expunged \subseteq acked
  /\ server \in {"updated", "failed"} =>
       IF Idle THEN client = "dropped" ELSE call.op = "QUIT"

ServerInv ==
  InSync =>
    /\ IF Ended THEN Closed ELSE Live
    /\ state = "Authenticated" \/ (OkComes /\ call.verb \in {"PASS", "APOP"}) => loggedIn
    /\ state = "Authenticated" /\ (\/ OkComes /\ call.verb = "QUIT"
                                   \/ ret.op = "QUIT" /\ ret.val = "Ok")
         => server = "updated"

(* A call that reads the end of its reply leaves both in agreement.        *)
LEMMA EndAgrees ==
  ASSUME CallShape, ServerInv, InSync, ~Idle, NEW val, NEW stale, EndCall(val, stale),
         UNCHANGED <<state, serverVars, abandoned>>,
         ~Ended => (state = "Authenticated" <=> server = "trans") /\ marks = acked',
         Ended => acked' = acked \/ server = "gone",
         call.op = "QUIT" /\ val = "Ok" /\ state = "Authenticated" => server = "updated"
  PROVE  ServerInv'
<1>1. /\ call' = NoCall /\ Idle' /\ ~OkComes' /\ call'.at # "status"
  BY DEF EndCall, NoCall, Idle, OkComes
<1>2. call.op = "QUIT" => client' = "dropped"
  BY DEF EndCall
<1>3. ret'.op = "QUIT" /\ ret'.val = "Ok" => call.op = "QUIT" /\ val = "Ok"
  BY DEF EndCall, Seen, InProbe, AuthOps
<1>4. Ended' = Ended
  BY DEF Ended, serverVars
<1>5. CASE Ended
  BY <1>1, <1>2, <1>3, <1>4, <1>5 DEF ServerInv, InSync, Closed, serverVars
<1>6. CASE ~Ended
  BY <1>1, <1>2, <1>3, <1>4, <1>6 DEF ServerInv, InSync, Live, Agreed, serverVars
<1> QED BY <1>5, <1>6

(* While in sync, the server answers the command of the call in progress.  *)
LEMMA ServerAnswers ==
  ASSUME TypeOK, SyncInv, InSync, Accept \/ Reject
  PROVE  /\ call.at = "status" /\ toServer # <<>> /\ toClient = <<>> /\ Pending \in Command
         /\ toServer' = <<>> /\ Head(toServer) = Pending /\ toClient' \in Seq(Line)
         /\ Accept => toClient' \in Replies(Pending)
         /\ Reject => toClient' = Refusal(Pending)
<1>1. toServer # <<>> /\ Head(toServer) \in Command
  BY HeadTailProperties DEF Accept, Reject, TypeOK
<1>2. call.at = "status" /\ toServer = <<Pending>> /\ toClient = <<>>
  BY <1>1 DEF SyncInv, OneOutstanding, Idle, TypeOK, Call
<1>3. Head(toServer) = Pending /\ Tail(toServer) = <<>>
  BY <1>2
<1>4. ASSUME NEW r \in Replies(Pending) \cup {Refusal(Pending)}, toClient' = toClient \o r
      PROVE  toClient' = r /\ r \in Seq(Line)
  BY <1>1, <1>2, <1>3, <1>4, ReplyShape, ConcatEmptySeq
<1>5. Accept => toClient' \in Replies(Pending) /\ toClient' \in Seq(Line)
  <2> SUFFICES ASSUME Accept PROVE toClient' \in Replies(Pending) /\ toClient' \in Seq(Line)
    OBVIOUS
  <2>1. PICK r \in Replies(Pending) : toClient' = toClient \o r
    BY <1>3 DEF Accept
  <2> QED BY <1>4, <2>1
<1>6. Reject => toClient' = Refusal(Pending) /\ toClient' \in Seq(Line)
  <2> SUFFICES ASSUME Reject PROVE toClient' = Refusal(Pending) /\ toClient' \in Seq(Line)
    OBVIOUS
  <2>1. toClient' = toClient \o Refusal(Pending)
    BY <1>3 DEF Reject
  <2> QED BY <1>4, <2>1
<1>7. toServer' = <<>>
  BY <1>3 DEF Accept, Reject
<1> QED BY <1>1, <1>2, <1>3, <1>5, <1>6, <1>7

LEMMA ServerInvariant == Spec => []ServerInv
<1>1. Init => ServerInv
  <2> SUFFICES ASSUME Init PROVE ServerInv
    OBVIOUS
  <2>1. /\ call.at = "status" /\ call.verb = "CONNECT" /\ toClient # <<>> /\ toServer = <<>>
        /\ ret.op = "CONNECT"
    BY DEF Init, NoCall, NoReturn, Failure
  <2> QED BY <2>1 DEF Init, ServerInv, Live, Agreed, Accepted, Ended, OkComes
<1>2. TypeOK /\ SyncInv /\ NothingQueued /\ CallShape /\ ServerInv /\ [Next]_vars => ServerInv'
  <2> SUFFICES ASSUME TypeOK, SyncInv, NothingQueued, CallShape, ServerInv, [Next]_vars, InSync'
               PROVE  ServerInv'
    BY DEF ServerInv
  <2>1. CASE abandoned' # abandoned \/ ReadUndecodable \/ TimeOut \/ Cancel
    <3>1. ~InSync'
      BY <2>1 DEF Next, Refuse, Begin, ContinueLogin, BeginBody, ReturnOk, ReturnErr,
         ReadBodyLine, ReadTerminator, ReadUndecodable, ReadEof, TimeOut, Cancel, DropClient,
         Accept, Reject, Lose, SeeClientGone, Over, Abandon, InSync, vars
    <3> QED BY <3>1
  <2> SUFFICES ASSUME InSync, abandoned' = abandoned, ~(ReadUndecodable \/ TimeOut \/ Cancel)
               PROVE  ServerInv'
    BY <2>1 DEF InSync
  <2>2. ASSUME NEW op \in Calls, NEW msg \in ArgsOf(op), Refuse(op, msg)
        PROVE  ServerInv'
    <3>1. ret'.val # "Ok" /\ Idle /\ UNCHANGED <<call, toServer, toClient, client, state, acked>>
      BY <2>2 DEF Refuse, Failure, clientVars
    <3>2. UNCHANGED <<server, marks, expunged, loggedIn>>
      BY <2>2 DEF Refuse, serverVars
    <3> QED BY <3>1, <3>2 DEF ServerInv, InSync, Ended, Closed, Live, Agreed, Accepted, OkComes, Idle
  <2>3. ASSUME NEW op \in Calls, NEW msg \in ArgsOf(op), Begin(op, msg)
        PROVE  ServerInv'
    <3>1. /\ Idle /\ toClient' = <<>> /\ call.at # "status" /\ toServer = <<>>
          /\ ret'.op = "CONNECT" /\ client = "open" /\ call'.at = "status"
      BY <2>3 DEF Begin, SyncInv, OneOutstanding, NoReturn, Failure, Idle, Awaiting
    <3>2. UNCHANGED <<server, marks, expunged, loggedIn, state, acked>>
      BY <2>3 DEF Begin, serverVars, clientVars
    <3>3. ~Ended => toServer' # <<>>
      BY <2>3, <3>1 DEF Begin, Write
    <3> QED BY <3>1, <3>2, <3>3 DEF ServerInv, InSync, Ended, Closed, Live, Agreed, OkComes
  <2>4. CASE ContinueLogin
    <3>1. ~IsMulti(call.verb, call.msg) /\ call.at = "status" /\ toClient # <<>>
          /\ call.verb \in {"USER", "PASS", "APOP"} /\ NextLine.kind = "ok"
      BY <2>4 DEF ContinueLogin, IsMulti, ListOps, Reads
    <3>2. OkComes /\ toServer = <<>> /\ toClient' = <<>>
      BY <2>4, <3>1, StatusRead DEF ContinueLogin, Reads, OkComes, NextLine, TypeOK
    <3>3. /\ UNCHANGED <<server, marks, expunged, loggedIn, acked, ret>> /\ call'.at = "status"
          /\ state' = IF call.verb = "USER" THEN state ELSE "Authenticated"
          /\ call'.op = call.op /\ ret.op # "QUIT"
      BY <2>4, <3>1 DEF ContinueLogin, serverVars, Awaiting, CallShape, Idle
    <3>4. ~Ended => toServer' # <<>>
      BY <2>4, <3>2 DEF ContinueLogin, Write
    <3>5. CASE Ended
      BY <3>1, <3>2, <3>3, <3>5 DEF ServerInv, InSync, Ended, Closed, OkComes, Idle
    <3>6. CASE ~Ended
      <4>1. Accepted /\ expunged = {}
        BY <3>1, <3>2, <3>6 DEF ServerInv, Live, OkComes
      <4> QED BY <3>1, <3>2, <3>3, <3>4, <3>6, <4>1
              DEF ServerInv, InSync, Ended, Live, Agreed, Accepted, OkComes
    <3> QED BY <3>5, <3>6
  <2>5. CASE BeginBody
    <3>1. OkComes /\ IsMulti(call.verb, call.msg) /\ toServer = <<>>
      BY <2>5, StatusRead DEF BeginBody, Reads, OkComes, NextLine, TypeOK
    <3>2. call.verb \notin {"PASS", "APOP", "DELE", "RSET"}
      BY <3>1 DEF IsMulti, ListOps
    <3>3. /\ call'.at = "body" /\ call'.op = call.op
          /\ UNCHANGED <<server, marks, expunged, loggedIn, acked, ret, state, client>>
      BY <2>5 DEF BeginBody, TypeOK, Call, clientVars, serverVars
    <3>4. ~Ended => Accepted /\ expunged = {}
      BY <3>1 DEF ServerInv, Live, OkComes
    <3>5. ~Ended => Agreed
      BY <3>2, <3>4 DEF Accepted, Agreed
    <3> QED BY <3>1, <3>3, <3>4, <3>5
            DEF ServerInv, InSync, Ended, Closed, Live, Agreed, OkComes, Idle
  <2>6. CASE ReadBodyLine
    <3>1. /\ call.at = "body" /\ call'.at = "body" /\ call'.op = call.op
          /\ UNCHANGED <<server, marks, expunged, loggedIn, acked, ret, state, client>>
      BY <2>6 DEF ReadBodyLine, Reads, TypeOK, Call, clientVars, serverVars
    <3> QED BY <3>1 DEF ServerInv, InSync, Ended, Closed, Live, Agreed, OkComes, Idle
  <2>7. CASE ReturnOk
    <3>1. OkComes /\ toServer = <<>> /\ ~Idle
      BY <2>7, StatusRead DEF ReturnOk, Reads, OkComes, NextLine, TypeOK, Idle
    <3>2. PICK val : /\ EndCall(val, IsStale)
                     /\ val = "Ok" \/ (val = "Parse" /\ IsParsed(call.verb, call.msg))
      BY <2>7 DEF ReturnOk
    <3>3. /\ acked' = acked \/ (val = "Ok" /\ call.verb \in {"DELE", "RSET"})
          /\ call.verb \notin {"USER", "PASS", "APOP"} /\ UNCHANGED <<state, serverVars>>
          /\ acked' = IF val # "Ok" THEN acked ELSE IF call.verb = "DELE" THEN acked \cup {call.msg}
              ELSE IF call.verb = "RSET" THEN {} ELSE acked
      BY <2>7, <3>2 DEF EndCall, ReturnOk
    <3>4. ~Ended => (state = "Authenticated" <=> server = "trans") /\ marks = acked'
      <4>1. ~Ended => Accepted
        BY <3>1 DEF ServerInv, Live, OkComes
      <4> QED BY <3>2, <3>3, <4>1 DEF Accepted, IsParsed, ListOps
    <3>5. Ended => acked' = acked \/ server = "gone"
      BY <3>1, <3>3 DEF ServerInv, Closed, Ended, CallShape
    <3>6. call.op = "QUIT" /\ val = "Ok" /\ state = "Authenticated" => server = "updated"
      BY <3>1 DEF ServerInv, CallShape
    <3> QED BY <2>7, <3>1, <3>2, <3>3, <3>4, <3>5, <3>6, EndAgrees
  <2>8. CASE ReturnErr
    <3>1. /\ ~Idle /\ call.at = "status" /\ toClient # <<>> /\ toClient[1].kind # "ok"
          /\ toServer = <<>>
      BY <2>8, StatusRead DEF ReturnErr, Reads, NextLine, TypeOK, Idle
    <3>2. PICK val : EndCall(val, IsStale) /\ val # "Ok"
      BY <2>8 DEF ReturnErr
    <3>3. acked' = acked /\ UNCHANGED <<state, serverVars>>
      BY <2>8, <3>2 DEF EndCall, ReturnErr
    <3>4. ~Ended => Agreed
      BY <3>1 DEF ServerInv, Live
    <3> QED BY <3>1, <3>2, <3>3, <3>4, EndAgrees DEF Agreed
  <2>9. CASE ReadTerminator
    <3>1. call.at = "body" /\ ~Idle /\ call.verb \notin {"DELE", "RSET", "QUIT"}
      BY <2>9 DEF ReadTerminator, Reads, CallShape, IsMulti, ListOps, Idle
    <3>2. PICK val : EndCall(val, IsStale)
      BY <2>9 DEF ReadTerminator
    <3>3. acked' = acked /\ UNCHANGED <<state, serverVars>>
      BY <2>9, <3>1, <3>2 DEF EndCall, ReadTerminator
    <3>4. ~Ended => Agreed
      BY <3>1 DEF ServerInv, Live
    <3>5. call.op # "QUIT"
      BY <3>1 DEF CallShape
    <3> QED BY <3>1, <3>2, <3>3, <3>4, <3>5, EndAgrees DEF Agreed
  <2>10. CASE ReadEof
    <3>1. ~Idle /\ Ended
      BY <2>10 DEF ReadEof
    <3>2. PICK val \in {"ConnectionClosed", "Io"} : EndCall(val, FALSE)
      BY <2>10 DEF ReadEof
    <3>3. acked' = acked /\ UNCHANGED <<state, serverVars>>
      BY <2>10, <3>2 DEF EndCall, ReadEof
    <3> QED BY <3>1, <3>2, <3>3, EndAgrees
  <2>11. CASE DropClient \/ UNCHANGED vars
    <3>1. /\ UNCHANGED <<server, marks, expunged, loggedIn, acked, ret, state, call, toServer,
                         toClient>>
          /\ client' = client \/ client' = "dropped"
      BY <2>11 DEF DropClient, vars, clientVars, serverVars
    <3> QED BY <3>1 DEF ServerInv, InSync, Ended, Closed, Live, Agreed, Accepted, OkComes, Idle
  <2>12. CASE Accept \/ Reject
    <3>1. /\ call.at = "status" /\ toServer # <<>> /\ toServer' = <<>>
          /\ Head(toServer).verb = call.verb /\ Head(toServer).msg = call.msg
      BY <2>12, ServerAnswers DEF Pending
    <3>2. /\ UNCHANGED <<client, state, acked, ret, call>> /\ ~Ended /\ ret.op # "QUIT"
          /\ (call.op = "QUIT" <=> call.verb = "QUIT")
      BY <2>12, <3>1 DEF Accept, Reject, clientVars, CallShape, Idle
    <3>3. Agreed /\ expunged = {} /\ (state = "Authenticated" => loggedIn)
      BY <3>1, <3>2 DEF ServerInv, Live
    <3>4. CASE Accept
      <4>1. toClient' # <<>> /\ toClient'[1].kind = "ok"
        BY <3>4, ServerAnswers, AcceptedReply
      <4>2. loggedIn' = (loggedIn \/ call.verb \in {"PASS", "APOP"})
        BY <3>1, <3>4 DEF Accept
      <4>3. CASE call.verb = "QUIT"
        <5>1. /\ server' = (IF server = "trans" THEN "updated" ELSE "gone")
              /\ expunged' = (IF server = "trans" THEN marks ELSE expunged)
          BY <3>1, <3>4, <4>3 DEF Accept
        <5> QED BY <3>1, <3>2, <3>3, <4>1, <4>2, <4>3, <5>1
                DEF ServerInv, InSync, Ended, Closed, Agreed, OkComes, Idle
      <4>4. CASE call.verb # "QUIT"
        <5>1. /\ server' = (CASE call.verb = "USER" -> "user"
                                [] call.verb \in {"PASS", "APOP"} -> "trans"
                                [] OTHER -> server)
              /\ expunged' = expunged
              /\ marks' = (CASE call.verb = "DELE" -> marks \cup {call.msg}
                             [] call.verb = "RSET" -> {}
                             [] OTHER -> marks)
              /\ call.verb = "USER" => server \in {"auth", "user"}
          BY <3>1, <3>4, <4>4 DEF Accept, MayAccept
        <5>2. ~Ended'
          BY <3>2, <5>1 DEF Ended
        <5>3. Accepted'
          BY <3>2, <3>3, <5>1 DEF Agreed, Accepted
        <5> QED BY <3>1, <3>2, <3>3, <4>1, <4>2, <4>4, <5>1, <5>2, <5>3
                DEF ServerInv, InSync, Live, OkComes
      <4> QED BY <4>3, <4>4
    <3>5. CASE Reject
      <4>1. toClient' # <<>> /\ toClient'[1].kind # "ok"
        <5>1. toClient' = <<LineOf(Pending, "err", NoMsg)>>
          BY <3>5, ServerAnswers DEF Refusal
        <5> QED BY <5>1 DEF LineOf
      <4>2. /\ UNCHANGED <<marks, loggedIn>>
            /\ server' = IF call.verb # "QUIT" THEN server
                         ELSE IF server = "trans" THEN "failed" ELSE "gone"
            /\ expunged' \in IF call.verb = "QUIT" /\ server = "trans"
                              THEN SUBSET marks ELSE {expunged}
        BY <3>1, <3>5 DEF Reject
      <4> QED BY <3>1, <3>2, <3>3, <4>1, <4>2
              DEF ServerInv, InSync, Ended, Closed, Live, Agreed, OkComes, Idle
    <3> QED BY <2>12, <3>4, <3>5
  <2>13. CASE Lose \/ SeeClientGone
    <3>1. OkComes' => OkComes
      <4>1. CASE Lose
        <5>1. PICK k \in 0 .. Len(toClient) : LostTail(k)
          BY <4>1, LoseShape
        <5>2. call' = call
          BY <4>1 DEF Lose
        <5> QED BY <5>1, <5>2 DEF LostTail, OkComes, TypeOK
      <4>2. CASE SeeClientGone
        BY <4>2 DEF SeeClientGone, OkComes
      <4> QED BY <2>13, <4>1, <4>2
    <3>2. /\ UNCHANGED <<marks, expunged, loggedIn, acked, ret, state, call, client>>
          /\ server' = IF Ended THEN server ELSE "gone"
      BY <2>13 DEF Lose, SeeClientGone, clientVars
    <3> QED BY <3>1, <3>2 DEF ServerInv, InSync, Ended, Closed, Live, Idle
  <2> QED BY <2>2, <2>3, <2>4, <2>5, <2>6, <2>7, <2>8, <2>9, <2>10, <2>11, <2>12, <2>13
          DEF Next, Over
<1> QED BY <1>1, <1>2, TypeCorrect, Pairing, EndedIsQuiet, CallShapeInvariant, PTL DEF Spec

(* While in sync, the client is authenticated only if the server accepted  *)
(* its credentials, and between calls both agree on the login.             *)
THEOREM LoginAgrees == Spec => []SessionAgrees
<1>1. ServerInv => SessionAgrees
  BY DEF ServerInv, SessionAgrees, Live, Agreed, Idle
<1> QED BY <1>1, ServerInvariant, PTL

(* While in sync, quit returning Ok in an authenticated session means that *)
(* exactly the messages whose deletion was acknowledged are gone.          *)
THEOREM CommitIsExact == Spec => []QuitCommits
<1>1. ServerInv => QuitCommits
  BY DEF ServerInv, QuitCommits, Ended, Closed
<1> QED BY <1>1, ServerInvariant, PTL

-----------------------------------------------------------------------------
(***************************************************************************)
(* Refinement.  In terms of MaildropTransaction, a step of the session     *)
(* opens, marks, resets, commits, fails, loses or gives up, or does        *)
(* nothing.                                                                *)
(***************************************************************************)
(* What a call that returns in sync does to the set of deletions.          *)
LEMMA ReturnIsDelete ==
  ASSUME TypeOK, CallShape, ServerInv, InSync, ~Idle, NEW val, NEW stale, EndCall(val, stale),
         UNCHANGED <<state, serverVars, abandoned>>, call.verb \notin {"USER", "PASS", "APOP"}
  PROVE  [Transaction!Next]_(Transaction!vars)
<1>1. Phase' = Phase /\ Removed' = Removed
  BY DEF Phase, Removed, InSync, serverVars
<1>2. CASE acked' = acked
  BY <1>1, <1>2 DEF Deleted, InSync, Transaction!vars
<1>3. CASE acked' # acked
  <2>1. /\ call.verb \in {"DELE", "RSET"}
        /\ acked' = IF call.verb = "DELE" THEN acked \cup {call.msg} ELSE {}
    BY <1>3 DEF EndCall
  <2>2. call.verb = "DELE" => call.msg \in Msgs
    BY DEF TypeOK, Call, MessageOps
  <2>3. Phase \in {"open", "lost"}
    BY <2>1 DEF Phase, CallShape, Logins, ServerInv, Ended, Closed, TypeOK, Phases
  <2>4. CASE call.verb = "DELE"
    <3>1. Deleted' = Deleted \cup {call.msg}
      BY <2>1, <2>4 DEF Deleted, InSync
    <3> QED BY <1>1, <2>2, <2>3, <2>4, <3>1 DEF Transaction!Next, Transaction!Delete
  <2>5. CASE call.verb = "RSET"
    <3>1. Deleted' = {}
      BY <2>1, <2>5 DEF Deleted, InSync
    <3> QED BY <1>1, <2>3, <3>1 DEF Transaction!Next, Transaction!Reset
  <2> QED BY <2>1, <2>4, <2>5
<1> QED BY <1>2, <1>3

LEMMA StepOfTransaction ==
  ASSUME TypeOK, SyncInv, CallShape, ServerInv, [Next]_vars
  PROVE  [Transaction!Next]_(Transaction!vars)
<1>1. CASE ~InSync
  <2>1. ~InSync'
    BY <1>1 DEF Next, Refuse, Begin, ContinueLogin, BeginBody, ReturnOk, ReturnErr,
       ReadBodyLine, ReadTerminator, ReadUndecodable, ReadEof, TimeOut, Cancel, DropClient,
       Accept, Reject, Lose, SeeClientGone, Over, Abandon, InSync, vars
  <2> QED BY <1>1, <2>1 DEF Transaction!vars, Phase, Deleted, Removed
<1>2. CASE InSync /\ ~InSync'
  <2>1. Phase # "unknown" /\ Phase' = "unknown" /\ Deleted' = {} /\ Removed' = {}
    BY <1>2 DEF Phase, Deleted, Removed, Ended
  <2> QED BY <2>1 DEF Transaction!Next, Transaction!GiveUp
<1>3. CASE InSync /\ InSync'
  <2>1. UNCHANGED <<server, state, acked, expunged>> => [Transaction!Next]_(Transaction!vars)
    BY <1>3 DEF Transaction!vars, Phase, Deleted, Removed
  <2>2. ASSUME NEW op \in Calls, NEW msg \in ArgsOf(op), Refuse(op, msg) \/ Begin(op, msg)
        PROVE  [Transaction!Next]_(Transaction!vars)
    BY <2>1, <2>2 DEF Refuse, Begin, clientVars, serverVars
  <2>3. CASE BeginBody \/ ReadBodyLine \/ DropClient \/ UNCHANGED vars
    BY <2>1, <2>3 DEF BeginBody, ReadBodyLine, DropClient, clientVars, serverVars, vars
  <2>4. CASE ContinueLogin
    <3>1. /\ UNCHANGED <<server, acked, expunged>>
          /\ state' = IF call.verb = "USER" THEN state ELSE "Authenticated"
          /\ state = "Connected"
      BY <2>4 DEF ContinueLogin, serverVars, CallShape, Logins, Idle, Reads
    <3>2. CASE Ended \/ call.verb = "USER"
      BY <1>3, <3>1, <3>2 DEF Transaction!vars, Phase, Deleted, Removed, Ended
    <3>3. CASE ~Ended /\ call.verb # "USER"
      <4>1. Phase = "new" /\ Phase' = "open" /\ Deleted' = Deleted /\ Removed' = Removed
        BY <1>3, <3>1, <3>3 DEF Phase, Deleted, Removed, Ended
      <4> QED BY <4>1 DEF Transaction!Next, Transaction!Open
    <3> QED BY <3>2, <3>3
  <2>5. CASE ReturnOk \/ ReturnErr \/ ReadTerminator \/ ReadEof
    <3>1. /\ \E val, stale : EndCall(val, stale)
          /\ ~Idle /\ UNCHANGED <<state, serverVars, abandoned>>
      BY <2>5 DEF ReturnOk, ReturnErr, ReadTerminator, ReadEof, Reads, Idle
    <3>2. PICK val, stale : EndCall(val, stale)
      BY <3>1
    <3>3. CASE call.verb \in {"USER", "PASS", "APOP"}
      BY <2>1, <3>1, <3>2, <3>3 DEF EndCall, serverVars
    <3> QED BY <1>3, <3>1, <3>2, <3>3, ReturnIsDelete
  <2>6. CASE ReadUndecodable \/ TimeOut \/ Cancel
    BY <1>3, <2>6 DEF ReadUndecodable, TimeOut, Cancel, Abandon, InSync
  <2>7. CASE Accept \/ Reject
    <3>1. /\ call.at = "status" /\ toServer # <<>> /\ Head(toServer).verb = call.verb
          /\ ~Ended /\ UNCHANGED <<state, acked>>
      <4>1. /\ call.at = "status" /\ toServer # <<>> /\ Head(toServer) = Pending
        BY <1>3, <2>7, ServerAnswers
      <4> QED BY <2>7, <4>1 DEF Pending, Accept, Reject, clientVars
    <3>2. Agreed /\ expunged = {}
      BY <1>3, <3>1 DEF ServerInv, Live
    <3>3. Deleted' = Deleted
      BY <1>3, <3>1 DEF Deleted
    <3>4. CASE call.verb # "QUIT"
      <4>1. expunged' = expunged /\ ~Ended'
        BY <2>7, <3>1, <3>4 DEF Accept, Reject, Ended
      <4> QED BY <1>3, <3>1, <3>3, <4>1 DEF Transaction!vars, Phase, Removed, Ended
    <3>5. CASE call.verb = "QUIT" /\ server # "trans"
      <4>1. expunged' = expunged /\ server' = "gone"
        BY <2>7, <3>1, <3>5 DEF Accept, Reject
      <4>2. Phase \in {"new", "open"} /\ Phase' = "lost" /\ Removed' = Removed
        BY <1>3, <3>1, <4>1 DEF Phase, Removed, Ended
      <4> QED BY <3>3, <4>2 DEF Transaction!Next, Transaction!Lose
    <3>6. CASE call.verb = "QUIT" /\ server = "trans"
      <4>1. Phase = "open" /\ marks = Deleted
        BY <1>3, <3>2, <3>6 DEF Phase, Deleted, Agreed
      <4>2. CASE Accept
        <5>1. server' = "updated" /\ expunged' = marks
          BY <3>1, <3>6, <4>2 DEF Accept
        <5>2. Phase' = "committed" /\ Removed' = Deleted
          BY <1>3, <4>1, <5>1 DEF Phase, Removed
        <5> QED BY <3>3, <4>1, <5>2 DEF Transaction!Next, Transaction!Commit
      <4>3. CASE Reject
        <5>1. server' = "failed" /\ expunged' \in SUBSET marks
          BY <3>1, <3>6, <4>3 DEF Reject
        <5>2. Phase' = "failed" /\ Removed' \in SUBSET Deleted
          BY <1>3, <4>1, <5>1 DEF Phase, Removed
        <5> QED BY <3>3, <4>1, <5>2 DEF Transaction!Next, Transaction!Fail
      <4> QED BY <2>7, <4>2, <4>3
    <3> QED BY <3>4, <3>5, <3>6
  <2>8. CASE Lose \/ SeeClientGone
    <3>1. /\ UNCHANGED <<expunged, acked, state>>
          /\ server' = IF Ended THEN server ELSE "gone"
      BY <2>8 DEF Lose, SeeClientGone, clientVars
    <3>2. CASE Ended
      BY <2>1, <3>1, <3>2
    <3>3. CASE ~Ended
      <4>1. /\ Phase \in {"new", "open"} /\ Phase' = "lost"
            /\ Deleted' = Deleted /\ Removed' = Removed
        BY <1>3, <3>1, <3>3 DEF Phase, Deleted, Removed, Ended
      <4> QED BY <4>1 DEF Transaction!Next, Transaction!Lose
    <3> QED BY <3>2, <3>3
  <2> QED BY <2>2, <2>3, <2>4, <2>5, <2>6, <2>7, <2>8 DEF Next, Over
<1> QED BY <1>1, <1>2, <1>3

(* Every behaviour of a session is one of a deletion transaction.          *)
THEOREM SessionIsTransaction == Spec => IsTransaction
<1>1. Init => Transaction!Init
  BY DEF Init, Transaction!Init, InSync, Phase, Deleted, Removed
<1>2. TypeOK /\ SyncInv /\ CallShape /\ ServerInv /\ [Next]_vars
        => [Transaction!Next]_(Transaction!vars)
  BY StepOfTransaction
<1> QED BY <1>1, <1>2, TypeCorrect, Pairing, CallShapeInvariant, ServerInvariant, PTL
        DEF Spec, IsTransaction, Transaction!Spec

-----------------------------------------------------------------------------
(***************************************************************************)
(* Of the message a call retrieves, its body holds the first lines and the *)
(* connection the next ones; the terminator comes where the message ends.  *)
(***************************************************************************)
Retrieving == call.verb \in {"RETR", "TOP"}

(* q is what comes after the first k lines of message m.                   *)
RestOf(q, k, m) ==
  LET n == Len(Content[m]) IN
  /\ n \in Nat /\ k \in Nat /\ k + Len(q) <= n + 1
  /\ \A i \in 1 .. Len(q) : /\ q[i].kind = "dot" <=> k + i = n + 1
                            /\ k + i <= n => q[i].msg = m

WholeInv ==
  InSync /\ ~cut =>
    /\ (Retrieving /\ OkComes) => RestOf(Tail(toClient), 0, call.msg)
    /\ (Retrieving /\ call.at = "body") =>
         /\ RestOf(toClient, Len(call.body), call.msg)
         /\ \A i \in 1 .. Len(call.body) : call.body[i].msg = call.msg
    /\ call.at = "status" => call.body = <<>>
    /\ Retrieved => Whole(ret)

(* The next line of a message is its own or the terminator, and the rest   *)
(* comes after it.                                                         *)
LEMMA RestAfterLine ==
  ASSUME NEW q \in Seq(Line), q # <<>>, NEW k, NEW m, RestOf(q, k, m)
  PROVE  /\ Head(q).kind = "dot" => k = Len(Content[m])
         /\ Head(q).kind # "dot" => Head(q).msg = m
         /\ RestOf(Tail(q), k + 1, m)
<1> DEFINE n == Len(Content[m])
<1>1. /\ Tail(q) \in Seq(Line) /\ Len(Tail(q)) = Len(q) - 1 /\ Len(q) \in Nat /\ Len(q) >= 1
      /\ \A i \in 1 .. Len(Tail(q)) : Tail(q)[i] = q[i + 1]
      /\ Head(q) = q[1]
  BY HeadTailProperties
<1>2. n \in Nat /\ k \in Nat /\ k + Len(q) <= n + 1
  BY DEF RestOf
<1>3. \A i \in 1 .. Len(q) : /\ q[i].kind = "dot" <=> k + i = n + 1
                             /\ k + i <= n => q[i].msg = m
  BY DEF RestOf
<1> HIDE DEF n
<1>4. 1 \in 1 .. Len(q) /\ (k + 1 = n + 1 <=> k = n) /\ (k + 1 # n + 1 => k + 1 <= n)
  BY <1>1, <1>2
<1>5. ASSUME NEW i \in 1 .. Len(Tail(q))
      PROVE  /\ Tail(q)[i].kind = "dot" <=> (k + 1) + i = n + 1
             /\ (k + 1) + i <= n => Tail(q)[i].msg = m
  <2>1. i + 1 \in 1 .. Len(q) /\ k + (i + 1) = (k + 1) + i
    BY <1>1, <1>2
  <2> QED BY <1>1, <1>3, <2>1
<1>6. RestOf(Tail(q), k + 1, m)
  BY <1>1, <1>2, <1>5 DEF RestOf, n
<1> QED BY <1>1, <1>3, <1>4, <1>6 DEF n

LEMMA RestOfPrefix ==
  ASSUME NEW q \in Seq(Line), NEW p \in Seq(Line), Len(p) <= Len(q),
         \A i \in 1 .. Len(p) : p[i] = q[i], NEW k, NEW m, RestOf(q, k, m)
  PROVE  RestOf(p, k, m)
<1>1. Len(p) \in Nat /\ Len(q) \in Nat
  OBVIOUS
<1>2. \A i \in 1 .. Len(p) : i \in 1 .. Len(q) /\ p[i] = q[i]
  BY <1>1
<1>3. /\ k \in Nat /\ k + Len(q) <= Len(Content[m]) + 1 /\ Len(Content[m]) \in Nat
  BY DEF RestOf
<1>4. k + Len(p) <= Len(Content[m]) + 1
  BY <1>1, <1>3
<1> QED BY <1>2, <1>3, <1>4, Zenon DEF RestOf

LEMMA TailOfPrefix ==
  ASSUME NEW q \in Seq(Line), NEW p \in Seq(Line), p # <<>>, Len(p) <= Len(q),
         \A i \in 1 .. Len(p) : p[i] = q[i]
  PROVE  /\ Tail(q) \in Seq(Line) /\ Tail(p) \in Seq(Line) /\ Len(Tail(p)) <= Len(Tail(q))
         /\ \A i \in 1 .. Len(Tail(p)) : Tail(p)[i] = Tail(q)[i]
<1>1. Len(p) \in Nat \ {0} /\ Len(q) \in Nat \ {0} /\ q # <<>>
  BY EmptySeq
<1> QED BY <1>1, HeadTailProperties

LEMMA WholeInvariant == Spec => []WholeInv
<1>1. Init => WholeInv
  BY DEF Init, WholeInv, Retrieving, OkComes, Retrieved, NoCall, NoReturn, Failure
<1>2. TypeOK /\ SyncInv /\ CallShape /\ WholeInv /\ [Next]_vars => WholeInv'
  <2> SUFFICES ASSUME TypeOK, SyncInv, CallShape, WholeInv, [Next]_vars, InSync', ~cut'
               PROVE  WholeInv'
    BY DEF WholeInv
  <2>1. InSync /\ ~(ReadUndecodable \/ TimeOut \/ Cancel)
    BY DEF Next, Refuse, Begin, ContinueLogin, BeginBody, ReturnOk, ReturnErr,
       ReadBodyLine, ReadTerminator, ReadUndecodable, ReadEof, TimeOut, Cancel, DropClient,
       Accept, Reject, Lose, SeeClientGone, Over, Abandon, InSync, vars
  <2>2. ~cut
    <3>1. Lose => ~cut
      <4> SUFFICES ASSUME Lose PROVE ~cut
        OBVIOUS
      <4>1. PICK n \in 0 .. Len(toClient) : LostTail(n)
        BY LoseShape
      <4> QED BY <4>1 DEF LostTail
    <3> QED BY <3>1
        DEF Next, Refuse, Begin, ContinueLogin, BeginBody, ReturnOk, ReturnErr, ReadBodyLine,
        ReadTerminator, ReadUndecodable, ReadEof, TimeOut, Cancel, DropClient, Accept, Reject,
        SeeClientGone, Over, serverVars, vars
  <2>3. /\ (Retrieving /\ OkComes) => RestOf(Tail(toClient), 0, call.msg)
        /\ (Retrieving /\ call.at = "body") =>
             /\ RestOf(toClient, Len(call.body), call.msg)
             /\ \A i \in 1 .. Len(call.body) : call.body[i].msg = call.msg
        /\ call.at = "status" => call.body = <<>>
        /\ Retrieved => Whole(ret)
    BY <2>1, <2>2 DEF WholeInv
  <2>4. ASSUME NEW op \in Calls, NEW msg \in ArgsOf(op), Refuse(op, msg)
        PROVE  WholeInv'
    <3>1. UNCHANGED <<call, toClient>> /\ ~Retrieved'
      BY <2>4 DEF Refuse, Failure, Retrieved
    <3> QED BY <2>3, <3>1 DEF WholeInv, Retrieving, OkComes
  <2>5. ASSUME NEW op \in Calls, NEW msg \in ArgsOf(op), Begin(op, msg)
        PROVE  WholeInv'
    <3>1. /\ toClient' = <<>> /\ ~Retrieved' /\ call'.at = "status" /\ call'.body = <<>>
      BY <2>1, <2>5 DEF Begin, SyncInv, OneOutstanding, NoReturn, Failure, Retrieved, Awaiting
    <3> QED BY <3>1 DEF WholeInv, Retrieving, OkComes
  <2>6. CASE ContinueLogin
    <3>1. /\ call'.at = "status" /\ call'.body = <<>> /\ call'.verb \in {"PASS", "CAPA"}
          /\ ret' = ret
      BY <2>6 DEF ContinueLogin, Awaiting, VerbAfter
    <3> QED BY <2>3, <3>1 DEF WholeInv, Retrieving, Retrieved, Whole
  <2>7. CASE BeginBody
    <3>1. /\ OkComes /\ call'.at = "body" /\ call'.verb = call.verb /\ call'.msg = call.msg
          /\ call'.body = <<>> /\ ret' = ret /\ toClient' = Tail(toClient)
      BY <2>3, <2>7 DEF BeginBody, Reads, OkComes, NextLine, TypeOK, Call
    <3>2. Len(call'.body) = 0
      BY <3>1
    <3> QED BY <2>3, <3>1, <3>2 DEF WholeInv, Retrieving, OkComes, Retrieved, Whole
  <2>8. CASE ReadBodyLine
    <3>1. /\ call.at = "body" /\ call'.at = "body" /\ call'.verb = call.verb
          /\ call'.msg = call.msg /\ call'.body = Append(call.body, Head(toClient))
          /\ ret' = ret /\ toClient' = Tail(toClient) /\ toClient # <<>>
          /\ Head(toClient).kind # "dot"
      BY <2>8 DEF ReadBodyLine, Reads, NextLine, TypeOK, Call
    <3>2. Head(toClient) \in Line /\ toClient \in Seq(Line) /\ call.body \in Seq(Line)
      BY <3>1, HeadTailProperties DEF TypeOK, Call
    <3>3. /\ Len(call'.body) = Len(call.body) + 1 /\ Len(call.body) \in Nat
          /\ call'.body[Len(call.body) + 1] = Head(toClient)
          /\ \A i \in 1 .. Len(call.body) : call'.body[i] = call.body[i]
      BY <3>1, <3>2, AppendProperties
    <3>4. CASE Retrieving
      <4>1. Head(toClient).msg = call.msg /\ RestOf(Tail(toClient), Len(call.body) + 1, call.msg)
        BY <2>3, <3>1, <3>2, <3>4, RestAfterLine
      <4>2. \A i \in 1 .. Len(call'.body) : call'.body[i].msg = call.msg
        <5> TAKE i \in 1 .. Len(call'.body)
        <5>1. i = Len(call.body) + 1 \/ i \in 1 .. Len(call.body)
          BY <3>3
        <5> QED BY <2>3, <3>1, <3>3, <3>4, <4>1, <5>1
      <4> QED BY <2>3, <3>1, <3>3, <4>1, <4>2 DEF WholeInv, Retrieving, OkComes, Retrieved, Whole
    <3>5. CASE ~Retrieving
      BY <2>3, <3>1, <3>5 DEF WholeInv, Retrieving, Retrieved, Whole
    <3> QED BY <3>4, <3>5
  <2>9. CASE ReadTerminator
    <3>1. PICK val : EndCall(val, IsStale)
      BY <2>9 DEF ReadTerminator
    <3>2. /\ call'.at = "none" /\ ret'.op = call.op /\ ret'.msg = call.msg
          /\ ret'.val = Seen(val)
          /\ val = "Ok" => ret'.body = call.body
      BY <3>1 DEF EndCall, NoCall
    <3>3. /\ call.at = "body" /\ toClient # <<>> /\ Head(toClient).kind = "dot"
          /\ toClient \in Seq(Line) /\ call.body \in Seq(Line)
      BY <2>9 DEF ReadTerminator, Reads, NextLine, TypeOK, Call
    <3>4. ASSUME Retrieved' PROVE Whole(ret)'
      <4>1. val = "Ok" /\ Retrieving
        BY <3>2, <3>4 DEF Retrieved, Seen, InProbe, AuthOps, CallShape, Retrieving
      <4>2. Len(call.body) = Len(Content[call.msg])
        BY <2>3, <3>3, <4>1, RestAfterLine
      <4>3. DOMAIN call.body = 1 .. Len(call.body)
        BY <3>3
      <4> QED BY <2>3, <3>2, <3>3, <4>1, <4>2, <4>3 DEF Whole
    <3> QED BY <3>2, <3>4 DEF WholeInv, OkComes
  <2>10. CASE ReturnOk \/ ReturnErr \/ ReadEof
    <3>1. call'.at = "none" /\ ~Retrieved'
      <4>1. CASE ReturnOk
        <5>1. call.verb \notin {"RETR", "TOP"} /\ \E val : EndCall(val, IsStale)
          BY <4>1 DEF ReturnOk, IsMulti
        <5> QED BY <5>1 DEF EndCall, NoCall, Retrieved, CallShape
      <4>2. CASE ReturnErr \/ ReadEof
        <5>1. PICK val \in {"ServerError", "Parse", "ConnectionClosed", "Io"}, stale \in BOOLEAN :
                EndCall(val, stale)
          BY <4>2 DEF ReturnErr, ReadEof, IsStale
        <5> QED BY <5>1 DEF EndCall, NoCall, Retrieved, Seen, InProbe, AuthOps
      <4> QED BY <2>10, <4>1, <4>2
    <3> QED BY <3>1 DEF WholeInv, OkComes
  <2>11. CASE Accept \/ Reject
    <3>1. call' = call /\ ret' = ret /\ call.at = "status"
      BY <2>1, <2>11, ServerAnswers DEF Accept, Reject
    <3>2. CASE Accept
      <4>1. /\ Pending \in Command /\ toClient' \in Replies(Pending)
            /\ Pending.verb = call.verb /\ Pending.msg = call.msg
        BY <2>1, <3>2, ServerAnswers DEF Pending
      <4>2. Retrieving => RestOf(Tail(toClient'), 0, call.msg)
        <5> SUFFICES ASSUME Retrieving PROVE RestOf(Tail(toClient'), 0, call.msg)
          OBVIOUS
        <5>1. /\ Len(Content[call.msg]) \in Nat
              /\ Len(Tail(toClient')) = Len(Content[call.msg]) + 1
              /\ \A i \in 1 .. Len(Tail(toClient')) :
                   /\ Tail(toClient')[i].kind = "dot" <=> i = Len(Content[call.msg]) + 1
                   /\ i <= Len(Content[call.msg]) => Tail(toClient')[i].msg = call.msg
          BY <4>1, RetrievalReply DEF Retrieving
        <5> QED BY <5>1 DEF RestOf
      <4> QED BY <2>3, <3>1, <4>2 DEF WholeInv, Retrieving, Retrieved, Whole
    <3>3. CASE Reject
      <4>1. toClient' = <<LineOf(Pending, "err", NoMsg)>>
        BY <2>1, <3>3, ServerAnswers DEF Refusal
      <4>2. ~OkComes'
        BY <4>1 DEF OkComes, LineOf
      <4> QED BY <2>3, <3>1, <4>2 DEF WholeInv, Retrieved, Whole
    <3> QED BY <2>11, <3>2, <3>3
  <2>12. CASE Lose
    <3>1. PICK n \in 0 .. Len(toClient) : LostTail(n)
      BY <2>12, LoseShape
    <3>2. /\ call' = call /\ ret' = ret
          /\ toClient \in Seq(Line) /\ toClient' \in Seq(Line) /\ Len(toClient') <= Len(toClient)
          /\ \A i \in 1 .. Len(toClient') : toClient'[i] = toClient[i]
      BY <2>12, <3>1 DEF Lose, LostTail, TypeOK
    <3>3. ASSUME Retrieving, OkComes' PROVE RestOf(Tail(toClient'), 0, call.msg)
      <4>1. toClient' # <<>> /\ toClient # <<>> /\ toClient'[1] = toClient[1] /\ OkComes
        BY <3>2, <3>3, EmptySeq DEF OkComes
      <4> QED BY <2>3, <3>2, <3>3, <4>1, TailOfPrefix, RestOfPrefix
    <3>4. ASSUME Retrieving, call.at = "body"
          PROVE  RestOf(toClient', Len(call.body), call.msg)
      BY <2>3, <3>2, <3>4, RestOfPrefix
    <3> QED BY <2>3, <3>2, <3>3, <3>4 DEF WholeInv, Retrieving, Retrieved, Whole
  <2>13. CASE DropClient \/ SeeClientGone \/ UNCHANGED vars
    <3>1. UNCHANGED <<call, ret, toClient>>
      BY <2>13 DEF DropClient, SeeClientGone, vars
    <3> QED BY <2>3, <3>1 DEF WholeInv, Retrieving, OkComes, Retrieved, Whole
  <2> QED BY <2>1, <2>4, <2>5, <2>6, <2>7, <2>8, <2>9, <2>10, <2>11, <2>12, <2>13 DEF Next, Over
<1> QED BY <1>1, <1>2, TypeCorrect, Pairing, CallShapeInvariant, PTL DEF Spec

(* While in sync, and unless the connection ends in the middle of a line,  *)
(* what retr and top return is the message asked for, and the whole of it. *)
THEOREM RetrievalIsWhole == Spec => []RetrievedWhole
<1>1. WholeInv => RetrievedWhole
  BY DEF WholeInv, RetrievedWhole
<1> QED BY <1>1, WholeInvariant, PTL
=============================================================================
