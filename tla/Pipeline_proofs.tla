-------------------------- MODULE Pipeline_proofs ---------------------------
(***************************************************************************)
(* Proofs about Pipeline, for every size of the window, any slices of ids, *)
(* any content and any number of batches: types; the order of commands and *)
(* replies (InOrder); what the results are worth (BatchInv); and that a    *)
(* batch is a call for each id.                                            *)
(***************************************************************************)
EXTENDS Pipeline, Pop3Protocol_proofs

(* The batches of TypeOK.                                                  *)
Batches == [kind : {"RETR", "DELE"}, ids : Seq(Msgs),
            at : {"idle", "send", "status", "body"}, first : Nat \ {0}, sent : Nat,
            clean : BOOLEAN, body : Seq(Line)]

(* A chunk is a sequence of commands: those of the ids after the n-th, up  *)
(* to a window of them, numbered on from the first of the batch.           *)
LEMMA ChunkShape ==
  ASSUME TypeOK, NEW b \in Batches, NEW n \in Nat, n < Len(b.ids)
  PROVE  /\ ChunkEnd(b, n) \in n + 1 .. Len(b.ids) /\ ChunkEnd(b, n) <= n + Window
         /\ Chunk(b, n) \in Seq(Command)
         /\ Len(Chunk(b, n)) = ChunkEnd(b, n) - n
         /\ \A i \in 1 .. ChunkEnd(b, n) - n :
              Chunk(b, n)[i].id = b.first + n + i - 1 /\ Chunk(b, n)[i].verb = b.kind
<1> DEFINE e == ChunkEnd(b, n)
           c == Chunk(b, n)
<1>1. ChunkSize \in Nat \ {0} /\ ChunkSize <= Window
  BY WindowIsPositive DEF ChunkSize
<1>2. Len(b.ids) \in Nat /\ b.ids \in Seq(Msgs) /\ b.first \in Nat \ {0}
  BY DEF Batches
<1>3. e \in n + 1 .. Len(b.ids) /\ e <= n + Window
  <2> DEFINE l == Len(b.ids)
             s == ChunkSize
  <2>1. e = IF n + s < l THEN n + s ELSE l
    BY DEF ChunkEnd
  <2>2. s \in Nat \ {0} /\ s <= Window /\ l \in Nat /\ n < l /\ Window \in Nat
    BY <1>1, <1>2, WindowIsPositive
  <2> HIDE DEF e, l, s
  <2>3. e \in n + 1 .. l /\ e <= n + Window
    BY <2>1, <2>2
  <2> QED BY <2>3 DEF l
<1>4. e - n \in Nat
  BY <1>2, <1>3
<1>5. c = [i \in 1 .. e - n |->
             [id |-> b.first + n + i - 1, verb |-> b.kind, msg |-> b.ids[n + i]]]
  BY DEF Chunk
<1> HIDE DEF e, c
<1>6. ASSUME NEW i \in 1 .. e - n
      PROVE  c[i] \in Command /\ c[i].id = b.first + n + i - 1 /\ c[i].verb = b.kind
  <2>1. n + i \in 1 .. Len(b.ids)
    BY <1>2, <1>3, <1>4
  <2>2. b.ids[n + i] \in Msgs
    BY <1>2, <2>1
  <2>3. b.kind \in Verbs
    BY DEF Batches, Verbs, Ops, MessageOps
  <2>4. b.first + n + i - 1 \in Nat
    BY <1>2, <1>4
  <2> QED BY <1>5, <2>2, <2>3, <2>4 DEF Command
<1>7. c \in [1 .. e - n -> Command]
  BY <1>5, <1>6
<1>8. c \in Seq(Command) /\ Len(c) = e - n
  BY <1>4, <1>7, SeqDef, LenProperties
<1> QED BY <1>3, <1>6, <1>8 DEF e, c

(* What a step of the client writes: the types, and the counters.          *)
Written ==
  /\ batch' \in Batches /\ results' \in Seq(Results)
  /\ ret' \in {"none", "Ok", "NotAuthenticated", "InvalidInput", "Cancelled"}
  /\ buffered' \in Seq(Command)
  /\ batch'.at # "idle" => Len(results') < batch'.sent /\ batch'.sent <= Len(batch'.ids)
  /\ batch'.at = "send" => buffered' # <<>>

LEMMA WriteChunkType ==
  ASSUME TypeOK, NEW b \in Batches, NEW n \in Nat, n < Len(b.ids),
         WriteChunk(b, n), results' \in Seq(Results), Len(results') = n
  PROVE  Written
<1> DEFINE e == ChunkEnd(b, n)
           c == Chunk(b, n)
<1>1. /\ e \in n + 1 .. Len(b.ids) /\ c \in Seq(Command)
      /\ Len(c) = e - n /\ Len(b.ids) \in Nat
  BY ChunkShape DEF Batches
<1>2. /\ batch' = [b EXCEPT !.at = "send", !.sent = e, !.body = <<>>]
      /\ buffered' = buffered \o c /\ ret' = "none"
  BY DEF WriteChunk
<1> HIDE DEF e, c
<1>3. batch' \in Batches
  <2>1. <<>> \in Seq(Line) /\ e \in Nat
    BY <1>1
  <2> QED BY <1>2, <2>1 DEF Batches
<1>4. buffered' \in Seq(Command) /\ Len(buffered') = Len(buffered) + Len(c)
  <2>1. buffered \in Seq(Command)
    BY DEF TypeOK
  <2> QED BY <1>1, <1>2, <2>1, ConcatProperties
<1>5. batch'.sent = e /\ batch'.ids = b.ids
  BY <1>2 DEF Batches
<1>6. buffered' # <<>>
  BY <1>1, <1>4 DEF TypeOK
<1> QED BY <1>1, <1>2, <1>3, <1>4, <1>5, <1>6 DEF Written

LEMMA FinishType ==
  ASSUME TypeOK, NEW val \in {"Ok", "Cancelled"}, Finish(val), results' \in Seq(Results)
  PROVE  Written /\ batch'.at = "idle"
<1>1. batch \in Batches
  BY DEF TypeOK, Batches
<1>2. batch' \in Batches /\ batch'.at = "idle"
  <2>1. <<>> \in Seq(Line)
    OBVIOUS
  <2> QED BY <1>1, <2>1 DEF Finish, Batches
<1> QED BY <1>2 DEF Finish, TypeOK, Written

(* A chunk is written only if ids are left.                                *)
LEMMA AdvanceType ==
  ASSUME TypeOK, Busy, NEW r \in Results, Advance(Append(results, r))
  PROVE  Written
<1> DEFINE rs == Append(results, r)
<1>1. rs \in Seq(Results) /\ Len(rs) = Len(results) + 1 /\ Len(results) \in Nat
  BY AppendProperties DEF TypeOK
<1>2. /\ Len(batch.ids) \in Nat /\ batch \in Batches /\ batch.sent \in Nat
      /\ Len(results) < batch.sent /\ batch.sent <= Len(batch.ids)
  BY DEF TypeOK, Batches
<1> HIDE DEF rs
<1>3. CASE Len(rs) = Len(batch.ids)
  BY <1>1, <1>3, FinishType DEF Advance, rs
<1>4. CASE Len(rs) # Len(batch.ids) /\ Len(rs) = batch.sent
  <2>1. Len(rs) < Len(batch.ids) /\ Len(rs) \in Nat
    BY <1>1, <1>2, <1>4
  <2>2. WriteChunk(batch, Len(rs)) /\ results' = rs
    BY <1>4 DEF Advance, rs
  <2> QED BY <1>1, <1>2, <2>1, <2>2, WriteChunkType
<1>5. CASE Len(rs) # Len(batch.ids) /\ Len(rs) # batch.sent
  <2>1. /\ batch' = [batch EXCEPT !.at = "status", !.body = <<>>]
        /\ results' = rs /\ ret' = ret /\ buffered' = buffered
    BY <1>5 DEF Advance, rs
  <2>2. /\ batch' \in Batches /\ batch'.at = "status"
        /\ batch'.sent = batch.sent /\ batch'.ids = batch.ids
    <3>1. <<>> \in Seq(Line)
      OBVIOUS
    <3> QED BY <1>2, <2>1, <3>1 DEF Batches
  <2> QED BY <1>1, <1>2, <1>5, <2>1, <2>2 DEF TypeOK, Written
<1> QED BY <1>3, <1>4, <1>5

LEMMA FailType ==
  ASSUME TypeOK, Busy, NEW val \in Failures, NEW filler \in Failures, Fail(val, filler)
  PROVE  Written
<1>1. \A v \in Failures : Result(v, <<>>) \in Results
  BY DEF Result, Results
<1>2. CASE isPipelining
  <2> DEFINE f(i) == IF i <= Len(results) THEN results[i] ELSE Result(filler, <<>>)
  <2>1. results' = [i \in 1 .. Len(batch.ids) |-> f(i)] /\ Finish("Ok")
    BY <1>2 DEF Fail
  <2>2. ASSUME NEW i \in 1 .. Len(batch.ids) PROVE f(i) \in Results
    <3>1. CASE i <= Len(results)
      BY <3>1 DEF TypeOK
    <3>2. CASE ~(i <= Len(results))
      BY <1>1, <3>2
    <3> QED BY <3>1, <3>2
  <2> HIDE DEF f
  <2>3. results' \in [1 .. Len(batch.ids) -> Results] /\ Len(batch.ids) \in Nat
    BY <2>1, <2>2 DEF TypeOK
  <2>4. results' \in Seq(Results)
    BY <2>3, SeqDef
  <2> QED BY <2>1, <2>4, FinishType
<1>3. CASE ~isPipelining
  BY <1>1, <1>3, AdvanceType DEF Fail
<1> QED BY <1>2, <1>3

(* A batch whose ids have been validated.                                  *)
LEMMA BeginType ==
  ASSUME TypeOK, NEW kind \in {"RETR", "DELE"}, NEW ids \in IdLists, Begin(kind, ids)
  PROVE  Written
<1> DEFINE b == [kind |-> kind, ids |-> ids, at |-> "idle",
                 first |-> batch.first + batch.sent, sent |-> 0,
                 clean |-> InSync, body |-> <<>>]
<1>1. /\ batch.first + batch.sent \in Nat \ {0} /\ InSync \in BOOLEAN
      /\ results' = <<>> /\ <<>> \in Seq(Results) /\ <<>> \in Seq(Line)
      /\ <<>> \in Seq(Msgs) /\ Len(<<>>) = 0
  BY DEF TypeOK, InSync, Begin
<1>2. CASE Refused(ids) = "Ok" /\ ids # <<>>
  <2>1. WriteChunk(b, 0)
    BY <1>2 DEF Begin
  <2>2. ids \in Seq(Msgs \cup {BadInput}) /\ \A i \in DOMAIN ids : ids[i] # BadInput
    BY <1>2, ListsAreIds DEF Refused
  <2>3. ids \in Seq(Msgs) /\ 0 < Len(ids)
    <3>1. PICK n \in Nat : ids \in [1 .. n -> Msgs \cup {BadInput}]
      BY <2>2, SeqDef
    <3>2. ids \in [1 .. n -> Msgs]
      BY <2>2, <3>1
    <3>3. ids \in Seq(Msgs)
      BY <3>2, SeqDef
    <3> QED BY <1>2, <3>3
  <2>4. b \in Batches /\ b.ids = ids
    BY <1>1, <2>3 DEF Batches
  <2> HIDE DEF b
  <2> QED BY <1>1, <2>1, <2>3, <2>4, WriteChunkType
<1>3. CASE ~(Refused(ids) = "Ok" /\ ids # <<>>)
  <2>1. batch' = [b EXCEPT !.ids = <<>>] /\ ret' = Refused(ids) /\ buffered' = buffered
    BY <1>3 DEF Begin
  <2>2. batch' \in Batches /\ batch'.at = "idle"
    BY <1>1, <2>1 DEF Batches
  <2>3. ret' \in {"Ok", "NotAuthenticated", "InvalidInput"}
    BY <2>1 DEF Refused
  <2> QED BY <1>1, <2>1, <2>2, <2>3 DEF Written, TypeOK
<1> QED BY <1>2, <1>3

(* A step that writes what it should and leaves the rest alone, or takes a *)
(* line from the connection.                                               *)
LEMMA WrittenIsTyped ==
  ASSUME TypeOK, Written, toClient' \in Seq(Line), toServer' \in Seq(Command),
         UNCHANGED <<state, isPipelining, server, marks, verdicts>>,
         isClosed' \in BOOLEAN, abandoned' \in BOOLEAN, calls' \in 0 .. MaxBatches
  PROVE  TypeOK'
BY DEF TypeOK, Written, Batches, Busy

(* Type correctness of the batches.                                        *)
THEOREM BatchesTypeCorrect == Spec => []TypeOK
<1>1. Init => TypeOK
  <2> SUFFICES ASSUME Init PROVE TypeOK
    OBVIOUS
  <2>1. batch \in Batches /\ batch.at = "idle"
    BY DEF Init, NoBatch, Batches
  <2>2. 0 \in 0 .. MaxBatches
    BY BatchesAreNat
  <2>3. verdicts = <<>> /\ results = <<>> /\ abandoned = FALSE /\ isClosed = FALSE
    BY DEF Init
  <2>4. /\ <<>> \in Seq(Results) /\ <<>> \in Seq(Command) /\ <<>> \in Seq(Line)
        /\ <<>> \in Seq({"ok", "err"})
    OBVIOUS
  <2> QED BY <2>1, <2>2, <2>3, <2>4 DEF Init, TypeOK, Batches, Busy
<1>2. TypeOK /\ [Next]_vars => TypeOK'
  <2> SUFFICES ASSUME TypeOK, [Next]_vars PROVE TypeOK'
    OBVIOUS
  <2>1. ASSUME NEW kind \in {"RETR", "DELE"}, NEW ids \in IdLists, Begin(kind, ids)
        PROVE  TypeOK'
    <3>1. Written
      BY <2>1, BeginType
    <3>2. calls' \in 0 .. MaxBatches
      BY <2>1, BatchesAreNat DEF Begin, TypeOK
    <3> QED BY <2>1, <3>1, <3>2, WrittenIsTyped DEF Begin, TypeOK, clientVars
  <2>2. CASE Cancel
    <3>1. Written
      BY <2>2, FinishType DEF Cancel, TypeOK
    <3> QED BY <2>2, <3>1, WrittenIsTyped DEF Cancel, TypeOK, clientVars
  <2>3. CASE Flush
    <3>1. /\ buffered \in Seq(Command) /\ Len(buffered) \in Nat /\ buffered # <<>>
          /\ batch \in Batches
      BY <2>3 DEF Flush, TypeOK, Batches
    <3>2. /\ Head(buffered) \in Command /\ buffered' \in Seq(Command)
          /\ Len(buffered') = Len(buffered) - 1
      BY <2>3, <3>1, HeadTailProperties DEF Flush
    <3>3. toServer' \in Seq(Command)
      <4>1. toServer' = toServer \/ toServer' = Append(toServer, Head(buffered))
        BY <2>3 DEF Flush
      <4>2. toServer \in Seq(Command)
        BY DEF TypeOK
      <4> QED BY <3>2, <4>1, <4>2, AppendProperties
    <3>4. batch' = [batch EXCEPT !.at = IF Len(buffered) = 1 THEN "status" ELSE "send"]
      BY <2>3 DEF Flush
    <3>5. /\ batch' \in Batches /\ batch'.sent = batch.sent /\ batch'.ids = batch.ids
          /\ batch'.at = "send" => Len(buffered) # 1
      BY <3>1, <3>4 DEF Batches
    <3>6. batch'.at = "send" => buffered' # <<>>
      BY <3>1, <3>2, <3>5
    <3>7. Written
      BY <2>3, <3>2, <3>5, <3>6 DEF Flush, TypeOK, Written, Busy
    <3> QED BY <2>3, <3>3, <3>7, WrittenIsTyped DEF Flush, TypeOK, clientVars
  <2>4. CASE FlushFails
    <3>1. Written
      BY <2>4, FailType DEF FlushFails, Failures, Busy
    <3> QED BY <2>4, <3>1, WrittenIsTyped DEF FlushFails, TypeOK, clientVars
  <2>5. CASE ReadStatus
    <3>1. toClient' \in Seq(Line)
      BY <2>5 DEF ReadStatus, Reads, TypeOK
    <3>2. batch.at = "status" /\ Busy
      BY <2>5 DEF ReadStatus, Reads, Busy
    <3>3. ASSUME batch' = [batch EXCEPT !.at = "body"],
                 results' = results, ret' = ret, buffered' = buffered
          PROVE  Written
      <4>1. batch \in Batches
        BY DEF TypeOK, Batches
      <4>2. /\ batch' \in Batches /\ batch'.sent = batch.sent /\ batch'.ids = batch.ids
            /\ batch'.at = "body"
        BY <3>3, <4>1 DEF Batches
      <4> QED BY <3>2, <3>3, <4>2 DEF TypeOK, Written
    <3>4. ASSUME NEW v \in {"Ok", "ServerError", "Parse"},
                 Advance(Append(results, Result(v, <<>>)))
          PROVE  Written
      <4>1. <<>> \in Seq(Line)
        OBVIOUS
      <4>2. Result(v, <<>>) \in Results
        BY <4>1 DEF Result, Results
      <4> QED BY <3>2, <3>4, <4>2, AdvanceType
    <3>5. Written
      BY <2>5, <3>3, <3>4 DEF ReadStatus
    <3> QED BY <2>5, <3>1, <3>5, WrittenIsTyped
            DEF ReadStatus, UnchangedByReads, TypeOK, clientVars
  <2>6. CASE ReadBodyLine
    <3>1. toClient' \in Seq(Line) /\ NextLine \in Line
      BY <2>6, HeadTailProperties DEF ReadBodyLine, Reads, NextLine, TypeOK
    <3>2. batch \in Batches /\ Append(batch.body, NextLine) \in Seq(Line)
      BY <3>1, AppendProperties DEF TypeOK, Batches
    <3>3. /\ batch' \in Batches /\ batch'.sent = batch.sent /\ batch'.ids = batch.ids
          /\ batch'.at = batch.at
      BY <2>6, <3>2 DEF ReadBodyLine, Batches
    <3>4. Written
      BY <2>6, <3>3 DEF ReadBodyLine, Reads, TypeOK, Written, Busy
    <3> QED BY <2>6, <3>1, <3>4, WrittenIsTyped
            DEF ReadBodyLine, UnchangedByReads, TypeOK, clientVars
  <2>7. CASE ReadTerminator
    <3>1. toClient' \in Seq(Line)
      BY <2>7 DEF ReadTerminator, Reads, TypeOK
    <3>2. Result("Ok", batch.body) \in Results
      BY DEF Result, Results, TypeOK
    <3>3. Written
      BY <2>7, <3>2, AdvanceType DEF ReadTerminator, Reads, Busy
    <3> QED BY <2>7, <3>1, <3>3, WrittenIsTyped
            DEF ReadTerminator, UnchangedByReads, TypeOK, clientVars
  <2>8. CASE ReadUndecodable
    <3>1. toClient' \in Seq(Line)
      BY <2>8 DEF ReadUndecodable, Reads, TypeOK
    <3>2. Written
      BY <2>8, FailType DEF ReadUndecodable, Failures, Reading, Busy
    <3> QED BY <2>8, <3>1, <3>2, WrittenIsTyped
            DEF ReadUndecodable, UnchangedByReads, TypeOK, clientVars
  <2>9. CASE ReadEof
    <3>1. Written /\ isClosed' \in BOOLEAN
      BY <2>9, FailType DEF ReadEof, Failures, Reading, Busy, TypeOK
    <3> QED BY <2>9, <3>1, WrittenIsTyped DEF ReadEof, TypeOK
  <2>10. CASE TimeOut
    <3>1. Written
      BY <2>10, FailType DEF TimeOut, Failures, Reading, Busy
    <3> QED BY <2>10, <3>1, WrittenIsTyped DEF TimeOut, TypeOK, clientVars
  <2>11. ASSUME NEW verdict \in {"ok", "err"}, NEW replies, NEW marked \in SUBSET Msgs,
                toServer # <<>>, replies \subseteq Replies(NextCommand) \cup {Refusal(NextCommand)},
                Serve(verdict, replies, marked)
         PROVE  TypeOK'
    <3>1. NextCommand \in Command /\ Tail(toServer) \in Seq(Command)
      BY <2>11, HeadTailProperties DEF NextCommand, TypeOK
    <3>2. toClient' \in Seq(Line)
      BY <2>11, <3>1, ReplyShape, ConcatProperties DEF Serve, TypeOK
    <3>3. verdicts' \in Seq({"ok", "err"})
      BY <2>11, AppendProperties DEF Serve, TypeOK
    <3> QED BY <2>11, <3>1, <3>2, <3>3 DEF Serve, TypeOK, clientVars, Busy
  <2>12. CASE Accept
    <3>1. NextCommand \in Command
      BY <2>12, HeadTailProperties DEF Accept, NextCommand, TypeOK
    <3>2. (IF NextCommand.verb = "DELE" THEN {NextCommand.msg} ELSE {}) \in SUBSET Msgs
      BY <3>1 DEF Command, MessageOps
    <3> QED BY <2>11, <2>12, <3>2 DEF Accept
  <2>13. CASE Reject
    BY <2>11, <2>13 DEF Reject
  <2>14. CASE Lose
    <3>1. toClient' \in Seq(Line)
      BY <2>14, SubSeqProperties DEF Lose, TypeOK
    <3> QED BY <2>14, <3>1 DEF Lose, TypeOK, clientVars, Busy
  <2>15. CASE UNCHANGED vars
    BY <2>15 DEF vars, clientVars, TypeOK, Busy
  <2> QED BY <2>1, <2>2, <2>3, <2>4, <2>5, <2>6, <2>7, <2>8, <2>9, <2>10, <2>12, <2>13,
             <2>14, <2>15 DEF Next, Read, Done
<1> QED BY <1>1, <1>2, PTL DEF Spec

-----------------------------------------------------------------------------
(***************************************************************************)
(* What is on the connection during a batch.                               *)
(***************************************************************************)

(* The connection after the line that was waited for has been taken from   *)
(* it, if t is what remains of toClient.                                   *)
Remains(l, t) ==
  /\ t \in Seq(Line)
  /\ t # <<>> => Follows(l, t[1])
  /\ \A i \in 1 .. Len(t) - 1 : Follows(t[i], t[i + 1])
  /\ \A i \in 1 .. Len(t) : t[i].of < batch.first + batch.sent
  /\ server = "trans" =>
       /\ \A i \in 1 .. Len(t) : t[i].of <= Served
       /\ t # <<>> => EndsReply(t[Len(t)]) /\ t[Len(t)].of = Served
       /\ t = <<>> => EndsReply(l) /\ l.of = Served

LEMMA TailRemains ==
  ASSUME TypeOK, InOrder, InSync, toClient # <<>>
  PROVE  /\ Remains(Head(toClient), Tail(toClient))
         /\ Head(toClient) \in Line /\ Head(toClient).of = Awaited
         /\ Head(toClient).kind \in {"ok", "err"} <=> batch.at # "body"
<1> DEFINE q == toClient
           t == Tail(q)
           n == Len(q)
<1>1. q \in Seq(Line) /\ n \in Nat \ {0}
  BY DEF TypeOK
<1>2. /\ t \in Seq(Line) /\ Len(t) = n - 1
      /\ \A i \in 1 .. n - 1 : t[i] = q[i + 1]
      /\ Head(q) = q[1] /\ q[1] \in Line
  BY <1>1
<1>3. /\ \A i \in 1 .. n - 1 : Follows(q[i], q[i + 1])
      /\ \A i \in 1 .. n : q[i].of < batch.first + batch.sent
      /\ Head(q).of = Awaited /\ (Head(q).kind \in {"ok", "err"} <=> batch.at # "body")
  BY <1>1 DEF InOrder, RepliesInOrder
<1>4. server = "trans" => /\ \A i \in 1 .. n : q[i].of <= Served
                          /\ EndsReply(q[n]) /\ q[n].of = Served
  BY DEF InOrder, RepliesAreWhole
<1> HIDE DEF q, t, n
<1>5. t # <<>> => Follows(Head(q), t[1])
  BY <1>1, <1>2, <1>3
<1>6. \A i \in 1 .. Len(t) - 1 : Follows(t[i], t[i + 1])
  <2> SUFFICES ASSUME NEW i \in 1 .. Len(t) - 1 PROVE Follows(t[i], t[i + 1])
    OBVIOUS
  <2>1. i + 1 \in 1 .. n - 1 /\ i \in 1 .. n - 1
    BY <1>1, <1>2
  <2>2. t[i] = q[i + 1] /\ t[i + 1] = q[i + 1 + 1]
    BY <1>2, <2>1
  <2> QED BY <1>3, <2>1, <2>2
<1>7. \A i \in 1 .. Len(t) : t[i].of < batch.first + batch.sent
  BY <1>1, <1>2, <1>3
<1>8. server = "trans" => /\ \A i \in 1 .. Len(t) : t[i].of <= Served
                          /\ t # <<>> => EndsReply(t[Len(t)]) /\ t[Len(t)].of = Served
                          /\ t = <<>> => EndsReply(Head(q)) /\ Head(q).of = Served
  <2> SUFFICES ASSUME server = "trans"
               PROVE  /\ \A i \in 1 .. Len(t) : t[i].of <= Served
                      /\ t # <<>> => EndsReply(t[Len(t)]) /\ t[Len(t)].of = Served
                      /\ t = <<>> => EndsReply(Head(q)) /\ Head(q).of = Served
    OBVIOUS
  <2>1. \A i \in 1 .. Len(t) : t[i].of <= Served
    BY <1>1, <1>2, <1>4
  <2>2. ASSUME t # <<>> PROVE t[Len(t)] = q[n]
    BY <1>1, <1>2, <2>2
  <2>3. ASSUME t = <<>> PROVE Head(q) = q[n]
    <3>1. n = 1
      BY <1>1, <1>2, <2>3
    <3> QED BY <1>2, <3>1
  <2> QED BY <1>4, <2>1, <2>2, <2>3
<1>9. Remains(Head(q), t)
  BY <1>2, <1>5, <1>6, <1>7, <1>8 DEF Remains
<1> QED BY <1>2, <1>3, <1>9 DEF q, t

(* The same when that line was the last of its reply.                      *)
Answered(t) ==
  /\ t \in Seq(Line)
  /\ t # <<>> => t[1].of = Awaited + 1 /\ t[1].kind \in {"ok", "err"}
  /\ \A i \in 1 .. Len(t) - 1 : Follows(t[i], t[i + 1])
  /\ \A i \in 1 .. Len(t) : t[i].of < batch.first + batch.sent
  /\ server = "trans" =>
       /\ \A i \in 1 .. Len(t) : t[i].of <= Served
       /\ t # <<>> => EndsReply(t[Len(t)]) /\ t[Len(t)].of = Served
       /\ t = <<>> => Awaited = Served

(* No batch: nothing is on the connection, and every command is answered.  *)
LEMMA IdleInOrder ==
  ASSUME TypeOK, batch' \in Batches, batch'.at = "idle",
         buffered' = <<>>, toServer' = <<>>, toClient' = <<>>,
         server' = server, verdicts' = verdicts,
         server = "trans" => Served = batch'.first + batch'.sent - 1
  PROVE  InOrder'
<1>1. ~Busy' /\ Len(toServer') = 0 /\ Len(buffered') = 0
  BY DEF Busy
<1>2. Quiet' /\ Windowed' /\ RepliesInOrder' /\ RepliesAreWhole'
  BY <1>1 DEF Quiet, Windowed, RepliesInOrder, RepliesAreWhole, Busy
<1>3. CommandsInOrder'
  <2>1. Consecutive(toServer, Served + 1)' /\ Consecutive(buffered, Served + Len(toServer) + 1)'
    BY <1>1 DEF Consecutive
  <2>2. Served \in Nat /\ Served' = Served /\ batch'.first \in Nat /\ batch'.sent \in Nat
    BY DEF TypeOK, Served, Batches
  <2>3. (server = "trans" => Served + Len(toServer) + Len(buffered) = batch.first + batch.sent - 1)'
    BY <1>1, <2>2
  <2> QED BY <2>1, <2>3 DEF CommandsInOrder
<1> QED BY <1>2, <1>3 DEF InOrder

(* A window is written when every command before it has been answered.     *)
LEMMA WindowInOrder ==
  ASSUME TypeOK, NEW b \in Batches, NEW n \in Nat, n < Len(b.ids), WriteChunk(b, n),
         buffered = <<>>, toServer' = <<>>, toClient' = <<>>, Len(results') = n,
         server' = server, verdicts' = verdicts,
         server = "trans" => Served = b.first + n - 1
  PROVE  InOrder'
<1> DEFINE e == ChunkEnd(b, n)
           c == Chunk(b, n)
<1>1. /\ e \in n + 1 .. Len(b.ids) /\ e <= n + Window
      /\ c \in Seq(Command) /\ Len(c) = e - n
      /\ \A i \in 1 .. e - n : c[i].id = b.first + n + i - 1 /\ c[i].verb = b.kind
  BY ChunkShape
<1>2. batch' = [b EXCEPT !.at = "send", !.sent = e, !.body = <<>>] /\ buffered' = buffered \o c
  BY DEF WriteChunk
<1> HIDE DEF e, c
<1>3. batch'.at = "send" /\ batch'.first = b.first /\ batch'.sent = e /\ batch'.kind = b.kind
  BY <1>2 DEF Batches
<1>4. buffered' = c
  BY <1>1, <1>2
<1>5. Busy' /\ Len(toServer') = 0
  BY <1>3 DEF Busy
<1>6. /\ Window \in Nat /\ Served \in Nat /\ Served' = Served
      /\ b.first \in Nat \ {0} /\ Len(b.ids) \in Nat
  BY WindowIsPositive DEF TypeOK, Served, Batches
<1>7. e \in Nat /\ Len(c) <= Window
  BY <1>1, <1>6
<1>8. Quiet' /\ Windowed'
  BY <1>3, <1>4, <1>5, <1>6, <1>7 DEF Quiet, Windowed, Busy
<1>9. CommandsInOrder'
  <2>1. CASE server = "trans"
    <3>1. Served = b.first + n - 1
      BY <2>1
    <3>2. ASSUME NEW i \in 1 .. Len(c)
          PROVE  c[i].id = Served + 0 + 1 + i - 1 /\ c[i].verb = b.kind
      <4>1. c[i].id = b.first + n + i - 1 /\ c[i].verb = b.kind
        BY <1>1, <1>7
      <4>2. i \in Nat
        BY <1>1, <1>7
      <4>3. b.first + n + i - 1 = Served + 0 + 1 + i - 1
        BY <1>6, <3>1, <4>2
      <4> QED BY <4>1, <4>3
    <3>3. Served + 0 + Len(c) = b.first + e - 1
      BY <1>1, <1>6, <1>7, <3>1
    <3> QED BY <1>3, <1>4, <1>5, <1>6, <2>1, <3>2, <3>3 DEF CommandsInOrder, Consecutive
  <2>2. CASE server # "trans"
    BY <2>2 DEF CommandsInOrder
  <2> QED BY <2>1, <2>2
<1>10. RepliesInOrder'
  BY DEF RepliesInOrder
<1>11. RepliesAreWhole'
  <2>1. Awaited' = b.first + n
    BY <1>3 DEF Awaited
  <2>2. server = "trans" => Awaited' = Served + 1
    BY <1>6, <2>1
  <2> QED BY <1>3, <1>6, <2>2 DEF RepliesAreWhole
<1> QED BY <1>8, <1>9, <1>10, <1>11 DEF InOrder

(* With the last reply of a window nothing of it is left.                 *)
LEMMA LastOfWindow ==
  ASSUME TypeOK, InOrder, InSync, Busy, batch.at # "send", NEW t, Answered(t),
         Len(results) + 1 = batch.sent
  PROVE  t = <<>> /\ toServer = <<>>
<1>1. /\ batch.first \in Nat \ {0} /\ batch.sent \in Nat /\ Len(results) \in Nat
      /\ buffered = <<>> /\ toServer \in Seq(Command) /\ Served \in Nat
      /\ Awaited = batch.first + Len(results)
  BY DEF TypeOK, InOrder, Windowed, Served, Awaited
<1>2. Len(buffered) = 0 /\ Len(toServer) \in Nat
  BY <1>1
<1>3. t \in Seq(Line) /\ Len(t) \in Nat /\ (t # <<>> => Len(t) > 0 /\ t[1] \in Line)
  BY DEF Answered
<1>4. t = <<>>
  <2> SUFFICES ASSUME t # <<>> PROVE FALSE
    OBVIOUS
  <2>1. 1 \in 1 .. Len(t)
    BY <1>3
  <2>2. t[1].of = Awaited + 1 /\ t[1].of < batch.first + batch.sent
    BY <2>1 DEF Answered
  <2> QED BY <1>1, <2>2
<1>5. CASE server = "trans"
  <2>1. Awaited = Served /\ Served + Len(toServer) = batch.first + batch.sent - 1
    BY <1>1, <1>2, <1>4, <1>5 DEF Answered, InOrder, CommandsInOrder
  <2>2. Len(toServer) = 0
    BY <1>1, <1>2, <2>1
  <2> QED BY <1>1, <1>4, <2>2
<1>6. CASE server # "trans"
  BY <1>4, <1>6 DEF InOrder, CommandsInOrder
<1> QED BY <1>5, <1>6

(* With one more result the next reply is awaited, or the window is used   *)
(* up: then nothing of it is left on the connection.                       *)
LEMMA AdvanceInOrder ==
  ASSUME TypeOK, InOrder, InSync, Busy, batch.at # "send", NEW t, Answered(t), toClient' = t,
         NEW r \in Results, Advance(Append(results, r)),
         toServer' = toServer, server' = server, verdicts' = verdicts,
         abandoned' = abandoned
  PROVE  InOrder'
<1> DEFINE rs == Append(results, r)
           limit == batch.first + batch.sent
<1>1. rs \in Seq(Results) /\ Len(rs) = Len(results) + 1 /\ Len(results) \in Nat
  BY AppendProperties DEF TypeOK
<1>2. /\ batch \in Batches /\ Len(batch.ids) \in Nat
      /\ batch.first \in Nat \ {0} /\ batch.sent \in Nat /\ limit \in Nat
      /\ Len(results) < batch.sent /\ batch.sent <= Len(batch.ids)
  BY DEF TypeOK, Batches
<1>3. buffered = <<>> /\ buffered \in Seq(Command) /\ toServer \in Seq(Command)
  BY DEF InOrder, Windowed, TypeOK
<1>4. Len(buffered) = 0 /\ Len(toServer) \in Nat /\ Served \in Nat /\ Served' = Served
  BY <1>3 DEF TypeOK, Served
<1>5. IF server = "trans" THEN Served + Len(toServer) = limit - 1 ELSE toServer = <<>>
  BY <1>2, <1>4 DEF InOrder, CommandsInOrder
<1>6. Awaited = batch.first + Len(results)
  BY DEF Awaited
<1>7. t \in Seq(Line) /\ Len(t) \in Nat /\ (t # <<>> => Len(t) > 0 /\ t[1] \in Line)
  BY DEF Answered
<1>8. ASSUME Len(rs) = batch.sent
      PROVE  t = <<>> /\ toServer = <<>>
  BY <1>1, <1>8, LastOfWindow
<1> HIDE DEF rs, limit
<1>9. CASE Len(rs) = Len(batch.ids)
  <2>1. t = <<>> /\ toServer = <<>>
    BY <1>1, <1>2, <1>8, <1>9
  <2>2. /\ batch' = [batch EXCEPT !.at = "idle", !.body = <<>>] /\ buffered' = buffered
    BY <1>9 DEF Advance, Finish, rs
  <2>3. /\ batch'.at = "idle" /\ batch'.first = batch.first /\ batch'.sent = batch.sent
    BY <1>2, <2>2 DEF Batches
  <2>4. server = "trans" => Served = batch.first + batch.sent - 1
    <3>1. Len(toServer) = 0
      BY <2>1
    <3> QED BY <1>2, <1>4, <1>5, <3>1 DEF limit
  <2>5. batch' \in Batches
    <3>1. <<>> \in Seq(Line)
      OBVIOUS
    <3> QED BY <1>2, <2>2, <3>1 DEF Batches
  <2> QED BY <1>3, <2>1, <2>2, <2>3, <2>4, <2>5, IdleInOrder
<1>10. CASE Len(rs) # Len(batch.ids) /\ Len(rs) = batch.sent
  <2> DEFINE n == Len(rs)
  <2>1. n \in Nat /\ n < Len(batch.ids)
    BY <1>1, <1>2, <1>10
  <2>2. t = <<>> /\ toServer = <<>>
    BY <1>8, <1>10
  <2>3. WriteChunk(batch, n) /\ Len(results') = n
    BY <1>10 DEF Advance, rs
  <2>4. server = "trans" => Served = batch.first + n - 1
    BY <1>2, <1>4, <1>5, <1>10, <2>2 DEF limit
  <2> HIDE DEF n
  <2> QED BY <1>2, <1>3, <2>1, <2>2, <2>3, <2>4, WindowInOrder
<1>11. CASE Len(rs) # Len(batch.ids) /\ Len(rs) # batch.sent
  <2>1. /\ batch' = [batch EXCEPT !.at = "status", !.body = <<>>]
        /\ results' = rs /\ buffered' = buffered
    BY <1>11 DEF Advance, rs
  <2>2. /\ batch'.at = "status" /\ batch'.first = batch.first /\ batch'.sent = batch.sent
        /\ batch'.kind = batch.kind /\ batch'.ids = batch.ids
    BY <1>2, <2>1 DEF Batches
  <2>3. Busy' /\ buffered' = <<>> /\ Len(toServer) + Len(buffered) <= Window
    BY <1>3, <2>1, <2>2 DEF Busy, InOrder, Windowed
  <2>4. Quiet' /\ Windowed'
    BY <1>3, <2>3 DEF Quiet, Windowed
  <2>5. CommandsInOrder'
    BY <1>3, <1>4, <2>1, <2>2 DEF InOrder, CommandsInOrder, Consecutive
  <2>6. Awaited' = Awaited + 1 /\ Awaited \in Nat
    BY <1>1, <1>2, <1>6, <2>1, <2>2 DEF Awaited
  <2>7. \A k, l : Follows(k, l)' <=> Follows(k, l)
    BY <2>2 DEF Follows, EndsReply
  <2>8. \A k : EndsReply(k)' <=> EndsReply(k)
    BY <2>2 DEF EndsReply
  <2>9. RepliesInOrder'
    <3>1. t # <<>> => t[1].of = Awaited' /\ t[1].kind \in {"ok", "err"} /\ t[1] = Head(t)
      BY <1>7, <2>6 DEF Answered
    <3>2. \A i \in 1 .. Len(t) - 1 : Follows(t[i], t[i + 1])'
      <4> SUFFICES ASSUME NEW i \in 1 .. Len(t) - 1 PROVE Follows(t[i], t[i + 1])'
        OBVIOUS
      <4>1. Follows(t[i], t[i + 1])
        BY DEF Answered
      <4> QED BY <2>7, <4>1
    <3>3. \A i \in 1 .. Len(t) : t[i].of < batch'.first + batch'.sent
      BY <2>2 DEF Answered
    <3> QED BY <2>2, <3>1, <3>2, <3>3 DEF RepliesInOrder
  <2>10. RepliesAreWhole'
    BY <1>4, <1>7, <2>2, <2>6, <2>8 DEF RepliesAreWhole, Answered, EndsReply
  <2> QED BY <2>4, <2>5, <2>9, <2>10 DEF InOrder
<1> QED BY <1>9, <1>10, <1>11

(* The end of a reply: the lines after it are those of the next one.       *)
LEMMA EndAnswers ==
  ASSUME NEW l, NEW t, Remains(l, t), EndsReply(l), l.of = Awaited
  PROVE  Answered(t)
BY DEF Remains, Answered, Follows

(* Within a reply the next line is a line of the body.                     *)
LEMMA StaysInReply ==
  ASSUME TypeOK, InOrder, InSync, Busy, batch.at # "send",
         NEW l, NEW t, Remains(l, t), ~EndsReply(l), l.of = Awaited, toClient' = t,
         batch'.at = "body", batch'.kind = batch.kind,
         batch'.first = batch.first, batch'.sent = batch.sent,
         results' = results, buffered' = buffered,
         toServer' = toServer, server' = server, verdicts' = verdicts
  PROVE  InOrder'
<1>1. Quiet' /\ Windowed'
  BY DEF InOrder, Windowed, Quiet, Busy
<1>2. Served' = Served /\ Awaited' = Awaited
  BY DEF Served, Awaited
<1>3. CommandsInOrder'
  BY <1>2 DEF InOrder, CommandsInOrder, Consecutive
<1>4. (\A k, m : Follows(k, m)' <=> Follows(k, m)) /\ (\A k : EndsReply(k)' <=> EndsReply(k))
  BY DEF Follows, EndsReply
<1>5. RepliesInOrder'
  <2>1. t # <<>> => t[1].of = Awaited' /\ t[1].kind \notin {"ok", "err"} /\ t[1] = Head(t)
    BY <1>2 DEF Remains, Follows
  <2>2. \A i \in 1 .. Len(t) - 1 : Follows(t[i], t[i + 1])'
    <3> SUFFICES ASSUME NEW i \in 1 .. Len(t) - 1 PROVE Follows(t[i], t[i + 1])'
      OBVIOUS
    <3>1. Follows(t[i], t[i + 1])
      BY DEF Remains
    <3> QED BY <1>4, <3>1
  <2>3. \A i \in 1 .. Len(t) : t[i].of < batch'.first + batch'.sent
    BY DEF Remains
  <2> QED BY <2>1, <2>2, <2>3 DEF RepliesInOrder
<1>6. RepliesAreWhole'
  BY <1>2, <1>4 DEF RepliesAreWhole, Remains
<1> QED BY <1>1, <1>3, <1>5, <1>6 DEF InOrder

(* The server answers the command whose turn it is.                        *)
LEMMA ServeInOrder ==
  ASSUME TypeOK, InOrder, InSync, toServer # <<>>, server = "trans",
         NEW r \in Replies(NextCommand) \cup {Refusal(NextCommand)},
         toClient' = toClient \o r, toServer' = Tail(toServer),
         NEW v, verdicts' = Append(verdicts, v),
         UNCHANGED <<batch, results, buffered, server, abandoned>>
  PROVE  InOrder'
<1> DEFINE q == toClient
           m == Len(q)
           k == Len(r)
           c == NextCommand
           o == toServer
           limit == batch.first + batch.sent
<1>1. Busy
  BY DEF InOrder, Quiet
<1>2. o \in Seq(Command) /\ Len(o) \in Nat \ {0} /\ c = o[1] /\ c \in Command
  BY DEF TypeOK, NextCommand
<1>3. /\ Tail(o) \in Seq(Command) /\ Len(Tail(o)) = Len(o) - 1
      /\ \A i \in 1 .. Len(o) - 1 : Tail(o)[i] = o[i + 1]
  BY <1>2
<1>4. /\ Served \in Nat /\ Served' = Served + 1 /\ Awaited \in Nat /\ Awaited' = Awaited
      /\ limit \in Nat
  <2>1. verdicts \in Seq({"ok", "err"}) /\ Len(results) \in Nat /\ batch \in Batches
    BY DEF TypeOK, Batches
  <2>2. Len(Append(verdicts, v)) = Len(verdicts) + 1
    BY <2>1
  <2> QED BY <2>1, <2>2 DEF Served, Awaited, Batches
<1>5. /\ Consecutive(o, Served + 1) /\ Consecutive(buffered, Served + Len(o) + 1)
      /\ Served + Len(o) + Len(buffered) = limit - 1 /\ Len(buffered) \in Nat
  BY DEF InOrder, CommandsInOrder, TypeOK
<1>6. c.id = Served + 1 /\ c.verb = batch.kind /\ Served + 1 < limit
  <2>1. 1 \in 1 .. Len(o)
    BY <1>2
  <2>2. c.id = Served + 1 + 1 - 1 /\ c.verb = batch.kind
    BY <1>2, <1>5, <2>1 DEF Consecutive
  <2> QED BY <1>2, <1>4, <1>5, <2>2
<1>7. /\ r \in Seq(Line) /\ k \in Nat \ {0}
      /\ \A i \in 1 .. k : r[i].of = Served + 1
      /\ \A i \in 1 .. k : r[i].kind = "dot" => i = k
      /\ \A i \in 1 .. k : r[i].kind \in {"ok", "err"} <=> i = 1
      /\ k > 1 => r[1].kind = "ok" /\ r[k].kind = "dot" /\ batch.kind = "RETR"
      /\ k = 1 => r[1].kind = "err" \/ batch.kind = "DELE"
  <2>1. IsMulti(c.verb, c.msg) <=> batch.kind = "RETR"
    BY <1>6 DEF IsMulti, ListOps, TypeOK
  <2>2. batch.kind # "RETR" <=> batch.kind = "DELE"
    BY DEF TypeOK
  <2> QED BY <1>2, <1>6, <2>1, <2>2, ReplyShape
<1>8. q \in Seq(Line) /\ m \in Nat
  BY DEF TypeOK
<1>9. /\ q \o r \in Seq(Line) /\ Len(q \o r) = m + k
      /\ \A i \in 1 .. m : (q \o r)[i] = q[i]
      /\ \A i \in 1 .. k : (q \o r)[m + i] = r[i]
  BY <1>7, <1>8
<1>10. /\ m > 0 => q[1].of = Awaited /\ (q[1].kind \in {"ok", "err"} <=> batch.at # "body")
       /\ \A i \in 1 .. m - 1 : Follows(q[i], q[i + 1])
       /\ \A i \in 1 .. m : q[i].of < limit /\ q[i].of <= Served
       /\ m > 0 => EndsReply(q[m]) /\ q[m].of = Served
       /\ m = 0 => batch.at # "body" /\ Awaited = Served + 1
  BY <1>1, <1>8 DEF InOrder, RepliesInOrder, RepliesAreWhole
<1>z. PICK z : z = q \o r
  OBVIOUS
<1>11. toClient' = z /\ toServer' = Tail(o) /\ batch' = batch /\ buffered' = buffered
  BY <1>z
<1>12. (\A x, y : Follows(x, y)' <=> Follows(x, y)) /\ (\A x : EndsReply(x)' <=> EndsReply(x))
  BY DEF Follows, EndsReply
<1>13. Quiet' /\ Windowed'
  BY <1>1, <1>2, <1>3, <1>5, <1>11, WindowIsPositive DEF InOrder, Quiet, Windowed, Busy
<1> HIDE DEF q, m, k, c, o, limit
<1>14. CommandsInOrder'
  <2>1. ASSUME NEW i \in 1 .. Len(Tail(o))
        PROVE  Tail(o)[i].id = Served + 1 + 1 + i - 1 /\ Tail(o)[i].verb = batch.kind
    <3>1. i \in Nat /\ i + 1 \in 1 .. Len(o) /\ Tail(o)[i] = o[i + 1]
      BY <1>2, <1>3
    <3>2. o[i + 1].id = Served + 1 + (i + 1) - 1 /\ o[i + 1].verb = batch.kind
      BY <1>5, <3>1 DEF Consecutive
    <3> QED BY <1>4, <3>1, <3>2
  <2>2. Served + 1 + Len(Tail(o)) = Served + Len(o)
    BY <1>2, <1>3, <1>4
  <2>3. Consecutive(buffered, Served + 1 + Len(Tail(o)) + 1)
    BY <1>5, <2>2
  <2>4. Consecutive(toServer, Served + 1)'
    BY <1>4, <1>11, <2>1 DEF Consecutive
  <2>5. Consecutive(buffered, Served + Len(toServer) + 1)'
    BY <1>4, <1>11, <2>3 DEF Consecutive
  <2>6. (Served + Len(toServer) + Len(buffered) = batch.first + batch.sent - 1)'
    <3>1. Served + 1 + Len(Tail(o)) + Len(buffered) = limit - 1
      BY <1>5, <2>2
    <3>2. Served' + Len(toServer') + Len(buffered') = limit - 1
      BY <1>4, <1>11, <3>1
    <3>3. limit - 1 = batch'.first + batch'.sent - 1
      BY <1>4, <1>11 DEF limit, TypeOK
    <3> QED BY <3>2, <3>3
  <2>7. server' = "trans"
    OBVIOUS
  <2> QED BY <2>4, <2>5, <2>6, <2>7 DEF CommandsInOrder
<1>15. \A i \in 1 .. m + k - 1 : Follows(z[i], z[i + 1])
  <2> SUFFICES ASSUME NEW i \in 1 .. m + k - 1 PROVE Follows(z[i], z[i + 1])
    OBVIOUS
  <2>1. CASE i < m
    <3>1. i \in 1 .. m - 1 /\ i \in 1 .. m /\ i + 1 \in 1 .. m
      BY <1>7, <1>8, <2>1
    <3> QED BY <1>z, <1>9, <1>10, <3>1
  <2>2. CASE i = m
    <3>1. m \in 1 .. m /\ 1 \in 1 .. k /\ m > 0
      BY <1>7, <1>8, <2>2
    <3>2. z[i] = q[m] /\ z[i + 1] = r[1]
      BY <1>z, <1>9, <2>2, <3>1
    <3> QED BY <1>7, <1>10, <3>1, <3>2 DEF Follows
  <2>3. CASE i > m
    <3> DEFINE j == i - m
    <3>1. j \in 1 .. k /\ j + 1 \in 1 .. k /\ j # k /\ k > 1 /\ i = m + j /\ i + 1 = m + (j + 1)
      BY <1>7, <1>8, <2>3
    <3> HIDE DEF j
    <3>2. z[i] = r[j] /\ z[i + 1] = r[j + 1]
      BY <1>z, <1>9, <3>1
    <3>3. j + 1 # 1 /\ (j = 1 \/ j # 1)
      BY <3>1
    <3>4. r[j].kind # "dot" /\ r[j].kind # "err" /\ batch.kind # "DELE"
      BY <1>7, <3>1
    <3>5. ~EndsReply(r[j])
      BY <3>4 DEF EndsReply
    <3>6. r[j + 1].of = r[j].of /\ r[j + 1].kind \notin {"ok", "err"}
      BY <1>7, <3>1, <3>3
    <3> QED BY <3>2, <3>5, <3>6 DEF Follows
  <2> QED BY <1>8, <2>1, <2>2, <2>3
<1>16. \A i \in 1 .. m + k : z[i].of < limit /\ z[i].of <= Served + 1
  <2> SUFFICES ASSUME NEW i \in 1 .. m + k PROVE z[i].of < limit /\ z[i].of <= Served + 1
    OBVIOUS
  <2>1. CASE i <= m
    <3>1. i \in 1 .. m /\ q[i] \in Line
      BY <1>7, <1>8, <2>1 DEF m
    <3>2. z[i] = q[i] /\ q[i].of < limit /\ q[i].of <= Served /\ q[i].of \in Nat
      BY <1>z, <1>9, <1>10, <3>1 DEF Line
    <3> QED BY <1>4, <3>2
  <2>2. CASE i > m
    <3>1. i - m \in 1 .. k /\ i = m + (i - m)
      BY <1>7, <1>8, <2>2
    <3>2. z[i] = r[i - m]
      BY <1>z, <1>9, <3>1
    <3> QED BY <1>4, <1>6, <1>7, <3>1, <3>2
  <2> QED BY <1>8, <2>1, <2>2
<1>17. z[1].of = Awaited /\ (z[1].kind \in {"ok", "err"} <=> batch.at # "body")
  <2>1. CASE m > 0
    <3>1. 1 \in 1 .. m
      BY <1>8, <2>1
    <3> QED BY <1>z, <1>9, <1>10, <2>1, <3>1
  <2>2. CASE m = 0
    <3>1. 1 \in 1 .. k /\ 1 = m + 1
      BY <1>7, <2>2
    <3>2. z[m + 1] = r[1]
      BY <1>z, <1>9, <3>1
    <3> QED BY <1>7, <1>10, <2>2, <3>1, <3>2
  <2> QED BY <1>8, <2>1, <2>2
<1>18. EndsReply(z[m + k]) /\ z[m + k].of = Served + 1
  <2>1. k \in 1 .. k /\ (k > 1 \/ k = 1)
    BY <1>7
  <2>2. z[m + k] = r[k]
    BY <1>z, <1>9, <2>1
  <2> QED BY <1>7, <2>1, <2>2 DEF EndsReply
<1>19. z # <<>> /\ Len(z) = m + k /\ Head(z) = z[1]
  <2>1. Len(z) = m + k /\ m + k \in Nat \ {0}
    BY <1>z, <1>7, <1>8, <1>9
  <2>2. z # <<>>
    BY <2>1
  <2> QED BY <2>1, <2>2
<1>20. RepliesInOrder'
  <2>1. \A i \in 1 .. Len(z) - 1 : Follows(z[i], z[i + 1])'
    <3> SUFFICES ASSUME NEW i \in 1 .. Len(z) - 1 PROVE Follows(z[i], z[i + 1])'
      OBVIOUS
    <3>1. Follows(z[i], z[i + 1])
      BY <1>7, <1>8, <1>15, <1>19
    <3> QED BY <1>12, <3>1
  <2> QED BY <1>4, <1>11, <1>16, <1>17, <1>19, <2>1 DEF RepliesInOrder, limit
<1>21. RepliesAreWhole'
  BY <1>4, <1>11, <1>12, <1>16, <1>18, <1>19 DEF RepliesAreWhole
<1> QED BY <1>13, <1>14, <1>20, <1>21 DEF InOrder

(* A batch begins on a connection that is quiet.                           *)
LEMMA BeginInOrder ==
  ASSUME TypeOK, InOrder, InSync, NEW kind \in {"RETR", "DELE"}, NEW ids \in IdLists,
         Begin(kind, ids)
  PROVE  InOrder'
<1> DEFINE b == [kind |-> kind, ids |-> ids, at |-> "idle",
                 first |-> batch.first + batch.sent, sent |-> 0,
                 clean |-> InSync, body |-> <<>>]
<1>1. /\ buffered = <<>> /\ toServer' = <<>> /\ toClient' = <<>>
      /\ server' = server /\ verdicts' = verdicts /\ results' = <<>>
  BY DEF Begin, InOrder, Quiet
<1>2. /\ batch.first \in Nat \ {0} /\ batch.sent \in Nat
      /\ batch.first + batch.sent \in Nat \ {0} /\ InSync \in BOOLEAN
      /\ Served \in Nat /\ <<>> \in Seq(Line) /\ <<>> \in Seq(Msgs)
  BY DEF TypeOK, InSync, Served
<1>3. server = "trans" => Served = batch.first + batch.sent - 1
  <2>1. Len(toServer) = 0 /\ Len(buffered) = 0
    BY <1>1 DEF Begin
  <2> QED BY <1>2, <2>1 DEF InOrder, CommandsInOrder
<1>4. CASE Refused(ids) = "Ok" /\ ids # <<>>
  <2>1. WriteChunk(b, 0) /\ Written
    BY <1>4, BeginType DEF Begin
  <2>2. batch'.ids = ids /\ ids \in Seq(Msgs) /\ Len(ids) > 0
    <3>1. batch' = [b EXCEPT !.at = "send", !.sent = ChunkEnd(b, 0), !.body = <<>>]
      BY <2>1 DEF WriteChunk
    <3>2. batch'.ids = ids
      BY <3>1
    <3>3. ids \in Seq(Msgs)
      BY <2>1, <3>2 DEF Written, Batches
    <3> QED BY <1>4, <3>2, <3>3
  <2>3. /\ b \in Batches /\ 0 < Len(b.ids) /\ Len(results') = 0
        /\ server = "trans" => Served = b.first + 0 - 1
    BY <1>1, <1>2, <1>3, <2>2 DEF Batches
  <2> HIDE DEF b
  <2> QED BY <1>1, <2>1, <2>3, WindowInOrder
<1>5. CASE ~(Refused(ids) = "Ok" /\ ids # <<>>)
  <2>1. batch' = [b EXCEPT !.ids = <<>>] /\ buffered' = buffered
    BY <1>5 DEF Begin
  <2>2. /\ batch' \in Batches /\ batch'.at = "idle"
        /\ batch'.first = batch.first + batch.sent /\ batch'.sent = 0
    BY <1>2, <2>1 DEF Batches
  <2>3. server = "trans" => Served = batch'.first + batch'.sent - 1
    BY <1>2, <1>3, <2>2
  <2> QED BY <1>1, <2>1, <2>2, <2>3, IdleInOrder
<1> QED BY <1>4, <1>5

(* A flushed command follows the ones that the server has not read.        *)
LEMMA FlushInOrder ==
  ASSUME TypeOK, InOrder, InSync, Flush
  PROVE  InOrder'
<1> DEFINE o == toServer
           u == buffered
           x == Head(u)
<1>1. /\ batch.at = "send" /\ batch \in Batches /\ u # <<>> /\ Busy
      /\ u \in Seq(Command) /\ o \in Seq(Command)
  BY DEF Flush, TypeOK, Batches, Busy
<1>2. /\ Len(u) \in Nat \ {0} /\ Len(o) \in Nat /\ x = u[1] /\ x \in Command
      /\ Len(Tail(u)) = Len(u) - 1 /\ Tail(u) \in Seq(Command)
      /\ \A i \in 1 .. Len(u) - 1 : Tail(u)[i] = u[i + 1]
  BY <1>1
<1>3. batch' = [batch EXCEPT !.at = IF Len(u) = 1 THEN "status" ELSE "send"]
  BY DEF Flush
<1>4. /\ buffered' = Tail(u) /\ results' = results /\ toClient' = toClient
      /\ server' = server /\ verdicts' = verdicts
  BY DEF Flush
<1>5. /\ batch'.at \in {"status", "send"} /\ (Len(u) # 1 => batch'.at = "send")
      /\ batch'.kind = batch.kind /\ batch'.first = batch.first /\ batch'.sent = batch.sent
  BY <1>1, <1>3 DEF Batches
<1>6. /\ Served' = Served /\ Awaited' = Awaited /\ Served \in Nat
      /\ \A k, m : Follows(k, m)' <=> Follows(k, m)
      /\ \A k : EndsReply(k)' <=> EndsReply(k)
  BY <1>4, <1>5 DEF Served, Awaited, Follows, EndsReply, TypeOK
<1>7. IF server = "gone" THEN toServer' = o ELSE toServer' = Append(o, x)
  BY DEF Flush
<1>8. server = "gone" => o = <<>>
  BY DEF InOrder, CommandsInOrder
<1>9. server = "trans" => /\ Consecutive(o, Served + 1)
                          /\ Consecutive(u, Served + Len(o) + 1)
                          /\ Served + Len(o) + Len(u) = batch.first + batch.sent - 1
  BY DEF InOrder, CommandsInOrder
<1>10. Append(o, x) \in Seq(Command) /\ Len(Append(o, x)) = Len(o) + 1
       /\ \A i \in 1 .. Len(o) : Append(o, x)[i] = o[i]
       /\ Append(o, x)[Len(o) + 1] = x
  BY <1>1, <1>2, AppendProperties
<1>11. Len(o) + Len(u) <= Window /\ Window \in Nat
  BY <1>1, WindowIsPositive DEF InOrder, Windowed
<1>12. server \in {"trans", "gone"} /\ batch.first \in Nat /\ batch.sent \in Nat
  BY DEF TypeOK
<1> HIDE DEF o, u, x
<1>13. Len(toServer') \in Nat /\ Len(toServer') <= Len(o) + 1
  BY <1>2, <1>7, <1>10, <1>12
<1>14. Quiet' /\ Windowed'
  <2>1. Busy'
    BY <1>5 DEF Busy
  <2>2. buffered' # <<>> => batch'.at = "send"
    BY <1>2, <1>4, <1>5
  <2>3. Len(toServer') + Len(buffered') <= Window
    BY <1>2, <1>4, <1>11, <1>13
  <2> QED BY <2>1, <2>2, <2>3 DEF Quiet, Windowed
<1>15. CommandsInOrder'
  <2>1. CASE server = "trans"
    <3> PICK p : p = Append(o, x)
      OBVIOUS
    <3>1. toServer' = p /\ Len(p) = Len(o) + 1
      BY <1>7, <1>10, <2>1
    <3>2. ASSUME NEW i \in 1 .. Len(p)
          PROVE  p[i].id = Served + 1 + i - 1 /\ p[i].verb = batch.kind
      <4>1. CASE i \in 1 .. Len(o)
        BY <1>9, <1>10, <2>1, <4>1 DEF Consecutive
      <4>2. CASE i = Len(o) + 1
        <5>1. 1 \in 1 .. Len(u)
          BY <1>2
        <5>2. u[1].id = Served + Len(o) + 1 + 1 - 1 /\ u[1].verb = batch.kind
          BY <1>9, <2>1, <5>1 DEF Consecutive
        <5>3. Served + Len(o) + 1 + 1 - 1 = Served + 1 + i - 1
          BY <1>2, <1>6, <4>2
        <5> QED BY <1>2, <1>10, <4>2, <5>2, <5>3
      <4> QED BY <1>2, <3>1, <4>1, <4>2
    <3>3. ASSUME NEW i \in 1 .. Len(Tail(u))
          PROVE  /\ Tail(u)[i].id = Served + (Len(o) + 1) + 1 + i - 1
                 /\ Tail(u)[i].verb = batch.kind
      <4>1. i \in Nat /\ i + 1 \in 1 .. Len(u) /\ Tail(u)[i] = u[i + 1]
        BY <1>2
      <4>2. u[i + 1].id = Served + Len(o) + 1 + (i + 1) - 1 /\ u[i + 1].verb = batch.kind
        BY <1>9, <2>1, <4>1 DEF Consecutive
      <4>3. Served + Len(o) + 1 + (i + 1) - 1 = Served + (Len(o) + 1) + 1 + i - 1
        BY <1>2, <1>6, <4>1
      <4> QED BY <4>1, <4>2, <4>3
    <3>4. Served + (Len(o) + 1) + Len(Tail(u)) = batch.first + batch.sent - 1
      BY <1>2, <1>6, <1>9, <1>12, <2>1
    <3>5. Consecutive(toServer, Served + 1)'
      BY <1>5, <1>6, <3>1, <3>2 DEF Consecutive
    <3>6. Consecutive(buffered, Served + Len(toServer) + 1)'
      BY <1>4, <1>5, <1>6, <3>1, <3>3 DEF Consecutive
    <3>7. Served' + Len(toServer') + Len(buffered') = batch'.first + batch'.sent - 1
      BY <1>4, <1>5, <1>6, <3>1, <3>4
    <3> QED BY <1>4, <2>1, <3>5, <3>6, <3>7 DEF CommandsInOrder
  <2>2. CASE server = "gone"
    BY <1>4, <1>7, <1>8, <2>2 DEF CommandsInOrder
  <2> QED BY <1>12, <2>1, <2>2
<1>16. RepliesInOrder'
  <2>1. /\ toClient # <<>> => /\ Head(toClient).of = Awaited
                              /\ Head(toClient).kind \in {"ok", "err"} <=> batch'.at # "body"
        /\ \A i \in 1 .. Len(toClient) : toClient[i].of < batch'.first + batch'.sent
    BY <1>1, <1>5 DEF InOrder, RepliesInOrder
  <2>2. \A i \in 1 .. Len(toClient) - 1 : Follows(toClient[i], toClient[i + 1])
    BY DEF InOrder, RepliesInOrder
  <2>3. (\A i \in 1 .. Len(toClient) - 1 : Follows(toClient[i], toClient[i + 1]))'
    BY <1>4, <1>5, <2>2 DEF Follows, EndsReply
  <2> QED BY <1>4, <1>6, <2>1, <2>3 DEF RepliesInOrder
<1>17. RepliesAreWhole'
  <2>1. RepliesAreWhole
    BY DEF InOrder
  <2> QED BY <1>1, <1>4, <1>5, <1>6, <2>1 DEF RepliesAreWhole, Busy
<1> QED BY <1>14, <1>15, <1>16, <1>17 DEF InOrder

(* A lost connection keeps the first lines of what was on it.              *)
LEMMA LoseInOrder ==
  ASSUME TypeOK, InOrder, InSync, Lose
  PROVE  InOrder'
<1> DEFINE q == toClient
<1>1. q \in Seq(Line) /\ Len(q) \in Nat
  BY DEF TypeOK
<1>2. PICK n \in 0 .. Len(q) : toClient' = SubSeq(q, 1, n)
  BY DEF Lose
<1>3. /\ toServer' = <<>> /\ server' = "gone" /\ batch' = batch
      /\ results' = results /\ buffered' = buffered
  BY DEF Lose
<1>4. /\ Len(toClient') = n /\ n \in Nat /\ n <= Len(q)
      /\ \A i \in 1 .. n : toClient'[i] = q[i]
  BY <1>1, <1>2
<1>5. Awaited' = Awaited /\ Len(toServer') = 0 /\ (Busy' <=> Busy)
  BY <1>3 DEF Awaited, Busy
<1>6. Quiet'
  BY <1>1, <1>2, <1>3, <1>5 DEF InOrder, Quiet
<1>7. Windowed'
  <2>1. Len(toServer) \in Nat /\ Len(buffered) \in Nat /\ Window \in Nat
    BY WindowIsPositive DEF TypeOK
  <2> QED BY <1>3, <1>5, <2>1 DEF InOrder, Windowed
<1>8. CommandsInOrder' /\ RepliesAreWhole'
  BY <1>3 DEF CommandsInOrder, RepliesAreWhole
<1>9. RepliesInOrder'
  <2>1. toClient' # <<>> => n > 0 /\ q # <<>> /\ Head(toClient') = Head(q)
    BY <1>1, <1>2
  <2>2. /\ q # <<>> => /\ Head(q).of = Awaited
                       /\ Head(q).kind \in {"ok", "err"} <=> batch.at # "body"
        /\ \A i \in 1 .. Len(q) - 1 : Follows(q[i], q[i + 1])
        /\ \A i \in 1 .. Len(q) : q[i].of < batch.first + batch.sent
    BY DEF InOrder, RepliesInOrder
  <2>3. \A k, m : Follows(k, m)' <=> Follows(k, m)
    BY <1>3 DEF Follows, EndsReply
  <2>4. ASSUME NEW i \in 1 .. n - 1
        PROVE  toClient'[i] = q[i] /\ toClient'[i + 1] = q[i + 1] /\ Follows(q[i], q[i + 1])
    BY <1>1, <1>4, <2>2
  <2>5. (\A i \in 1 .. Len(toClient) - 1 : Follows(toClient[i], toClient[i + 1]))'
    BY <1>3, <1>4, <2>4 DEF Follows, EndsReply
  <2>6. (\A i \in 1 .. Len(toClient) : toClient[i].of < batch.first + batch.sent)'
    BY <1>1, <1>3, <1>4, <2>2
  <2> QED BY <1>3, <1>5, <2>1, <2>2, <2>5, <2>6 DEF RepliesInOrder
<1> QED BY <1>6, <1>7, <1>8, <1>9 DEF InOrder

(* No step of a call in progress, of the server or of the network takes    *)
(* the connection out of order, unless the call is given up.               *)
LEMMA StepInOrder ==
  ASSUME TypeOK, InOrder, [Next]_vars
  PROVE  InOrder'
<1>1. ASSUME abandoned' = TRUE PROVE InOrder'
  BY <1>1 DEF InOrder, InSync
<1>2. abandoned => abandoned'
  BY DEF Next, Begin, Cancel, Flush, FlushFails, Read, ReadStatus, ReadBodyLine,
         ReadTerminator, ReadUndecodable, ReadEof, TimeOut, Accept, Reject, Serve,
         Lose, Done, vars
<1>3. abandoned \in BOOLEAN
  BY DEF TypeOK
<1> SUFFICES ASSUME InSync PROVE InOrder'
  BY <1>1, <1>2, <1>3 DEF InSync
<1>4. ASSUME NEW kind \in {"RETR", "DELE"}, NEW ids \in IdLists, Begin(kind, ids)
      PROVE  InOrder'
  BY <1>4, BeginInOrder
<1>5. CASE Cancel
  BY <1>1, <1>5 DEF Cancel
<1>6. CASE Flush
  BY <1>6, FlushInOrder
<1>7. CASE FlushFails
  BY <1>1, <1>7 DEF FlushFails
<1> DEFINE l == Head(toClient)
           t == Tail(toClient)
<1>8. ASSUME NEW at, at \in {"status", "body"}, Reads(at)
      PROVE  /\ Busy /\ batch.at = at /\ toClient # <<>> /\ toClient' = t
             /\ Remains(l, t) /\ l \in Line /\ l.of = Awaited
             /\ l.kind \in {"ok", "err"} <=> batch.at # "body"
  <2>1. Busy /\ batch.at = at /\ toClient # <<>> /\ toClient' = t
    BY <1>8 DEF Reads, Busy
  <2> QED BY <2>1, TailRemains
<1> HIDE DEF l, t
<1>9. CASE ReadStatus
  <2>1. /\ Busy /\ batch.at = "status" /\ toClient' = t /\ Remains(l, t) /\ l.of = Awaited
        /\ l.kind \in {"ok", "err"}
    BY <1>8, <1>9 DEF ReadStatus
  <2>2. /\ toServer' = toServer /\ server' = server /\ verdicts' = verdicts
        /\ abandoned' = abandoned
    BY <1>9 DEF ReadStatus, UnchangedByReads
  <2>3. CASE /\ l.kind = "ok" /\ batch.kind = "RETR"
             /\ batch' = [batch EXCEPT !.at = "body"]
             /\ results' = results /\ buffered' = buffered
    <3>1. /\ batch'.at = "body" /\ batch'.kind = batch.kind
          /\ batch'.first = batch.first /\ batch'.sent = batch.sent
      BY <2>3 DEF TypeOK
    <3>2. ~EndsReply(l)
      BY <2>3 DEF EndsReply
    <3> QED BY <2>1, <2>2, <2>3, <3>1, <3>2, StaysInReply
  <2>4. ASSUME NEW v \in {"Ok", "ServerError"}, EndsReply(l),
               Advance(Append(results, Result(v, <<>>)))
        PROVE  InOrder'
    <3>1. Result(v, <<>>) \in Results
      <4>1. <<>> \in Seq(Line)
        OBVIOUS
      <4> QED BY <4>1 DEF Result, Results
    <3>2. Answered(t)
      BY <2>1, <2>4, EndAnswers
    <3> QED BY <2>1, <2>2, <2>4, <3>1, <3>2, AdvanceInOrder
  <2>5. \/ /\ l.kind = "ok" /\ batch.kind = "RETR"
           /\ batch' = [batch EXCEPT !.at = "body"]
           /\ results' = results /\ buffered' = buffered
        \/ /\ l.kind = "ok" /\ batch.kind = "DELE"
           /\ Advance(Append(results, Result("Ok", <<>>)))
        \/ l.kind = "err" /\ Advance(Append(results, Result("ServerError", <<>>)))
    BY <1>9, <2>1 DEF ReadStatus, NextLine, l
  <2> QED BY <2>3, <2>4, <2>5 DEF EndsReply
<1>10. CASE ReadBodyLine
  <2>1. /\ Busy /\ batch.at = "body" /\ toClient' = t /\ Remains(l, t) /\ l.of = Awaited
        /\ l.kind = "text"
    BY <1>8, <1>10 DEF ReadBodyLine, NextLine, l
  <2>2. /\ toServer' = toServer /\ server' = server /\ verdicts' = verdicts
        /\ abandoned' = abandoned /\ results' = results /\ buffered' = buffered
        /\ batch' = [batch EXCEPT !.body = Append(@, NextLine)]
    BY <1>10 DEF ReadBodyLine, UnchangedByReads
  <2>3. /\ batch'.at = "body" /\ batch'.kind = batch.kind
        /\ batch'.first = batch.first /\ batch'.sent = batch.sent
    BY <2>1, <2>2 DEF TypeOK
  <2>4. ~EndsReply(l)
    BY <2>1 DEF EndsReply
  <2> QED BY <2>1, <2>2, <2>3, <2>4, StaysInReply
<1>11. CASE ReadTerminator
  <2>1. /\ Busy /\ batch.at = "body" /\ toClient' = t /\ Remains(l, t) /\ l.of = Awaited
        /\ l.kind = "dot"
    BY <1>8, <1>11 DEF ReadTerminator, NextLine, l
  <2>2. /\ toServer' = toServer /\ server' = server /\ verdicts' = verdicts
        /\ abandoned' = abandoned /\ Advance(Append(results, Result("Ok", batch.body)))
    BY <1>11 DEF ReadTerminator, UnchangedByReads
  <2>3. Result("Ok", batch.body) \in Results
    BY DEF Result, Results, TypeOK
  <2>4. Answered(t)
    BY <2>1, EndAnswers DEF EndsReply
  <2> QED BY <2>1, <2>2, <2>3, <2>4, AdvanceInOrder
<1>12. CASE ReadUndecodable
  BY <1>1, <1>12 DEF ReadUndecodable
<1>13. CASE ReadEof
  <2>1. /\ Busy /\ batch.at # "send" /\ server = "gone" /\ toClient' = <<>>
        /\ toServer' = toServer /\ server' = server /\ verdicts' = verdicts
        /\ abandoned' = abandoned /\ isPipelining \in BOOLEAN
    BY <1>13 DEF ReadEof, Reading, Busy, TypeOK
  <2>2. PICK v \in Failures : Fail(v, "ConnectionClosed")
    BY <1>13 DEF ReadEof, Failures
  <2>3. toServer = <<>> /\ buffered = <<>>
    BY <2>1 DEF InOrder, CommandsInOrder, Windowed
  <2>4. CASE isPipelining
    <3>1. /\ batch' = [batch EXCEPT !.at = "idle", !.body = <<>>] /\ buffered' = buffered
      BY <2>2, <2>4 DEF Fail, Finish
    <3>2. batch' \in Batches /\ batch'.at = "idle"
      <4>1. <<>> \in Seq(Line)
        OBVIOUS
      <4> QED BY <3>1, <4>1 DEF TypeOK, Batches
    <3> QED BY <2>1, <2>3, <3>1, <3>2, IdleInOrder
  <2>5. CASE ~isPipelining
    <3>1. Advance(Append(results, Result(v, <<>>)))
      BY <2>2, <2>5 DEF Fail
    <3>2. <<>> \in Seq(Line) /\ Len(<<>>) = 0
      OBVIOUS
    <3>3. Result(v, <<>>) \in Results
      BY <3>2 DEF Result, Results
    <3>4. Answered(<<>>)
      BY <2>1, <3>2 DEF Answered
    <3> QED BY <2>1, <3>1, <3>3, <3>4, AdvanceInOrder
  <2> QED BY <2>1, <2>4, <2>5
<1>14. CASE TimeOut
  BY <1>1, <1>14 DEF TimeOut
<1>15. CASE Accept
  <2>1. PICK r \in Replies(NextCommand) : toClient' = toClient \o r
    BY <1>15 DEF Accept, Serve
  <2>2. /\ toServer # <<>> /\ server = "trans" /\ toServer' = Tail(toServer)
        /\ verdicts' = Append(verdicts, "ok")
        /\ UNCHANGED <<batch, results, buffered, server, abandoned>>
    BY <1>15 DEF Accept, Serve
  <2> QED BY <2>1, <2>2, ServeInOrder
<1>16. CASE Reject
  <2>1. toClient' = toClient \o Refusal(NextCommand)
    BY <1>16 DEF Reject, Serve
  <2>2. /\ toServer # <<>> /\ server = "trans" /\ toServer' = Tail(toServer)
        /\ verdicts' = Append(verdicts, "err")
        /\ UNCHANGED <<batch, results, buffered, server, abandoned>>
    BY <1>16 DEF Reject, Serve
  <2> QED BY <2>1, <2>2, ServeInOrder
<1>17. CASE Lose
  BY <1>17, LoseInOrder
<1>18. CASE UNCHANGED vars
  <2>1. /\ batch' = batch /\ results' = results /\ buffered' = buffered
        /\ toServer' = toServer /\ toClient' = toClient /\ server' = server
        /\ verdicts' = verdicts /\ abandoned' = abandoned
    BY <1>18 DEF vars
  <2> QED BY <2>1 DEF InOrder, InSync, Quiet, Busy, Windowed, CommandsInOrder, Consecutive,
                      Served, RepliesInOrder, Follows, EndsReply, Awaited, RepliesAreWhole
<1> QED BY <1>4, <1>5, <1>6, <1>7, <1>9, <1>10, <1>11, <1>12, <1>13, <1>14, <1>15,
           <1>16, <1>17, <1>18 DEF Next, Read, Done

(* While no call has given up a reply, what the connection holds is the    *)
(* unanswered part of the batch, whole and in the order of the ids.        *)
THEOREM RepliesComeInOrder == Spec => []InOrder
<1>1. Init => InOrder
  <2> SUFFICES ASSUME Init PROVE InOrder
    OBVIOUS
  <2>1. /\ batch.at = "idle" /\ batch.first = 1 /\ batch.sent = 0
        /\ buffered = <<>> /\ toServer = <<>> /\ toClient = <<>> /\ verdicts = <<>>
    BY DEF Init, NoBatch
  <2>2. Len(buffered) = 0 /\ Len(toServer) = 0 /\ Served = 0
    BY <2>1 DEF Served
  <2>3. Quiet /\ Windowed /\ RepliesInOrder /\ RepliesAreWhole
    BY <2>1 DEF Quiet, Windowed, RepliesInOrder, RepliesAreWhole, Busy
  <2>4. CommandsInOrder
    BY <2>1, <2>2 DEF CommandsInOrder, Consecutive
  <2> QED BY <2>3, <2>4 DEF InOrder
<1>2. TypeOK /\ InOrder /\ [Next]_vars => InOrder'
  BY StepInOrder
<1> QED BY <1>1, <1>2, BatchesTypeCorrect, PTL DEF Spec

(* A flush never waits for the server to read: its window fits.            *)
THEOREM WindowsFit == Spec => []FlushHasRoom
<1>1. TypeOK /\ InOrder => FlushHasRoom
  <2> SUFFICES ASSUME TypeOK, InOrder, InSync, batch.at = "send"
               PROVE  Len(toServer) < SendRoom /\ Len(buffered) <= Window
    BY DEF FlushHasRoom
  <2>1. Len(toServer) + Len(buffered) <= Window
    BY DEF InOrder, Windowed, Busy
  <2>2. Len(toServer) \in Nat /\ Len(buffered) \in Nat \ {0}
    BY DEF TypeOK
  <2> QED BY <2>1, <2>2, RoomForAWindow, WindowIsPositive
<1> QED BY <1>1, RepliesComeInOrder, BatchesTypeCorrect, PTL

-----------------------------------------------------------------------------
(***************************************************************************)
(* What the results are worth.                                             *)
(***************************************************************************)

(* While a call runs nothing has been returned; what it has returned is a  *)
(* result for each id.  A pipelined batch gives up as a whole, so that one *)
(* that began in step and still runs is in step.                           *)
Bounded ==
  /\ Busy => ret = "none"
  /\ batch.clean /\ isPipelining /\ Busy => InSync
  /\ batch.at # "body" => batch.body = <<>>
  /\ ret = "Ok" => Len(results) = Len(batch.ids)
  /\ batch.sent <= Len(batch.ids)

LEMMA WriteChunkBounded ==
  ASSUME TypeOK, NEW b \in Batches, NEW n \in Nat, n < Len(b.ids), WriteChunk(b, n)
  PROVE  /\ ret' = "none" /\ batch'.body = <<>> /\ batch'.at = "send"
         /\ batch'.sent <= Len(batch'.ids) /\ batch'.sent \in Nat /\ n < batch'.sent
         /\ batch'.ids = b.ids /\ batch'.first = b.first
         /\ batch'.clean = b.clean /\ batch'.kind = b.kind
<1> DEFINE e == ChunkEnd(b, n)
<1>1. e \in n + 1 .. Len(b.ids) /\ Len(b.ids) \in Nat
  BY ChunkShape DEF Batches
<1>2. batch' = [b EXCEPT !.at = "send", !.sent = e, !.body = <<>>] /\ ret' = "none"
  BY DEF WriteChunk
<1> HIDE DEF e
<1>3. /\ batch'.sent = e /\ batch'.ids = b.ids /\ batch'.first = b.first
      /\ batch'.clean = b.clean /\ batch'.kind = b.kind
      /\ batch'.body = <<>> /\ batch'.at = "send"
  BY <1>2 DEF Batches
<1> QED BY <1>1, <1>2, <1>3

(* What a result that is added changes of the batch.                       *)
Continued ==
  /\ batch'.ids = batch.ids /\ batch'.first = batch.first /\ batch'.clean = batch.clean
  /\ batch'.kind = batch.kind /\ batch.sent <= batch'.sent
  /\ batch'.sent <= Len(batch'.ids)
  /\ batch'.at # "body" => batch'.body = <<>>
  /\ batch'.at = "idle" => ret' \in {"Ok", "Cancelled"}
  /\ batch'.at # "idle" => ret' = "none"
  /\ ret' = "Ok" => Len(results') = Len(batch'.ids)

LEMMA AdvanceBounded ==
  ASSUME TypeOK, Bounded, Busy, NEW r \in Results, Advance(Append(results, r))
  PROVE  Continued /\ batch'.at \in {"idle", "send", "status"} /\ results' = Append(results, r)
<1> DEFINE rs == Append(results, r)
<1>1. rs \in Seq(Results) /\ Len(rs) = Len(results) + 1 /\ Len(results) \in Nat
  BY AppendProperties DEF TypeOK
<1>2. /\ Len(batch.ids) \in Nat /\ batch \in Batches /\ batch.sent \in Nat
      /\ Len(results) < batch.sent /\ batch.sent <= Len(batch.ids) /\ ret = "none"
  BY DEF TypeOK, Batches, Bounded
<1>3. results' = rs
  BY DEF Advance
<1> HIDE DEF rs
<1>4. CASE Len(rs) = Len(batch.ids)
  <2>1. batch' = [batch EXCEPT !.at = "idle", !.body = <<>>] /\ ret' = "Ok"
    BY <1>4 DEF Advance, Finish, rs
  <2>2. /\ batch'.ids = batch.ids /\ batch'.first = batch.first /\ batch'.clean = batch.clean
        /\ batch'.kind = batch.kind /\ batch'.sent = batch.sent /\ batch'.at = "idle"
        /\ batch'.body = <<>>
    BY <1>2, <2>1 DEF Batches
  <2> QED BY <1>2, <1>3, <1>4, <2>1, <2>2 DEF Continued, rs
<1>5. CASE Len(rs) # Len(batch.ids) /\ Len(rs) = batch.sent
  <2>1. Len(rs) < Len(batch.ids) /\ Len(rs) \in Nat
    BY <1>1, <1>2, <1>5
  <2>2. WriteChunk(batch, Len(rs))
    BY <1>5 DEF Advance, rs
  <2>3. /\ ret' = "none" /\ batch'.body = <<>> /\ batch'.at = "send"
        /\ batch'.sent <= Len(batch'.ids) /\ batch'.sent \in Nat /\ Len(rs) < batch'.sent
        /\ batch'.ids = batch.ids /\ batch'.first = batch.first
        /\ batch'.clean = batch.clean /\ batch'.kind = batch.kind
    BY <1>2, <2>1, <2>2, WriteChunkBounded
  <2>4. batch.sent <= batch'.sent
    BY <1>2, <1>5, <2>3
  <2> QED BY <1>3, <2>3, <2>4 DEF Continued, rs
<1>6. CASE Len(rs) # Len(batch.ids) /\ Len(rs) # batch.sent
  <2>1. batch' = [batch EXCEPT !.at = "status", !.body = <<>>] /\ ret' = ret
    BY <1>6 DEF Advance, rs
  <2>2. /\ batch'.ids = batch.ids /\ batch'.first = batch.first /\ batch'.clean = batch.clean
        /\ batch'.kind = batch.kind /\ batch'.sent = batch.sent /\ batch'.at = "status"
        /\ batch'.body = <<>>
    BY <1>2, <2>1 DEF Batches
  <2> QED BY <1>2, <1>3, <2>1, <2>2 DEF Continued, rs
<1> QED BY <1>4, <1>5, <1>6

(* A failure of the connection is one failed result, or, of a pipelined    *)
(* batch, as many as results are missing.                                  *)
Filled(filler) ==
  [i \in 1 .. Len(batch.ids) |->
     IF i <= Len(results) THEN results[i] ELSE Result(filler, <<>>)]

LEMMA FailBounded ==
  ASSUME TypeOK, Bounded, Busy, NEW val \in Failures, NEW filler \in Failures, Fail(val, filler)
  PROVE  /\ Continued /\ batch'.at \in {"idle", "send", "status"}
         /\ isPipelining => batch'.at = "idle" /\ results' = Filled(filler)
         /\ ~isPipelining => results' = Append(results, Result(val, <<>>))
<1>1. CASE isPipelining
  <2>1. /\ results' = Filled(filler) /\ ret' = "Ok"
        /\ batch' = [batch EXCEPT !.at = "idle", !.body = <<>>]
    BY <1>1 DEF Fail, Finish, Filled
  <2>2. batch \in Batches /\ Len(batch.ids) \in Nat /\ batch.sent \in Nat
    BY DEF TypeOK, Batches
  <2>3. /\ batch'.ids = batch.ids /\ batch'.first = batch.first /\ batch'.clean = batch.clean
        /\ batch'.kind = batch.kind /\ batch'.sent = batch.sent /\ batch'.at = "idle"
        /\ batch'.body = <<>>
    BY <2>1, <2>2 DEF Batches
  <2>4. Len(results') = Len(batch.ids)
    <3> DEFINE f(i) == IF i <= Len(results) THEN results[i] ELSE Result(filler, <<>>)
    <3>1. results' = [i \in 1 .. Len(batch.ids) |-> f(i)]
      BY <2>1 DEF Filled
    <3> HIDE DEF f
    <3> QED BY <2>2, <3>1
  <2> QED BY <1>1, <2>1, <2>2, <2>3, <2>4 DEF Continued, Bounded
<1>2. CASE ~isPipelining
  <2>1. Result(val, <<>>) \in Results
    <3>1. <<>> \in Seq(Line)
      OBVIOUS
    <3> QED BY <3>1 DEF Result, Results
  <2>2. Advance(Append(results, Result(val, <<>>)))
    BY <1>2 DEF Fail
  <2> QED BY <1>2, <2>1, <2>2, AdvanceBounded
<1> QED BY <1>1, <1>2

LEMMA ContinuedIsBounded ==
  ASSUME Bounded, Continued, Busy, isPipelining' = isPipelining,
         batch'.at = "idle" \/ InSync' = InSync \/ ~isPipelining
  PROVE  Bounded'
BY DEF Bounded, Continued, Busy

LEMMA BeginBounded ==
  ASSUME TypeOK, NEW kind \in {"RETR", "DELE"}, NEW ids \in IdLists, Begin(kind, ids)
  PROVE  /\ Bounded' /\ batch'.first = batch.first + batch.sent /\ batch'.clean = InSync
         /\ batch'.sent \in Nat
         /\ \/ batch'.at = "idle" /\ buffered' = buffered /\ batch'.ids = <<>>
            \/ \E b \in Batches : /\ WriteChunk(b, 0) /\ Len(b.ids) > 0
                                  /\ batch'.ids = b.ids /\ batch'.first = b.first
<1> DEFINE b == [kind |-> kind, ids |-> ids, at |-> "idle",
                 first |-> batch.first + batch.sent, sent |-> 0,
                 clean |-> InSync, body |-> <<>>]
<1>1. /\ batch.first + batch.sent \in Nat \ {0} /\ InSync \in BOOLEAN
      /\ results' = <<>> /\ Len(results') = 0 /\ InSync' = InSync
      /\ <<>> \in Seq(Line) /\ <<>> \in Seq(Msgs)
  BY DEF TypeOK, InSync, Begin
<1>2. CASE Refused(ids) = "Ok" /\ ids # <<>>
  <2>1. WriteChunk(b, 0) /\ Written
    BY <1>2, BeginType DEF Begin
  <2>2. ids \in Seq(Msgs) /\ Len(ids) > 0
    <3>1. batch' = [b EXCEPT !.at = "send", !.sent = ChunkEnd(b, 0), !.body = <<>>]
      BY <2>1 DEF WriteChunk
    <3>2. batch'.ids = ids
      BY <3>1
    <3>3. ids \in Seq(Msgs)
      BY <2>1, <3>2 DEF Written, Batches
    <3> QED BY <1>2, <3>3
  <2>3. /\ b \in Batches /\ b.ids = ids /\ b.clean = InSync
        /\ b.first = batch.first + batch.sent
    BY <1>1, <2>2 DEF Batches
  <2> HIDE DEF b
  <2>4. /\ ret' = "none" /\ batch'.body = <<>> /\ batch'.at = "send"
        /\ batch'.sent <= Len(batch'.ids) /\ batch'.sent \in Nat
        /\ batch'.ids = b.ids /\ batch'.first = b.first /\ batch'.clean = b.clean
    BY <2>1, <2>2, <2>3, WriteChunkBounded
  <2> QED BY <1>1, <2>1, <2>2, <2>3, <2>4 DEF Bounded, Busy
<1>3. CASE ~(Refused(ids) = "Ok" /\ ids # <<>>)
  <2>1. batch' = [b EXCEPT !.ids = <<>>] /\ buffered' = buffered
    BY <1>3 DEF Begin
  <2>2. /\ batch'.ids = <<>> /\ batch'.sent = 0 /\ batch'.at = "idle" /\ batch'.body = <<>>
        /\ batch'.first = batch.first + batch.sent /\ batch'.clean = InSync
    BY <2>1
  <2> QED BY <1>1, <2>1, <2>2 DEF Bounded, Busy
<1> QED BY <1>2, <1>3

(* The steps of a call in progress that add results: those that know how   *)
(* their call went on, and those that give it up.                          *)
Adding(r)    == Busy /\ Advance(Append(results, r))
Failing(v, f) == Busy /\ Fail(v, f)
Stays == UNCHANGED <<state, isPipelining, toServer, server, marks, verdicts, calls>>

LEMMA ReadsAdd ==
  ASSUME TypeOK
  PROVE  /\ ReadStatus => \/ /\ batch.at = "status" /\ NextLine.kind = "ok"
                             /\ batch.kind = "RETR"
                             /\ batch' = [batch EXCEPT !.at = "body"]
                             /\ UNCHANGED <<results, ret, buffered>>
                          \/ \E v \in {"Ok", "ServerError", "Parse"} :
                               /\ Adding(Result(v, <<>>)) /\ Result(v, <<>>) \in Results
                               /\ v = "Ok" => NextLine.kind = "ok" /\ batch.kind = "DELE"
                               /\ v = "ServerError" => NextLine.kind = "err"
                               /\ v = "Parse" => NextLine.kind \notin {"ok", "err"}
         /\ ReadTerminator => /\ Adding(Result("Ok", batch.body))
                              /\ Result("Ok", batch.body) \in Results
         /\ FlushFails => Failing("Io", "Io") /\ Stays
         /\ ReadUndecodable => Failing("Io", "ConnectionClosed") /\ Stays
         /\ TimeOut => Failing("Timeout", "ConnectionClosed") /\ Stays
         /\ ReadEof => /\ \E v \in Failures : Failing(v, "ConnectionClosed")
                       /\ Stays /\ server = "gone" /\ toClient = <<>>
                       /\ batch.at # "send" /\ UNCHANGED <<abandoned, toClient>>
         /\ ReadStatus \/ ReadTerminator \/ ReadBodyLine =>
              Stays /\ Busy /\ abandoned' = abandoned
<1>1. \A v \in {"Ok", "ServerError", "Parse"} : Result(v, <<>>) \in Results
  <2>1. <<>> \in Seq(Line)
    OBVIOUS
  <2> QED BY <2>1 DEF Result, Results
<1>2. Result("Ok", batch.body) \in Results
  BY DEF Result, Results, TypeOK
<1>3. ReadStatus \/ ReadTerminator \/ ReadBodyLine => Stays /\ Busy /\ abandoned' = abandoned
  BY DEF ReadStatus, ReadTerminator, ReadBodyLine, Reads, Stays, UnchangedByReads, clientVars, Busy
<1>4. ReadStatus => \/ /\ batch.at = "status" /\ NextLine.kind = "ok"
                       /\ batch.kind = "RETR"
                       /\ batch' = [batch EXCEPT !.at = "body"]
                       /\ UNCHANGED <<results, ret, buffered>>
                    \/ \E v \in {"Ok", "ServerError", "Parse"} :
                         /\ Adding(Result(v, <<>>))
                         /\ v = "Ok" => NextLine.kind = "ok" /\ batch.kind = "DELE"
                         /\ v = "ServerError" => NextLine.kind = "err"
                         /\ v = "Parse" => NextLine.kind \notin {"ok", "err"}
  BY DEF ReadStatus, Reads, Busy, Adding
<1>5. ReadTerminator => Adding(Result("Ok", batch.body))
  BY DEF ReadTerminator, Reads, Busy, Adding
<1>6. /\ FlushFails => Failing("Io", "Io") /\ Stays
      /\ ReadUndecodable => Failing("Io", "ConnectionClosed") /\ Stays
      /\ TimeOut => Failing("Timeout", "ConnectionClosed") /\ Stays
      /\ ReadEof => /\ \E v \in Failures : Failing(v, "ConnectionClosed")
                    /\ Stays /\ server = "gone" /\ toClient = <<>>
                    /\ batch.at # "send" /\ UNCHANGED <<abandoned, toClient>>
  BY DEF FlushFails, ReadUndecodable, TimeOut, ReadEof, UnchangedByReads, Reading,
         Stays, Failing, Failures, Busy, clientVars
<1> QED BY <1>1, <1>2, <1>3, <1>4, <1>5, <1>6

(* Every step of a call but its beginning keeps the batch and goes on.     *)
LEMMA StepContinues ==
  ASSUME TypeOK, Bounded, Cancel \/ Flush \/ FlushFails \/ Read
  PROVE  /\ Continued /\ Busy /\ UNCHANGED <<state, isPipelining, server, marks, verdicts>>
         /\ batch'.at = "idle" \/ InSync' = InSync \/ ~isPipelining
         /\ ~Flush => toServer' = toServer
<1>1. /\ batch \in Batches /\ <<>> \in Seq(Line) /\ batch.sent \in Nat /\ Len(batch.ids) \in Nat
      /\ Len(<<>>) = 0
  BY DEF TypeOK, Batches
<1>2. ASSUME NEW v \in Failures, NEW f \in Failures, Failing(v, f)
      PROVE  Continued /\ Busy /\ (isPipelining => batch'.at = "idle")
  BY <1>2, FailBounded DEF Failing
<1>3. "Io" \in Failures /\ "Timeout" \in Failures /\ "ConnectionClosed" \in Failures
  BY DEF Failures
<1>4. CASE Cancel
  <2>1. /\ batch' = [batch EXCEPT !.at = "idle", !.body = <<>>] /\ ret' = "Cancelled" /\ Busy
    BY <1>4 DEF Cancel, Finish
  <2>2. /\ batch'.ids = batch.ids /\ batch'.first = batch.first /\ batch'.clean = batch.clean
        /\ batch'.kind = batch.kind /\ batch'.sent = batch.sent /\ batch'.at = "idle"
        /\ batch'.body = <<>>
    BY <1>1, <2>1 DEF Batches
  <2> QED BY <1>1, <1>4, <2>1, <2>2 DEF Continued, Bounded, Cancel, clientVars
<1>5. CASE Flush
  <2>1. /\ batch' = [batch EXCEPT !.at = IF Len(buffered) = 1 THEN "status" ELSE "send"]
        /\ batch.at = "send" /\ ret' = ret /\ abandoned' = abandoned
    BY <1>5 DEF Flush
  <2>2. /\ batch'.ids = batch.ids /\ batch'.first = batch.first /\ batch'.clean = batch.clean
        /\ batch'.kind = batch.kind /\ batch'.sent = batch.sent /\ batch'.at # "idle"
        /\ batch'.body = batch.body
    BY <1>1, <2>1 DEF Batches
  <2> QED BY <1>1, <1>5, <2>1, <2>2 DEF Continued, Bounded, Busy, InSync, Flush, clientVars
<1>6. CASE FlushFails
  BY <1>2, <1>3, <1>6, ReadsAdd DEF Stays
<1>7. CASE ReadUndecodable
  BY <1>2, <1>3, <1>7, ReadsAdd DEF Stays
<1>8. CASE TimeOut
  BY <1>2, <1>3, <1>8, ReadsAdd DEF Stays
<1>9. CASE ReadEof
  BY <1>2, <1>3, <1>9, ReadsAdd DEF Stays
<1>10. ASSUME NEW r \in Results, Adding(r)
       PROVE  Continued
  BY <1>10, AdvanceBounded DEF Adding
<1>11. CASE ReadStatus
  <2>1. Stays /\ Busy /\ InSync' = InSync
    BY <1>11, ReadsAdd DEF InSync
  <2>2. ASSUME batch' = [batch EXCEPT !.at = "body"], ret' = ret
        PROVE  Continued
    <3>1. /\ batch'.ids = batch.ids /\ batch'.first = batch.first
          /\ batch'.clean = batch.clean /\ batch'.kind = batch.kind
          /\ batch'.sent = batch.sent /\ batch'.at = "body"
      BY <1>1, <2>2 DEF Batches
    <3> QED BY <1>1, <2>1, <2>2, <3>1 DEF Continued, Bounded
  <2>3. Continued
    BY <1>10, <1>11, <2>2, ReadsAdd
  <2> QED BY <2>1, <2>3 DEF Stays
<1>12. CASE ReadTerminator
  BY <1>10, <1>12, ReadsAdd DEF Stays, InSync
<1>13. CASE ReadBodyLine
  <2>1. /\ batch' = [batch EXCEPT !.body = Append(@, NextLine)] /\ ret' = ret
        /\ batch.at = "body" /\ Stays /\ Busy /\ InSync' = InSync
    BY <1>13, ReadsAdd DEF ReadBodyLine, Reads, InSync
  <2>2. /\ batch'.ids = batch.ids /\ batch'.first = batch.first
        /\ batch'.clean = batch.clean /\ batch'.kind = batch.kind
        /\ batch'.sent = batch.sent /\ batch'.at = "body"
    BY <1>1, <2>1 DEF Batches
  <2> QED BY <1>1, <2>1, <2>2 DEF Continued, Bounded, Stays
<1> QED BY <1>4, <1>5, <1>6, <1>7, <1>8, <1>9, <1>11, <1>12, <1>13 DEF Read

LEMMA StepBounded ==
  ASSUME TypeOK, Bounded, [Next]_vars
  PROVE  Bounded'
<1>1. ASSUME NEW kind \in {"RETR", "DELE"}, NEW ids \in IdLists, Begin(kind, ids)
      PROVE  Bounded'
  BY <1>1, BeginBounded
<1>2. CASE Cancel \/ Flush \/ FlushFails \/ Read
  BY <1>2, StepContinues, ContinuedIsBounded
<1>3. CASE Accept \/ Reject \/ Lose \/ Done \/ UNCHANGED vars
  <2>1. UNCHANGED <<batch, results, ret, isPipelining, abandoned>>
    BY <1>3 DEF Accept, Reject, Serve, Lose, Done, vars, clientVars
  <2> QED BY <2>1 DEF Bounded, Busy, InSync
<1> QED BY <1>1, <1>2, <1>3 DEF Next

(* The server has read no command that the batch has not written; and,     *)
(* while it lives, it has read all those of the batches before.            *)
Counted ==
  InSync \/ (batch.clean /\ isPipelining) =>
    /\ Served + Len(toServer) < batch.first + batch.sent
    /\ server = "trans" => batch.first <= Served + 1

LEMMA ServedTypes ==
  ASSUME TypeOK
  PROVE  /\ Served \in Nat /\ Len(toServer) \in Nat /\ Len(buffered) \in Nat
         /\ batch.first \in Nat \ {0} /\ batch.sent \in Nat
         /\ Len(results) \in Nat /\ Awaited = batch.first + Len(results) /\ Awaited \in Nat
BY DEF TypeOK, Served, Awaited

LEMMA StepCounted ==
  ASSUME TypeOK, TypeOK', InOrder, Bounded, Counted, [Next]_vars
  PROVE  Counted'
<1>1. /\ Served \in Nat /\ Len(toServer) \in Nat /\ Len(buffered) \in Nat
      /\ batch.first \in Nat \ {0} /\ batch.sent \in Nat
  BY ServedTypes
<1>2. ASSUME NEW kind \in {"RETR", "DELE"}, NEW ids \in IdLists, Begin(kind, ids)
      PROVE  Counted'
  <2>1. /\ UNCHANGED <<toServer, server, verdicts, abandoned, isPipelining>> /\ ~Busy
        /\ batch'.first = batch.first + batch.sent /\ batch'.clean = InSync
        /\ batch'.sent \in Nat
    BY <1>2, BeginBounded DEF Begin, clientVars
  <2>2. Served' = Served /\ InSync' = InSync
    BY <2>1 DEF Served, InSync
  <2> SUFFICES ASSUME InSync
               PROVE  /\ Served + Len(toServer) < batch'.first + batch'.sent
                      /\ server = "trans" => batch'.first <= Served + 1
    BY <2>1, <2>2 DEF Counted
  <2>3. toServer = <<>> /\ buffered = <<>>
    BY <2>1 DEF InOrder, Quiet
  <2>4. Len(toServer) = 0 /\ Len(buffered) = 0
    BY <2>3
  <2>5. server = "trans" => Served = batch.first + batch.sent - 1
    BY <1>1, <2>4 DEF InOrder, CommandsInOrder
  <2>6. Served < batch.first + batch.sent
    BY <1>1, <2>4 DEF Counted
  <2> QED BY <1>1, <2>1, <2>4, <2>5, <2>6
<1>3. CASE Cancel \/ Flush \/ FlushFails \/ Read
  <2>1. /\ Continued /\ Busy /\ UNCHANGED <<isPipelining, server, verdicts>>
        /\ ~Flush => toServer' = toServer
    BY <1>3, StepContinues
  <2>2. /\ batch'.first = batch.first /\ batch'.clean = batch.clean /\ batch.sent <= batch'.sent
        /\ Served' = Served /\ batch'.sent \in Nat
    BY <2>1, ServedTypes DEF Continued, Served, TypeOK
  <2>3. InSync' => InSync
    BY <1>3 DEF InSync, Cancel, Flush, FlushFails, Read, ReadStatus, ReadBodyLine,
                ReadTerminator, ReadUndecodable, ReadEof, TimeOut
  <2> SUFFICES ASSUME InSync
               PROVE  /\ Served + Len(toServer') < batch'.first + batch'.sent
                      /\ server = "trans" => batch'.first <= Served + 1
    BY <2>1, <2>2, <2>3 DEF Counted, Bounded
  <2>4. CASE toServer' = toServer
    BY <1>1, <2>2, <2>4 DEF Counted
  <2>5. CASE Flush /\ server = "trans"
    <3>1. /\ batch.at = "send" /\ buffered # <<>> /\ toServer \in Seq(Command)
          /\ toServer' = Append(toServer, Head(buffered))
      BY <2>5 DEF Flush, TypeOK
    <3>2. Len(buffered) # 0 /\ Len(toServer') = Len(toServer) + 1
      BY <1>1, <3>1 DEF TypeOK
    <3>3. Served + Len(toServer) + Len(buffered) = batch.first + batch.sent - 1
      BY <2>5 DEF InOrder, CommandsInOrder
    <3>4. batch.first <= Served + 1
      BY <2>5 DEF Counted
    <3> QED BY <1>1, <2>2, <3>2, <3>3, <3>4
  <2>6. CASE Flush /\ server # "trans"
    BY <2>4, <2>6 DEF Flush, TypeOK
  <2> QED BY <2>1, <2>4, <2>5, <2>6
<1>4. CASE Accept \/ Reject
  <2>1. PICK v : /\ verdicts' = Append(verdicts, v) /\ toServer' = Tail(toServer)
                 /\ toServer # <<>>
                 /\ UNCHANGED <<batch, isPipelining, server, abandoned>>
    BY <1>4 DEF Accept, Reject, Serve, clientVars
  <2>2. Len(toServer') = Len(toServer) - 1 /\ Served' = Served + 1
    BY <2>1 DEF TypeOK, Served
  <2> QED BY <1>1, <2>1, <2>2 DEF Counted, InSync
<1>5. CASE Lose
  <2>1. Len(toServer') = 0 /\ server' = "gone"
    BY <1>5 DEF Lose
  <2> QED BY <1>1, <1>5, <2>1 DEF Lose, Counted, InSync, Served, clientVars
<1>6. CASE Done \/ UNCHANGED vars
  BY <1>6 DEF Done, vars, clientVars, Counted, InSync, Served
<1> QED BY <1>2, <1>3, <1>4, <1>5, <1>6 DEF Next

-----------------------------------------------------------------------------
(* The message that command n of the batch names.                          *)
Msg(b, n) == b.ids[n - b.first + 1]

(* Commands name the messages of the batch, each its own.                  *)
NamesItsOwn(q, b) == \A i \in 1 .. Len(q) : q[i].msg = Msg(b, q[i].id)

(* A line tells what the server decided, and of which message.             *)
LineTrue(l) ==
  /\ batch.first <= l.of /\ l.of <= Served
  /\ l.kind = "ok" => /\ verdicts[l.of] = "ok"
                      /\ batch.kind = "DELE" => Msg(batch, l.of) \in marks
  /\ l.kind = "err" => verdicts[l.of] = "err"
  /\ l.kind = "text" => l.msg = Msg(batch, l.of)
  /\ l.kind = "dot" => batch.kind = "RETR"
LinesTrue == \A i \in 1 .. Len(toClient) : LineTrue(toClient[i])

(* A terminator at j closes a body that begins as many lines before it as  *)
(* the message has: its +OK is still to be read, or it was read and some   *)
(* of the lines after it.                                                  *)
Start(b, q, j) == j - (Len(Content[Msg(b, q[j].of)]) + 1)
ClosesWhole(b, q, j, awaited) ==
  \/ /\ Start(b, q, j) >= 1 /\ q[Start(b, q, j)].kind = "ok"
     /\ q[Start(b, q, j)].of = q[j].of
  \/ /\ b.at = "body" /\ q[j].of = awaited
     /\ Start(b, q, j) = 0 - Len(b.body)
BodiesWhole ==
  \A j \in 1 .. Len(toClient) :
    toClient[j].kind = "dot" => ClosesWhole(batch, toClient, j, Awaited)

(* A body is read only of a message that the server has sent.              *)
InBody ==
  batch.at = "body" =>
    /\ batch.kind = "RETR" /\ Awaited <= Served /\ verdicts[Awaited] = "ok"
    /\ \A i \in DOMAIN batch.body : batch.body[i].msg = Msg(batch, Awaited)

(* A call goes on after a failure only if nothing more will be read.       *)
NoFailure ==
  Busy => \A i \in DOMAIN results :
    results[i].val \in {"Ok", "ServerError"} \/ (server = "gone" /\ toClient = <<>>)

(* All this while the connection is in step.                               *)
TruthInv ==
  InSync => /\ NamesItsOwn(toServer, batch) /\ NamesItsOwn(buffered, batch)
            /\ LinesTrue /\ BodiesWhole /\ InBody /\ NoFailure

(* The numbers of a batch name messages.                                   *)
LEMMA MsgTypes ==
  ASSUME TypeOK, Bounded,
         NEW n \in Nat, batch.first <= n, n < batch.first + batch.sent
  PROVE  Msg(batch, n) \in Msgs /\ Len(Content[Msg(batch, n)]) \in Nat
<1>1. /\ batch.first \in Nat /\ batch.sent \in Nat /\ batch.ids \in Seq(Msgs)
      /\ batch.sent <= Len(batch.ids) /\ Len(batch.ids) \in Nat
  BY DEF TypeOK, Bounded
<1>2. n - batch.first + 1 \in 1 .. Len(batch.ids)
  BY <1>1
<1>3. Msg(batch, n) \in Msgs
  BY <1>1, <1>2 DEF Msg
<1>4. Content[Msg(batch, n)] \in Seq({"text", "raw"})
  BY <1>3, ContentIsLines
<1> QED BY <1>3, <1>4

(* The types a proof about the lines needs.                                *)
LEMMA LineTypes ==
  ASSUME TypeOK, InOrder, InSync, TruthInv, Bounded, NEW j \in 1 .. Len(toClient)
  PROVE  /\ toClient[j] \in Line /\ toClient[j].of \in Nat
         /\ LineTrue(toClient[j]) /\ j \in Nat
         /\ Len(Content[Msg(batch, toClient[j].of)]) \in Nat
         /\ Start(batch, toClient, j) \in Int /\ Start(batch, toClient, j) < j
<1>1. toClient[j] \in Line /\ toClient[j].of \in Nat /\ j \in Nat
  <2>1. toClient \in Seq(Line)
    BY DEF TypeOK
  <2>2. toClient[j] \in Line
    BY <2>1
  <2> QED BY <2>2 DEF Line
<1>2. LineTrue(toClient[j]) /\ toClient[j].of < batch.first + batch.sent
  BY DEF TruthInv, LinesTrue, InOrder, RepliesInOrder
<1>3. Len(Content[Msg(batch, toClient[j].of)]) \in Nat
  BY <1>1, <1>2, MsgTypes DEF LineTrue
<1> QED BY <1>1, <1>2, <1>3 DEF Start

(* What is known of the line that is read: it is of the message awaited,   *)
(* and if it is a terminator the body is whole.                            *)
LEMMA NextIsTrue ==
  ASSUME TypeOK, InOrder, InSync, TruthInv, Bounded, Busy, toClient # <<>>
  PROVE  /\ LineTrue(NextLine) /\ NextLine.of = Awaited /\ NextLine \in Line
         /\ NextLine = toClient[1]
         /\ NextLine.kind \in {"ok", "err"} <=> batch.at # "body"
         /\ NextLine.kind = "dot" => /\ batch.at = "body"
                                     /\ Len(batch.body) = Len(Content[Msg(batch, Awaited)])
<1>1. Len(toClient) > 0 /\ NextLine = toClient[1] /\ 1 \in 1 .. Len(toClient)
  BY DEF TypeOK, NextLine
<1>2. /\ LineTrue(NextLine) /\ NextLine \in Line
      /\ Len(Content[Msg(batch, NextLine.of)]) \in Nat
  BY <1>1, LineTypes
<1>3. NextLine.of = Awaited /\ (NextLine.kind \in {"ok", "err"} <=> batch.at # "body")
  BY <1>1 DEF InOrder, RepliesInOrder, NextLine
<1>4. ASSUME NextLine.kind = "dot"
      PROVE  batch.at = "body" /\ Len(batch.body) = Len(Content[Msg(batch, Awaited)])
  <2>1. ClosesWhole(batch, toClient, 1, Awaited)
    BY <1>1, <1>4 DEF TruthInv, BodiesWhole
  <2>2. Start(batch, toClient, 1) = 1 - (Len(Content[Msg(batch, Awaited)]) + 1)
    BY <1>1, <1>3 DEF Start
  <2>3. Len(batch.body) \in Nat
    BY DEF TypeOK
  <2> QED BY <1>2, <1>3, <2>1, <2>2, <2>3 DEF ClosesWhole
<1> QED BY <1>1, <1>2, <1>3, <1>4

(* With the first line taken, the others still close whole bodies: those   *)
(* of later messages, or the one whose lines are being read.               *)
LEMMA TailCloses ==
  ASSUME TypeOK, InOrder, InSync, TruthInv, Bounded, Busy, toClient # <<>>,
         NEW j \in 1 .. Len(Tail(toClient)), Tail(toClient)[j].kind = "dot"
  PROVE  /\ Start(batch, Tail(toClient), j) \in Int
         /\ \/ /\ Start(batch, Tail(toClient), j) >= 1
               /\ Tail(toClient)[Start(batch, Tail(toClient), j)].kind = "ok"
               /\ Tail(toClient)[Start(batch, Tail(toClient), j)].of = Tail(toClient)[j].of
            \/ /\ Start(batch, Tail(toClient), j) = 0 /\ NextLine.kind = "ok"
               /\ batch.kind = "RETR" /\ Tail(toClient)[j].of = Awaited
            \/ /\ batch.at = "body" /\ Tail(toClient)[j].of = Awaited
               /\ Start(batch, Tail(toClient), j) = 0 - (Len(batch.body) + 1)
               /\ NextLine.kind # "dot"
<1> DEFINE q == toClient
           t == Tail(toClient)
           s == Start(batch, q, j + 1)
<1>1. /\ q \in Seq(Line) /\ Len(q) \in Nat \ {0} /\ Len(t) = Len(q) - 1
      /\ \A k \in 1 .. Len(q) - 1 : t[k] = q[k + 1]
  BY DEF TypeOK
<1>2. j \in Nat /\ j + 1 \in 1 .. Len(q) /\ t[j] = q[j + 1]
  BY <1>1
<1>3. /\ s \in Int /\ s < j + 1 /\ LineTrue(q[j + 1])
      /\ Len(Content[Msg(batch, q[j + 1].of)]) \in Nat
  BY <1>2, LineTypes
<1>4. Start(batch, t, j) = s - 1
  BY <1>2, <1>3 DEF Start
<1>5. ClosesWhole(batch, q, j + 1, Awaited)
  BY <1>2 DEF TruthInv, BodiesWhole
<1>6. NextLine = q[1] /\ NextLine.of = Awaited
  BY NextIsTrue
<1>7. batch.kind = "RETR"
  BY <1>2, <1>3 DEF LineTrue
<1>8. CASE s >= 1 /\ q[s].kind = "ok" /\ q[s].of = q[j + 1].of
  <2>1. CASE s = 1
    BY <1>2, <1>4, <1>6, <1>7, <1>8, <2>1
  <2>2. CASE s > 1
    <3>1. s - 1 \in 1 .. Len(q) - 1 /\ s - 1 + 1 = s
      BY <1>1, <1>2, <1>3, <2>2
    <3>2. t[s - 1] = q[s]
      BY <1>1, <3>1
    <3>3. t[Start(batch, t, j)] = q[s] /\ Start(batch, t, j) >= 1
      BY <1>4, <3>1, <3>2
    <3> QED BY <1>2, <1>3, <1>4, <1>8, <3>3
  <2>3. s = 1 \/ s > 1
    BY <1>3, <1>8
  <2> HIDE DEF s
  <2> QED BY <2>1, <2>2, <2>3
<1>9. CASE batch.at = "body" /\ q[j + 1].of = Awaited /\ s = 0 - Len(batch.body)
  <2>1. Len(batch.body) \in Nat
    BY DEF TypeOK
  <2>2. NextLine.kind # "dot"
    <3> SUFFICES ASSUME NextLine.kind = "dot" PROVE FALSE
      OBVIOUS
    <3>1. Len(batch.body) = Len(Content[Msg(batch, Awaited)])
      BY NextIsTrue
    <3>2. s = j + 1 - (Len(Content[Msg(batch, Awaited)]) + 1)
      BY <1>9 DEF Start
    <3>3. j >= 1
      OBVIOUS
    <3> QED BY <1>2, <1>9, <2>1, <3>1, <3>2, <3>3
  <2>3. Start(batch, t, j) = 0 - (Len(batch.body) + 1)
    BY <1>3, <1>4, <1>9, <2>1
  <2> QED BY <1>2, <1>3, <1>4, <1>9, <2>2, <2>3
<1> QED BY <1>5, <1>8, <1>9 DEF ClosesWhole

(* What is true of a line stays true of it as the call goes on.            *)
SameBatch == /\ batch'.ids = batch.ids /\ batch'.first = batch.first
             /\ batch'.kind = batch.kind
             /\ marks' = marks /\ verdicts' = verdicts

LEMMA TailIsTrue ==
  ASSUME TypeOK, SameBatch, LinesTrue, toClient' = Tail(toClient), toClient # <<>>
  PROVE  /\ LinesTrue' /\ \A n : Msg(batch', n) = Msg(batch, n)
         /\ \A q, j : Start(batch', q, j) = Start(batch, q, j)
<1>1. /\ Len(toClient') = Len(toClient) - 1 /\ Len(toClient) \in Nat
      /\ \A k \in 1 .. Len(toClient) - 1 : toClient'[k] = toClient[k + 1]
  BY DEF TypeOK
<1>2. /\ batch'.ids = batch.ids /\ batch'.first = batch.first
      /\ batch'.kind = batch.kind /\ Served' = Served
      /\ marks' = marks /\ verdicts' = verdicts
  BY DEF SameBatch, Served
<1>3. \A n : Msg(batch', n) = Msg(batch, n)
  BY <1>2 DEF Msg
<1>4. \A q, j : Start(batch', q, j) = Start(batch, q, j)
  BY <1>3 DEF Start
<1>5. ASSUME NEW k \in 1 .. Len(toClient') PROVE LineTrue(toClient[k])'
  <2>1. k + 1 \in 1 .. Len(toClient) /\ toClient'[k] = toClient[k + 1]
    BY <1>1
  <2>2. LineTrue(toClient'[k])
    BY <2>1 DEF LinesTrue
  <2> QED BY <1>2, <1>3, <2>2 DEF LineTrue
<1> QED BY <1>3, <1>4, <1>5 DEF LinesTrue

(* A status line before a body, or a line of it.                           *)
LEMMA ReadsOnIsTrue ==
  ASSUME TypeOK, InOrder, InSync, TruthInv, Bounded, Busy, Stays,
         toClient # <<>>, toClient' = Tail(toClient), batch'.at = "body",
         batch'.ids = batch.ids, batch'.first = batch.first, batch'.kind = batch.kind,
         results' = results, buffered' = buffered,
         \/ /\ NextLine.kind = "ok" /\ batch.kind = "RETR" /\ batch.at = "status"
            /\ batch'.body = <<>>
         \/ /\ NextLine.kind = "text" /\ batch.at = "body"
            /\ batch'.body = Append(batch.body, NextLine)
  PROVE  TruthInv'
<1>1. SameBatch /\ toServer' = toServer /\ Served' = Served /\ Awaited' = Awaited
  BY DEF SameBatch, Stays, Served, Awaited
<1>2. /\ LinesTrue' /\ \A n : Msg(batch', n) = Msg(batch, n)
      /\ \A q, j : Start(batch', q, j) = Start(batch, q, j)
  BY <1>1, TailIsTrue DEF TruthInv
<1>3. NamesItsOwn(toServer, batch)' /\ NamesItsOwn(buffered, batch)'
  BY <1>1, <1>2 DEF TruthInv, NamesItsOwn
<1>4. LineTrue(NextLine) /\ NextLine.of = Awaited
  BY NextIsTrue
<1>5. batch.body \in Seq(Line) /\ Len(batch.body) \in Nat
  BY DEF TypeOK
<1>6. Len(batch'.body) = IF NextLine.kind = "ok" THEN 0 ELSE Len(batch.body) + 1
  BY <1>5
<1>7. BodiesWhole'
  <2> SUFFICES ASSUME NEW j \in 1 .. Len(toClient'), toClient'[j].kind = "dot"
               PROVE  ClosesWhole(batch', toClient', j, Awaited)
    BY <1>1 DEF BodiesWhole
  <2> DEFINE s == Start(batch, toClient', j)
  <2>1. s = Start(batch', toClient', j)
    BY <1>2
  <2>2. /\ s \in Int
        /\ \/ s >= 1 /\ toClient'[s].kind = "ok" /\ toClient'[s].of = toClient'[j].of
           \/ s = 0 /\ NextLine.kind = "ok" /\ toClient'[j].of = Awaited
           \/ batch.at = "body" /\ toClient'[j].of = Awaited /\ s = 0 - (Len(batch.body) + 1)
    BY TailCloses
  <2> HIDE DEF s
  <2>3. CASE s >= 1 /\ toClient'[s].kind = "ok" /\ toClient'[s].of = toClient'[j].of
    BY <2>1, <2>3 DEF ClosesWhole
  <2>4. CASE s = 0 /\ NextLine.kind = "ok" /\ toClient'[j].of = Awaited
    BY <1>6, <2>1, <2>4 DEF ClosesWhole
  <2>5. CASE batch.at = "body" /\ toClient'[j].of = Awaited /\ s = 0 - (Len(batch.body) + 1)
    BY <1>6, <2>1, <2>5 DEF ClosesWhole
  <2> QED BY <2>2, <2>3, <2>4, <2>5
<1>8. InBody'
  <2>1. CASE NextLine.kind = "ok" /\ batch.kind = "RETR" /\ batch'.body = <<>>
    BY <1>1, <1>4, <2>1 DEF InBody, LineTrue, SameBatch
  <2>2. CASE /\ NextLine.kind = "text" /\ batch.at = "body"
             /\ batch'.body = Append(batch.body, NextLine)
    <3>1. /\ batch.kind = "RETR" /\ Awaited <= Served /\ verdicts[Awaited] = "ok"
          /\ \A k \in DOMAIN batch.body : batch.body[k].msg = Msg(batch, Awaited)
      BY <2>2 DEF TruthInv, InBody
    <3>2. \A k \in DOMAIN batch'.body : batch'.body[k].msg = Msg(batch, Awaited)
      BY <1>4, <1>5, <2>2, <3>1 DEF LineTrue
    <3> QED BY <1>1, <1>2, <3>1, <3>2 DEF InBody, SameBatch
  <2> QED BY <2>1, <2>2
<1>9. NoFailure'
  BY DEF TruthInv, NoFailure
<1> QED BY <1>2, <1>3, <1>7, <1>8, <1>9 DEF TruthInv

(* A chunk names the messages of its ids.                                  *)
LEMMA ChunkNames ==
  ASSUME TypeOK, NEW b \in Batches, NEW n \in Nat, n < Len(b.ids)
  PROVE  NamesItsOwn(Chunk(b, n), b)
<1>1. /\ ChunkEnd(b, n) \in Nat /\ b.first \in Nat
      /\ Len(Chunk(b, n)) = ChunkEnd(b, n) - n
  BY ChunkShape DEF Batches
<1> SUFFICES ASSUME NEW i \in 1 .. ChunkEnd(b, n) - n
             PROVE  Chunk(b, n)[i].msg = Msg(b, Chunk(b, n)[i].id)
  BY <1>1 DEF NamesItsOwn
<1>2. Chunk(b, n)[i].id = b.first + n + i - 1 /\ Chunk(b, n)[i].msg = b.ids[n + i]
  BY DEF Chunk
<1>3. (b.first + n + i - 1) - b.first + 1 = n + i
  BY <1>1
<1>4. Msg(b, b.first + n + i - 1) = b.ids[n + i]
  BY <1>3 DEF Msg
<1> QED BY <1>2, <1>4

(* One more result, and its whole reply has been read; or nothing is read  *)
(* any more.                                                               *)
LEMMA AdvanceIsTrue ==
  ASSUME TypeOK, InOrder, InSync, TruthInv, Bounded, Busy, Stays, batch.at # "send",
         NEW r \in Results, Advance(Append(results, r)),
         \/ /\ toClient # <<>> /\ toClient' = Tail(toClient)
            /\ NextLine.kind # "ok" \/ batch.kind # "RETR"
            /\ NextLine.kind # "text" /\ r.val \in {"Ok", "ServerError"}
            /\ NextLine.kind # "raw"
         \/ toClient = <<>> /\ toClient' = <<>> /\ server = "gone"
  PROVE  TruthInv'
<1>1. /\ Continued /\ batch'.at \in {"idle", "send", "status"}
      /\ results' = Append(results, r)
  BY AdvanceBounded
<1>2. SameBatch /\ toServer' = toServer
  BY <1>1 DEF SameBatch, Stays, Continued
<1>3. /\ \A n : Msg(batch', n) = Msg(batch, n)
      /\ \A q, j : Start(batch', q, j) = Start(batch, q, j)
  BY <1>2 DEF Msg, Start, SameBatch
<1>4. LinesTrue'
  <2>1. Len(<<>>) = 0
    OBVIOUS
  <2> QED BY <1>2, <2>1, TailIsTrue DEF TruthInv, LinesTrue
<1>5. NamesItsOwn(toServer, batch)'
  BY <1>2, <1>3 DEF TruthInv, NamesItsOwn
<1>6. NamesItsOwn(buffered, batch)'
  <2>1. CASE buffered' = buffered
    BY <1>3, <2>1 DEF TruthInv, NamesItsOwn
  <2>2. CASE WriteChunk(batch, Len(results')) /\ Len(results') # Len(batch.ids)
             /\ Len(results') = batch.sent
    <3>1. /\ batch \in Batches /\ Len(results') \in Nat /\ Len(results') < Len(batch.ids)
          /\ buffered = <<>>
      BY <1>1, <2>2 DEF Bounded, TypeOK, Batches, InOrder, Windowed
    <3>2. NamesItsOwn(Chunk(batch, Len(results')), batch)
      BY <3>1, ChunkNames
    <3>3. buffered' = Chunk(batch, Len(results'))
      <4>1. Chunk(batch, Len(results')) \in Seq(Command)
        BY <3>1, ChunkShape
      <4> QED BY <2>2, <3>1, <4>1 DEF WriteChunk
    <3> QED BY <1>3, <3>2, <3>3 DEF NamesItsOwn
  <2> QED BY <1>1, <2>1, <2>2 DEF Advance, Finish
<1>7. BodiesWhole'
  <2>1. CASE toClient' = <<>>
    BY <2>1 DEF BodiesWhole
  <2>2. CASE /\ toClient # <<>> /\ toClient' = Tail(toClient)
             /\ NextLine.kind # "ok" \/ batch.kind # "RETR"
             /\ NextLine.kind # "text" /\ NextLine.kind # "raw"
    <3> SUFFICES ASSUME NEW j \in 1 .. Len(toClient'), toClient'[j].kind = "dot"
                 PROVE  ClosesWhole(batch', toClient', j, Awaited')
      BY DEF BodiesWhole
    <3>1. batch.at = "body" => NextLine.kind = "dot"
      BY <2>2, NextIsTrue DEF Line, Kinds
    <3>2. /\ Start(batch, toClient', j) >= 1
          /\ toClient'[Start(batch, toClient', j)].kind = "ok"
          /\ toClient'[Start(batch, toClient', j)].of = toClient'[j].of
      BY <2>2, <3>1, TailCloses
    <3> QED BY <1>3, <3>2 DEF ClosesWhole
  <2> QED BY <2>1, <2>2
<1>8. InBody'
  BY <1>1 DEF InBody
<1>9. NoFailure'
  <2>1. CASE toClient' = <<>> /\ server = "gone"
    BY <2>1 DEF NoFailure, Stays
  <2>2. CASE toClient # <<>> /\ r.val \in {"Ok", "ServerError"}
    <3>1. \A k \in DOMAIN results : results[k].val \in {"Ok", "ServerError"}
      BY <2>2 DEF TruthInv, NoFailure
    <3>2. results \in Seq(Results)
      BY DEF TypeOK
    <3>3. \A k \in DOMAIN results' : results'[k].val \in {"Ok", "ServerError"}
      BY <1>1, <2>2, <3>1, <3>2
    <3> QED BY <3>3 DEF NoFailure
  <2> QED BY <2>1, <2>2
<1> QED BY <1>4, <1>5, <1>6, <1>7, <1>8, <1>9 DEF TruthInv

(* A command that moves on keeps its name.                                 *)
LEMMA TailNames ==
  ASSUME NEW b, NEW q \in Seq(Command), q # <<>>, NamesItsOwn(q, b)
  PROVE  /\ Head(q).msg = Msg(b, Head(q).id) /\ Head(q) = q[1]
         /\ NamesItsOwn(Tail(q), b)
<1>1. Len(q) > 0 /\ 1 \in 1 .. Len(q) /\ Head(q) = q[1]
  OBVIOUS
<1>2. \A k \in 1 .. Len(Tail(q)) : Tail(q)[k] = q[k + 1] /\ k + 1 \in 1 .. Len(q)
  OBVIOUS
<1> QED BY <1>1, <1>2 DEF NamesItsOwn

LEMMA AppendNames ==
  ASSUME NEW b, NEW q \in Seq(Command), NEW x \in Command, NamesItsOwn(q, b),
         x.msg = Msg(b, x.id)
  PROVE  NamesItsOwn(Append(q, x), b)
<1>1. /\ Len(Append(q, x)) = Len(q) + 1 /\ Len(q) \in Nat
      /\ \A k \in 1 .. Len(q) : Append(q, x)[k] = q[k]
      /\ Append(q, x)[Len(q) + 1] = x
  OBVIOUS
<1> QED BY <1>1 DEF NamesItsOwn

LEMMA FlushIsTrue ==
  ASSUME TypeOK, InOrder, InSync, TruthInv, Flush
  PROVE  TruthInv'
<1>1. /\ batch' = [batch EXCEPT !.at = IF Len(buffered) = 1 THEN "status" ELSE "send"]
      /\ batch.at = "send" /\ batch \in Batches /\ Busy
      /\ buffered # <<>> /\ buffered \in Seq(Command) /\ toServer \in Seq(Command)
      /\ UNCHANGED <<results, toClient, server, marks, verdicts, abandoned>>
      /\ buffered' = Tail(buffered)
      /\ toServer' \in {toServer, Append(toServer, Head(buffered))}
  BY DEF Flush, TypeOK, Batches, Busy
<1>2. /\ batch'.ids = batch.ids /\ batch'.first = batch.first /\ batch'.kind = batch.kind
      /\ batch'.at \in {"status", "send"}
  BY <1>1 DEF Batches
<1>3. /\ \A n : Msg(batch', n) = Msg(batch, n)
      /\ \A q, j : Start(batch', q, j) = Start(batch, q, j)
      /\ Served' = Served /\ Awaited' = Awaited
  BY <1>1, <1>2 DEF Msg, Start, Served, Awaited
<1>4. NamesItsOwn(buffered', batch) /\ NamesItsOwn(toServer', batch)
  <2>1. /\ Head(buffered) \in Command /\ Head(buffered).msg = Msg(batch, Head(buffered).id)
        /\ NamesItsOwn(Tail(buffered), batch)
    BY <1>1, TailNames DEF TruthInv
  <2> QED BY <1>1, <2>1, AppendNames DEF TruthInv
<1>5. NamesItsOwn(toServer, batch)' /\ NamesItsOwn(buffered, batch)'
  BY <1>3, <1>4 DEF NamesItsOwn
<1>6. LinesTrue'
  BY <1>1, <1>2, <1>3 DEF TruthInv, LinesTrue, LineTrue
<1>7. BodiesWhole'
  <2>1. \A j \in 1 .. Len(toClient) : toClient[j].kind = "dot" =>
          ClosesWhole(batch, toClient, j, Awaited)
    BY DEF TruthInv, BodiesWhole
  <2>2. \A j : ClosesWhole(batch, toClient, j, Awaited) => ClosesWhole(batch', toClient', j, Awaited')
    BY <1>1, <1>3 DEF ClosesWhole
  <2> QED BY <1>1, <2>1, <2>2 DEF BodiesWhole
<1>8. InBody' /\ NoFailure'
  BY <1>1, <1>2 DEF TruthInv, InBody, NoFailure
<1> QED BY <1>5, <1>6, <1>7, <1>8 DEF TruthInv

LEMMA BeginIsTrue ==
  ASSUME TypeOK, InOrder, InSync, NEW kind \in {"RETR", "DELE"}, NEW ids \in IdLists,
         Begin(kind, ids)
  PROVE  TruthInv'
<1>1. /\ toServer' = <<>> /\ toClient' = <<>> /\ buffered = <<>> /\ results' = <<>>
  BY DEF Begin, InOrder, Quiet
<1>2. LinesTrue' /\ BodiesWhole' /\ NoFailure' /\ NamesItsOwn(toServer, batch)'
  BY <1>1 DEF LinesTrue, BodiesWhole, NoFailure, NamesItsOwn
<1>3. CASE batch'.at = "idle" /\ buffered' = buffered
  BY <1>1, <1>2, <1>3 DEF TruthInv, InBody, NamesItsOwn
<1>4. CASE \E b \in Batches : /\ WriteChunk(b, 0) /\ Len(b.ids) > 0
                              /\ batch'.ids = b.ids /\ batch'.first = b.first
  <2>1. PICK b \in Batches : /\ WriteChunk(b, 0) /\ Len(b.ids) > 0
                             /\ batch'.ids = b.ids /\ batch'.first = b.first
    BY <1>4
  <2>2. Chunk(b, 0) \in Seq(Command) /\ NamesItsOwn(Chunk(b, 0), b)
    BY <2>1, ChunkShape, ChunkNames
  <2>3. buffered' = Chunk(b, 0) /\ batch'.at = "send"
    <3>1. batch'.at = "send"
      BY <2>1, WriteChunkBounded
    <3>2. buffered' = <<>> \o Chunk(b, 0)
      BY <1>1, <2>1 DEF WriteChunk
    <3> QED BY <2>2, <3>1, <3>2
  <2>4. NamesItsOwn(buffered, batch)'
    BY <2>1, <2>2, <2>3 DEF NamesItsOwn, Msg
  <2> QED BY <1>2, <2>3, <2>4 DEF TruthInv, InBody
<1> QED BY <1>3, <1>4, BeginBounded

(* What the server sends for an accepted command of a batch.               *)
LEMMA ReplyTells ==
  ASSUME NEW c \in Command, c.verb \in {"RETR", "DELE"}, NEW r \in Replies(c)
  PROVE  /\ r \in Seq(Line) /\ Len(r) \in Nat \ {0} /\ r[1].kind = "ok"
         /\ Len(Content[c.msg]) \in Nat
         /\ \A k \in 1 .. Len(r) :
              /\ r[k].of = c.id /\ r[k].kind # "err"
              /\ r[k].kind = "text" => r[k].msg = c.msg
              /\ r[k].kind = "dot" => c.verb = "RETR" /\ k = Len(Content[c.msg]) + 2
<1>1. /\ r \in Seq(Line) /\ Len(r) \in Nat \ {0}
      /\ \A k \in 1 .. Len(r) : r[k].of = c.id
      /\ \A k \in 1 .. Len(r) : r[k].kind \in {"ok", "err"} <=> k = 1
      /\ Len(r) > 1 => IsMulti(c.verb, c.msg)
  BY ReplyShape
<1>2. r[1].kind = "ok" /\ 1 \in 1 .. Len(r)
  BY <1>1, AcceptedReply
<1>3. Content[c.msg] \in Seq({"text", "raw"})
  BY ContentIsLines DEF Command, MessageOps
<1>4. CASE c.verb = "DELE"
  <2>1. ~(Len(r) > 1)
    <3>1. ~IsMulti(c.verb, c.msg)
      BY <1>4 DEF IsMulti, ListOps
    <3> QED BY <1>1, <3>1, Zenon
  <2>2. Len(r) = 1
    <3>1. PICK n \in Nat \ {0} : n = Len(r)
      BY <1>1
    <3>2. ~(n > 1)
      BY <2>1, <3>1
    <3>3. n = 1
      BY <3>2
    <3> QED BY <3>1, <3>3
  <2> QED BY <1>1, <1>2, <1>3, <2>2
<1>5. CASE c.verb = "RETR"
  <2>1. /\ Len(Tail(r)) = Len(Content[c.msg]) + 1
        /\ \A k \in 1 .. Len(Tail(r)) :
             /\ Tail(r)[k].kind = "dot" <=> k = Len(Content[c.msg]) + 1
             /\ k <= Len(Content[c.msg]) => Tail(r)[k].msg = c.msg
    BY <1>5, RetrievalReply
  <2>2. Len(Tail(r)) = Len(r) - 1 /\ \A k \in 1 .. Len(Tail(r)) : Tail(r)[k] = r[k + 1]
    BY <1>1
  <2>3. ASSUME NEW k \in 1 .. Len(r)
        PROVE  /\ r[k].kind = "text" => r[k].msg = c.msg
               /\ r[k].kind = "dot" => k = Len(Content[c.msg]) + 2
    <3>1. CASE k = 1
      BY <1>2, <3>1
    <3>2. CASE k # 1
      <4>1. k - 1 \in 1 .. Len(Tail(r)) /\ r[k] = Tail(r)[k - 1]
        BY <1>1, <2>2, <3>2
      <4>2. r[k].kind = "dot" <=> k - 1 = Len(Content[c.msg]) + 1
        BY <2>1, <4>1
      <4>3. k - 1 <= Len(Content[c.msg]) => r[k].msg = c.msg
        BY <2>1, <4>1
      <4> QED BY <1>1, <1>3, <2>1, <4>1, <4>2, <4>3
    <3> QED BY <3>1, <3>2
  <2> QED BY <1>1, <1>2, <1>3, <1>5, <2>3
<1> QED BY <1>4, <1>5

(* The command that the server reads next is that of the next number.      *)
LEMMA NextIsNext ==
  ASSUME TypeOK, InOrder, InSync, TruthInv, Bounded, Counted, toServer # <<>>, server = "trans"
  PROVE  /\ Busy /\ NextCommand \in Command /\ NextCommand.verb \in {"RETR", "DELE"}
         /\ NextCommand.verb = batch.kind /\ NextCommand.id = Served + 1
         /\ NextCommand.msg = Msg(batch, NextCommand.id)
         /\ batch.first <= Served + 1 /\ Served + 1 < batch.first + batch.sent
         /\ NextCommand.msg \in Msgs
<1>1. /\ toServer \in Seq(Command) /\ Len(toServer) \in Nat \ {0}
      /\ NextCommand = toServer[1] /\ NextCommand \in Command
      /\ 1 \in 1 .. Len(toServer)
  BY DEF TypeOK, NextCommand
<1>2. Busy
  BY DEF InOrder, Quiet
<1>3. Consecutive(toServer, Served + 1)
  BY DEF InOrder, CommandsInOrder
<1>4. NextCommand.id = Served + 1 + 1 - 1 /\ NextCommand.verb = batch.kind
  BY <1>1, <1>3 DEF Consecutive
<1>5. NextCommand.id = Served + 1
  BY <1>4, ServedTypes
<1>6. NextCommand.msg = Msg(batch, NextCommand.id)
  BY <1>1, TailNames DEF TruthInv, NextCommand
<1>7. batch.first <= Served + 1 /\ Served + 1 < batch.first + batch.sent
  BY <1>1, ServedTypes DEF Counted
<1>8. NextCommand.verb \in {"RETR", "DELE"} /\ NextCommand.msg \in Msgs
  BY <1>1, <1>4 DEF TypeOK, Command, MessageOps
<1> QED BY <1>1, <1>2, <1>4, <1>5, <1>6, <1>7, <1>8

LEMMA ServeIsTrue ==
  ASSUME TypeOK, InOrder, InSync, TruthInv, Bounded, Counted,
         toServer # <<>>, server = "trans",
         NEW v \in {"ok", "err"}, NEW r,
         v = "ok" => /\ r \in Replies(NextCommand)
                     /\ NextCommand.verb = "DELE" => NextCommand.msg \in marks',
         v = "err" => r = Refusal(NextCommand),
         toClient' = toClient \o r, toServer' = Tail(toServer),
         verdicts' = Append(verdicts, v), marks \subseteq marks',
         UNCHANGED <<batch, results, buffered, server, abandoned>>
  PROVE  TruthInv'
<1> DEFINE q == toClient
           m == Len(toClient)
           k == Len(r)
           c == NextCommand
<1>1. /\ Busy /\ c \in Command /\ c.verb \in {"RETR", "DELE"} /\ c.verb = batch.kind
      /\ c.id = Served + 1 /\ c.msg = Msg(batch, Served + 1)
      /\ batch.first <= Served + 1
  BY NextIsNext
<1>2. /\ Served \in Nat /\ Awaited \in Nat \ {0} /\ batch.first \in Nat \ {0}
      /\ q \in Seq(Line) /\ m \in Nat /\ Len(toServer) \in Nat
  BY ServedTypes DEF TypeOK
<1>3. /\ Served' = Served + 1 /\ Awaited' = Awaited
      /\ \A n \in 1 .. Served : verdicts'[n] = verdicts[n]
      /\ verdicts'[Served + 1] = v
  <2>1. verdicts \in Seq({"ok", "err"})
    BY DEF TypeOK
  <2> QED BY <2>1 DEF Served, Awaited
<1>4. /\ r \in Seq(Line) /\ k \in Nat \ {0}
      /\ \A n \in 1 .. k :
           /\ r[n].of = Served + 1
           /\ r[n].kind = "ok" => v = "ok"
           /\ r[n].kind = "err" => v = "err"
           /\ r[n].kind = "text" => r[n].msg = c.msg
           /\ r[n].kind = "dot" => /\ batch.kind = "RETR" /\ n = Len(Content[c.msg]) + 2
                                   /\ r[1].kind = "ok" /\ Len(Content[c.msg]) \in Nat
  <2>1. CASE v = "ok"
    BY <1>1, <2>1, ReplyTells
  <2>2. CASE v = "err"
    <3>1. r = <<LineOf(c, "err", NoMsg)>> /\ LineOf(c, "err", NoMsg) \in Line
      BY <1>1, <2>2, TypesOfLines DEF Refusal, Kinds
    <3>2. r \in Seq(Line) /\ k = 1 /\ r[1] = LineOf(c, "err", NoMsg)
      BY <3>1
    <3>3. r[1].kind = "err" /\ r[1].of = Served + 1
      BY <1>1, <3>2 DEF LineOf
    <3> QED BY <2>2, <3>2, <3>3
  <2> QED BY <2>1, <2>2
<1>5. /\ Len(toClient') = m + k
      /\ \A n \in 1 .. m : toClient'[n] = q[n]
      /\ \A n \in 1 .. k : toClient'[m + n] = r[n]
  BY <1>2, <1>4
<1>6. ASSUME NEW n \in 1 .. m + k PROVE n \in 1 .. m \/ (n - m \in 1 .. k /\ n = m + (n - m))
  BY <1>2, <1>4
<1>7. \A n : Msg(batch', n) = Msg(batch, n)
  BY DEF Msg
<1>8. NamesItsOwn(toServer, batch)' /\ NamesItsOwn(buffered, batch)'
  <2>1. toServer \in Seq(Command)
    BY DEF TypeOK
  <2>2. NamesItsOwn(Tail(toServer), batch)
    BY <2>1, TailNames DEF TruthInv
  <2> QED BY <2>2 DEF TruthInv, NamesItsOwn, Msg
<1> HIDE DEF m, k
<1>9. LinesTrue'
  <2> SUFFICES ASSUME NEW n \in 1 .. m + k PROVE LineTrue(toClient[n])'
    BY <1>5 DEF LinesTrue
  <2>1. CASE n \in 1 .. m
    <3>1. PICK l : l = q[n] /\ toClient'[n] = l /\ LineTrue(l) /\ l.of \in Nat
      BY <1>5, <2>1, LineTypes DEF m
    <3>2. l.of \in 1 .. Served
      BY <1>2, <3>1 DEF LineTrue
    <3>3. batch.first <= l.of /\ l.of <= Served + 1 /\ verdicts'[l.of] = verdicts[l.of]
      <4>1. batch.first <= l.of
        BY <3>1 DEF LineTrue
      <4>2. l.of <= Served + 1
        BY <1>2, <3>2
      <4>3. verdicts'[l.of] = verdicts[l.of]
        BY <1>3, <3>2
      <4> QED BY <4>1, <4>2, <4>3
    <3>4. LineTrue(l)'
      BY <1>3, <1>7, <3>1, <3>3 DEF LineTrue
    <3> QED BY <3>1, <3>4
  <2>2. CASE n - m \in 1 .. k /\ n = m + (n - m)
    <3>1. PICK h \in 1 .. k : toClient'[n] = r[h]
      BY <1>5, <2>2
    <3>2. PICK l : l = r[h]
      OBVIOUS
    <3>3. /\ toClient'[n] = l /\ l.of = Served + 1
          /\ l.kind = "ok" => v = "ok"
          /\ l.kind = "err" => v = "err"
          /\ l.kind = "text" => l.msg = c.msg
          /\ l.kind = "dot" => batch.kind = "RETR"
      BY <1>4, <3>1, <3>2
    <3>4. l.kind = "ok" /\ batch.kind = "DELE" => Msg(batch, Served + 1) \in marks'
      BY <1>1, <3>3
    <3>5. LineTrue(l)'
      <4>1. /\ batch'.first <= l.of /\ l.of <= Served' /\ verdicts'[l.of] = v
            /\ Msg(batch', l.of) = Msg(batch, Served + 1)
        <5>1. Served' = Served + 1 /\ verdicts'[Served + 1] = v /\ Served \in Nat
          BY <1>2, <1>3
        <5>2. batch'.first <= Served + 1
          BY <1>1
        <5>3. Msg(batch', l.of) = Msg(batch, l.of)
          BY <1>7
        <5> QED BY <3>3, <5>1, <5>2, <5>3
      <4>2. batch'.kind = batch.kind
        OBVIOUS
      <4> QED BY <1>1, <3>3, <3>4, <4>1, <4>2 DEF LineTrue
    <3> QED BY <3>3, <3>5
  <2> QED BY <1>6, <2>1, <2>2
<1>10. BodiesWhole'
  <2> SUFFICES ASSUME NEW n \in 1 .. m + k, toClient'[n].kind = "dot"
               PROVE  ClosesWhole(batch, toClient', n, Awaited)
    BY <1>3, <1>5 DEF BodiesWhole
  <2>1. CASE n \in 1 .. m
    <3>1. toClient'[n] = q[n] /\ ClosesWhole(batch, q, n, Awaited)
      BY <1>5, <2>1 DEF TruthInv, BodiesWhole, m
    <3>2. Start(batch, toClient', n) = Start(batch, q, n)
      BY <3>1 DEF Start
    <3>3. Start(batch, q, n) \in Int /\ Start(batch, q, n) < n
      BY <2>1, LineTypes DEF m
    <3>4. CASE /\ Start(batch, q, n) >= 1 /\ q[Start(batch, q, n)].kind = "ok"
               /\ q[Start(batch, q, n)].of = q[n].of
      <4>1. Start(batch, q, n) \in 1 .. m
        BY <1>2, <2>1, <3>3, <3>4
      <4>2. toClient'[Start(batch, q, n)] = q[Start(batch, q, n)]
        BY <1>5, <4>1
      <4> QED BY <3>1, <3>2, <3>4, <4>2 DEF ClosesWhole
    <3>5. CASE /\ batch.at = "body" /\ q[n].of = Awaited
               /\ Start(batch, q, n) = 0 - Len(batch.body)
      BY <3>1, <3>2, <3>5 DEF ClosesWhole
    <3> QED BY <3>1, <3>4, <3>5 DEF ClosesWhole
  <2>2. CASE n - m \in 1 .. k /\ n = m + (n - m)
    <3>0. PICK h \in 1 .. k : h = n - m /\ n = m + h
      BY <2>2
    <3>1. toClient'[n] = r[h] /\ toClient'[m + 1] = r[1] /\ 1 \in 1 .. k
      <4>1. 1 \in 1 .. k
        BY <1>4
      <4>2. toClient'[m + 1] = r[1]
        BY <1>5, <4>1
      <4> QED BY <1>5, <3>0, <4>1, <4>2
    <3>2. /\ h = Len(Content[c.msg]) + 2 /\ r[1].kind = "ok" /\ Len(Content[c.msg]) \in Nat
          /\ toClient'[n].of = Served + 1 /\ r[1].of = Served + 1
      BY <1>4, <3>1
    <3>3. Start(batch, toClient', n) = n - (Len(Content[c.msg]) + 1)
      BY <1>1, <3>2 DEF Start
    <3>4. Start(batch, toClient', n) = m + 1 /\ m + 1 >= 1
      <4>1. PICK z \in Nat : z = Len(Content[c.msg])
        BY <3>2
      <4>2. /\ n = m + (z + 2) /\ m \in Nat
            /\ Start(batch, toClient', n) = n - (z + 1)
        BY <1>2, <3>0, <3>2, <3>3, <4>1
      <4> QED BY <4>2
    <3> QED BY <3>1, <3>2, <3>4 DEF ClosesWhole
  <2> QED BY <1>6, <2>1, <2>2
<1>11. InBody'
  <2> SUFFICES ASSUME batch.at = "body"
               PROVE  /\ batch.kind = "RETR" /\ Awaited <= Served + 1
                      /\ verdicts'[Awaited] = "ok"
                      /\ \A n \in DOMAIN batch.body : batch.body[n].msg = Msg(batch, Awaited)
    BY <1>3, <1>7 DEF InBody
  <2>1. /\ batch.kind = "RETR" /\ Awaited <= Served /\ verdicts[Awaited] = "ok"
        /\ \A n \in DOMAIN batch.body : batch.body[n].msg = Msg(batch, Awaited)
    BY DEF TruthInv, InBody
  <2>2. Awaited \in 1 .. Served /\ Awaited <= Served + 1
    BY <1>2, <2>1
  <2>3. verdicts'[Awaited] = verdicts[Awaited]
    BY <1>3, <2>2
  <2> QED BY <2>1, <2>2, <2>3
<1>12. NoFailure'
  BY <1>1 DEF TruthInv, NoFailure
<1> QED BY <1>8, <1>9, <1>10, <1>11, <1>12 DEF TruthInv

LEMMA LoseIsTrue ==
  ASSUME TypeOK, InOrder, InSync, TruthInv, Bounded, Lose
  PROVE  TruthInv'
<1> DEFINE q == toClient
<1>1. q \in Seq(Line) /\ Len(q) \in Nat
  BY DEF TypeOK
<1>2. PICK n \in 0 .. Len(q) : toClient' = SubSeq(q, 1, n)
  BY DEF Lose
<1>3. /\ toServer' = <<>> /\ server' = "gone" /\ server = "trans"
      /\ UNCHANGED <<batch, results, buffered, verdicts, marks>>
  BY DEF Lose
<1>4. /\ Len(toClient') = n /\ n \in Nat /\ n <= Len(q)
      /\ \A i \in 1 .. n : toClient'[i] = q[i] /\ i \in 1 .. Len(q)
  BY <1>1, <1>2
<1>5. /\ \A i : Msg(batch', i) = Msg(batch, i)
      /\ Served' = Served /\ Awaited' = Awaited
  BY <1>3 DEF Msg, Served, Awaited
<1>6. NamesItsOwn(toServer, batch)' /\ NamesItsOwn(buffered, batch)'
  <2>1. Len(toServer') = 0
    BY <1>3
  <2> QED BY <1>3, <1>5, <2>1 DEF TruthInv, NamesItsOwn
<1>7. LinesTrue'
  BY <1>3, <1>4, <1>5 DEF TruthInv, LinesTrue, LineTrue
<1>8. BodiesWhole'
  <2> SUFFICES ASSUME NEW j \in 1 .. n, toClient'[j].kind = "dot"
               PROVE  ClosesWhole(batch, toClient', j, Awaited)
    BY <1>3, <1>4, <1>5 DEF BodiesWhole
  <2>1. toClient'[j] = q[j] /\ j \in 1 .. Len(q) /\ ClosesWhole(batch, q, j, Awaited)
    BY <1>4 DEF TruthInv, BodiesWhole
  <2>2. Start(batch, toClient', j) = Start(batch, q, j)
    BY <2>1 DEF Start
  <2>3. Start(batch, q, j) \in Int /\ Start(batch, q, j) < j
    BY <2>1, LineTypes
  <2>4. CASE /\ Start(batch, q, j) >= 1 /\ q[Start(batch, q, j)].kind = "ok"
             /\ q[Start(batch, q, j)].of = q[j].of
    <3>1. Start(batch, q, j) \in 1 .. n
      BY <1>4, <2>3, <2>4
    <3>2. toClient'[Start(batch, q, j)] = q[Start(batch, q, j)]
      BY <1>4, <3>1
    <3> QED BY <2>1, <2>2, <2>4, <3>2 DEF ClosesWhole
  <2>5. CASE /\ batch.at = "body" /\ q[j].of = Awaited
             /\ Start(batch, q, j) = 0 - Len(batch.body)
    BY <2>1, <2>2, <2>5 DEF ClosesWhole
  <2> QED BY <2>1, <2>4, <2>5 DEF ClosesWhole
<1>9. InBody' /\ NoFailure'
  BY <1>3, <1>5 DEF TruthInv, InBody, NoFailure, Busy
<1> QED BY <1>6, <1>7, <1>8, <1>9 DEF TruthInv

(* In step, every step keeps what the lines tell true.                     *)
LEMMA StepIsTrue ==
  ASSUME TypeOK, InOrder, Bounded, Counted, TruthInv, [Next]_vars
  PROVE  TruthInv'
<1>1. abandoned' = TRUE \/ abandoned' = abandoned
  BY DEF Next, Begin, Cancel, Flush, FlushFails, Read, ReadStatus, ReadBodyLine,
         ReadTerminator, ReadUndecodable, ReadEof, TimeOut, Accept, Reject, Serve,
         Lose, Done, vars
<1>2. abandoned \in BOOLEAN
  BY DEF TypeOK
<1> SUFFICES ASSUME abandoned' = abandoned, InSync PROVE TruthInv'
  BY <1>1, <1>2 DEF TruthInv, InSync
<1>3. ASSUME NEW kind \in {"RETR", "DELE"}, NEW ids \in IdLists, Begin(kind, ids)
      PROVE  TruthInv'
  BY <1>3, BeginIsTrue
<1>4. abandoned' # TRUE
  BY <1>2 DEF InSync
<1>5. CASE Flush
  BY <1>5, FlushIsTrue
<1>6. CASE ReadStatus
  <2>1. /\ Stays /\ Busy /\ toClient # <<>> /\ toClient' = Tail(toClient)
        /\ batch.at = "status"
    BY <1>6, ReadsAdd DEF ReadStatus, Reads
  <2>2. NextLine.kind \in {"ok", "err"}
    BY <2>1, NextIsTrue
  <2>3. CASE /\ NextLine.kind = "ok" /\ batch.kind = "RETR"
             /\ batch' = [batch EXCEPT !.at = "body"]
             /\ UNCHANGED <<results, ret, buffered>>
    <3>1. /\ batch'.at = "body" /\ batch'.ids = batch.ids /\ batch'.first = batch.first
          /\ batch'.kind = batch.kind /\ batch'.body = batch.body
      BY <2>3 DEF TypeOK
    <3>2. batch.body = <<>>
      BY <2>1 DEF Bounded
    <3> QED BY <2>1, <2>3, <3>1, <3>2, ReadsOnIsTrue
  <2>4. ASSUME NEW v \in {"Ok", "ServerError", "Parse"}, Adding(Result(v, <<>>)),
               Result(v, <<>>) \in Results,
               v = "Ok" => NextLine.kind = "ok" /\ batch.kind = "DELE",
               v = "ServerError" => NextLine.kind = "err",
               v = "Parse" => NextLine.kind \notin {"ok", "err"}
        PROVE  TruthInv'
    <3>1. Result(v, <<>>).val \in {"Ok", "ServerError"}
      BY <2>2, <2>4 DEF Result
    <3>2. NextLine.kind # "ok" \/ batch.kind # "RETR"
      BY <2>2, <2>4
    <3> QED BY <2>1, <2>2, <2>4, <3>1, <3>2, AdvanceIsTrue DEF Adding
  <2> QED BY <1>6, <2>3, <2>4, ReadsAdd
<1>7. CASE ReadBodyLine
  <2>1. /\ Stays /\ Busy /\ toClient # <<>> /\ toClient' = Tail(toClient)
        /\ batch.at = "body" /\ NextLine.kind \in {"ok", "err", "text"}
        /\ batch' = [batch EXCEPT !.body = Append(@, NextLine)]
        /\ results' = results /\ buffered' = buffered
    BY <1>7, ReadsAdd DEF ReadBodyLine, Reads
  <2>2. NextLine.kind = "text"
    BY <2>1, NextIsTrue
  <2>3. /\ batch'.at = "body" /\ batch'.ids = batch.ids /\ batch'.first = batch.first
        /\ batch'.kind = batch.kind /\ batch'.body = Append(batch.body, NextLine)
    BY <2>1 DEF TypeOK
  <2> QED BY <2>1, <2>2, <2>3, ReadsOnIsTrue
<1>8. CASE ReadTerminator
  <2>1. /\ Stays /\ Busy /\ toClient # <<>> /\ toClient' = Tail(toClient)
        /\ batch.at = "body" /\ NextLine.kind = "dot"
        /\ Adding(Result("Ok", batch.body)) /\ Result("Ok", batch.body) \in Results
    BY <1>8, ReadsAdd DEF ReadTerminator, Reads
  <2>2. Result("Ok", batch.body).val \in {"Ok", "ServerError"}
    BY DEF Result
  <2> QED BY <2>1, <2>2, AdvanceIsTrue DEF Adding
<1>9. CASE ReadEof
  <2>1. PICK v \in Failures : Failing(v, "ConnectionClosed")
    BY <1>9, ReadsAdd
  <2>2. /\ Stays /\ server = "gone" /\ toClient = <<>> /\ toClient' = <<>>
        /\ batch.at # "send" /\ Busy
    BY <1>9, <2>1, ReadsAdd DEF Failing
  <2>3. CASE isPipelining
    <3>1. batch'.at = "idle" /\ SameBatch
      BY <2>1, <2>2, <2>3, FailBounded DEF Failing, Failures, Continued, SameBatch, Stays
    <3>2. buffered' = buffered /\ toServer' = toServer
      BY <2>1, <2>2, <2>3 DEF Failing, Fail, Finish, Stays
    <3>3. \A n : Msg(batch', n) = Msg(batch, n)
      BY <3>1 DEF Msg, SameBatch
    <3>4. NamesItsOwn(toServer, batch)' /\ NamesItsOwn(buffered, batch)'
      BY <3>2, <3>3 DEF TruthInv, NamesItsOwn
    <3>5. LinesTrue' /\ BodiesWhole' /\ InBody' /\ NoFailure'
      <4>1. Len(toClient') = 0
        BY <2>2
      <4> QED BY <3>1, <4>1 DEF LinesTrue, BodiesWhole, InBody, NoFailure, Busy
    <3> QED BY <3>4, <3>5 DEF TruthInv
  <2>4. CASE ~isPipelining
    <3>1. Result(v, <<>>) \in Results
      <4>1. <<>> \in Seq(Line)
        OBVIOUS
      <4> QED BY <4>1 DEF Result, Results
    <3>2. Advance(Append(results, Result(v, <<>>)))
      BY <2>1, <2>4 DEF Failing, Fail
    <3> QED BY <2>2, <3>1, <3>2, AdvanceIsTrue
  <2> QED BY <2>3, <2>4
<1>10. CASE Accept
  <2>1. PICK r \in Replies(NextCommand) : toClient' = toClient \o r
    BY <1>10 DEF Accept, Serve
  <2>2. /\ toServer # <<>> /\ server = "trans" /\ toServer' = Tail(toServer)
        /\ verdicts' = Append(verdicts, "ok") /\ marks \subseteq marks'
        /\ NextCommand.verb = "DELE" => NextCommand.msg \in marks'
        /\ UNCHANGED <<batch, results, buffered, server, abandoned>>
    BY <1>10 DEF Accept, Serve
  <2> QED BY <2>1, <2>2, ServeIsTrue
<1>11. CASE Reject
  <2>1. /\ toServer # <<>> /\ server = "trans" /\ toServer' = Tail(toServer)
        /\ toClient' = toClient \o Refusal(NextCommand)
        /\ verdicts' = Append(verdicts, "err") /\ marks \subseteq marks'
        /\ UNCHANGED <<batch, results, buffered, server, abandoned>>
    BY <1>11 DEF Reject, Serve
  <2> QED BY <2>1, ServeIsTrue
<1>12. CASE Lose
  BY <1>12, LoseIsTrue
<1>13. CASE Done \/ UNCHANGED vars
  <2>1. UNCHANGED <<batch, results, buffered, toServer, toClient, server, marks, verdicts, abandoned>>
    BY <1>13 DEF Done, vars
  <2>2. /\ InSync' = InSync /\ Served' = Served /\ Awaited' = Awaited
        /\ \A n : Msg(batch', n) = Msg(batch, n)
    BY <2>1 DEF InSync, Served, Awaited, Msg
  <2>3. LinesTrue' /\ InBody' /\ NoFailure'
    BY <2>1, <2>2 DEF TruthInv, LinesTrue, LineTrue, InBody, NoFailure, Busy
  <2>4. BodiesWhole'
    BY <2>1, <2>2 DEF TruthInv, BodiesWhole, ClosesWhole, Start
  <2>5. NamesItsOwn(toServer, batch)' /\ NamesItsOwn(buffered, batch)'
    BY <2>1, <2>2 DEF TruthInv, NamesItsOwn
  <2> QED BY <2>3, <2>4, <2>5 DEF TruthInv
<1> QED BY <1>3, <1>4, <1>5, <1>6, <1>7, <1>8, <1>9, <1>10, <1>11, <1>12, <1>13
        DEF Next, Read, Cancel, FlushFails, ReadUndecodable, TimeOut

(* All that is known of the results of a batch.                            *)
BatchInv == TypeOK /\ InOrder /\ Bounded /\ Counted /\ TruthInv

LEMMA BatchIsSound == Spec => []BatchInv
<1>1. Init => Bounded /\ Counted /\ TruthInv
  <2> SUFFICES ASSUME Init PROVE Bounded /\ Counted /\ TruthInv
    OBVIOUS
  <2>1. /\ batch.at = "idle" /\ batch.first = 1 /\ batch.sent = 0 /\ batch.body = <<>>
        /\ batch.ids = <<>> /\ batch.clean = FALSE /\ results = <<>> /\ ret = "none"
        /\ buffered = <<>> /\ toServer = <<>> /\ toClient = <<>> /\ verdicts = <<>>
    BY DEF Init, NoBatch
  <2>2. Len(toServer) = 0 /\ Served = 0 /\ Len(toClient) = 0 /\ Len(buffered) = 0
        /\ Len(batch.ids) = 0
    BY <2>1 DEF Served
  <2>3. Bounded
    BY <2>1, <2>2 DEF Bounded, Busy
  <2>4. Counted
    BY <2>1, <2>2 DEF Counted
  <2>5. TruthInv
    BY <2>1, <2>2 DEF TruthInv, NamesItsOwn, LinesTrue, BodiesWhole, InBody, NoFailure, Busy
  <2> QED BY <2>3, <2>4, <2>5
<1>2. TypeOK /\ TypeOK' /\ InOrder /\ Bounded /\ Counted /\ TruthInv /\ [Next]_vars
        => Bounded' /\ Counted' /\ TruthInv'
  BY StepBounded, StepCounted, StepIsTrue
<1> QED BY <1>1, <1>2, BatchesTypeCorrect, RepliesComeInOrder, PTL DEF Spec, BatchInv

-----------------------------------------------------------------------------
(* A batch that began in step, and may be trusted still.                   *)
Trusted == batch.clean /\ (isPipelining \/ InSync)

(* A result that is Ok is worth what it says, if r is the result of m.     *)
Worth(b, ms, r, m) ==
  r.val = "Ok" => IF b.kind = "RETR" THEN Whole(r, m) ELSE m \in ms

LEMMA ResultsAreWorth ==
  ResultsInPlace <=>
    (Trusted => /\ ret = "Ok" => Len(results) = Len(batch.ids)
                /\ \A i \in DOMAIN results : Worth(batch, marks, results[i], batch.ids[i]))
BY DEF ResultsInPlace, Trusted, Worth

(* The result of a whole reply.                                            *)
LEMMA AnswerIsWorth ==
  ASSUME BatchInv, Trusted, Busy, NEW r \in Results,
         \/ ReadTerminator /\ r = Result("Ok", batch.body)
         \/ ReadStatus /\ (r.val = "Ok" => NextLine.kind = "ok" /\ batch.kind = "DELE")
  PROVE  Worth(batch, marks, r, batch.ids[Len(results) + 1])
<1>1. InSync
  BY DEF BatchInv, Bounded, Trusted
<1>2. TypeOK /\ InOrder /\ TruthInv /\ Bounded
  BY DEF BatchInv
<1>3. toClient # <<>>
  BY DEF ReadTerminator, ReadStatus, Reads
<1>4. Msg(batch, Awaited) = batch.ids[Len(results) + 1]
  <2>1. Awaited - batch.first + 1 = Len(results) + 1
    BY <1>2, ServedTypes
  <2> QED BY <2>1 DEF Msg
<1>5. CASE ReadTerminator /\ r = Result("Ok", batch.body)
  <2>1. batch.at = "body" /\ NextLine.kind = "dot"
    BY <1>5 DEF ReadTerminator, Reads
  <2>2. /\ batch.kind = "RETR" /\ Len(batch.body) = Len(Content[Msg(batch, Awaited)])
        /\ \A k \in DOMAIN batch.body : batch.body[k].msg = Msg(batch, Awaited)
    BY <1>1, <1>2, <1>3, <2>1, NextIsTrue DEF TruthInv, InBody
  <2>3. r.body = batch.body
    BY <1>5 DEF Result
  <2> QED BY <1>4, <2>2, <2>3 DEF Worth, Whole
<1>6. CASE ReadStatus /\ (r.val = "Ok" => NextLine.kind = "ok" /\ batch.kind = "DELE")
  BY <1>1, <1>2, <1>3, <1>4, <1>6, NextIsTrue DEF LineTrue, Worth
<1> QED BY <1>5, <1>6

(* Every result is that of its id, whatever becomes of the call.           *)
LEMMA StepInPlace ==
  ASSUME BatchInv, BatchInv', ResultsInPlace, [Next]_vars
  PROVE  ResultsInPlace'
<1>1. TypeOK /\ Bounded /\ Bounded' /\ results \in Seq(Results)
  BY DEF BatchInv, TypeOK
<1> SUFFICES ASSUME Trusted'
             PROVE  \A i \in DOMAIN results' : Worth(batch', marks', results'[i], batch'.ids[i])
  <2>1. (ret = "Ok" => Len(results) = Len(batch.ids))'
    BY <1>1 DEF Bounded
  <2> QED BY <2>1 DEF ResultsInPlace, Trusted, Worth
<1>2. InSync' => InSync
  BY DEF InSync, Next, Begin, Cancel, Flush, FlushFails, Read, ReadStatus, ReadBodyLine,
         ReadTerminator, ReadUndecodable, ReadEof, TimeOut, Accept, Reject, Serve,
         Lose, Done, vars
<1>3. ASSUME Trusted PROVE \A i \in DOMAIN results : Worth(batch, marks, results[i], batch.ids[i])
  BY <1>3, ResultsAreWorth
<1>4. ASSUME batch'.kind = batch.kind, batch'.ids = batch.ids, marks \subseteq marks'
      PROVE  \A r, m : Worth(batch, marks, r, m) => Worth(batch', marks', r, m)
  BY <1>4 DEF Worth, Whole
<1>5. ASSUME NEW kind \in {"RETR", "DELE"}, NEW ids \in IdLists, Begin(kind, ids)
      PROVE  \A i \in DOMAIN results' : Worth(batch', marks', results'[i], batch'.ids[i])
  <2>1. results' = <<>> /\ DOMAIN <<>> = {}
    BY <1>5 DEF Begin
  <2> QED BY <2>1
<1>6. ASSUME Cancel \/ Flush \/ FlushFails \/ Read
      PROVE  /\ Trusted /\ Busy /\ batch'.ids = batch.ids
             /\ \A r, m : Worth(batch, marks, r, m) => Worth(batch', marks', r, m)
  <2>1. Continued /\ Busy /\ marks' = marks /\ isPipelining' = isPipelining
    BY <1>1, <1>6, StepContinues
  <2> QED BY <1>2, <1>4, <2>1 DEF Continued, Trusted
<1>7. ASSUME Trusted, batch'.ids = batch.ids, \A r, m : Worth(batch, marks, r, m) => Worth(batch', marks', r, m),
             results' = results
      PROVE  \A i \in DOMAIN results' : Worth(batch', marks', results'[i], batch'.ids[i])
  BY <1>3, <1>7
<1>8. ASSUME Trusted, batch'.ids = batch.ids, \A r, m : Worth(batch, marks, r, m) => Worth(batch', marks', r, m),
             NEW r \in Results, results' = Append(results, r),
             Worth(batch, marks, r, batch.ids[Len(results) + 1])
      PROVE  \A i \in DOMAIN results' : Worth(batch', marks', results'[i], batch'.ids[i])
  <2> SUFFICES ASSUME NEW i \in DOMAIN results' PROVE Worth(batch', marks', results'[i], batch.ids[i])
    BY <1>8
  <2>1. CASE i \in DOMAIN results
    BY <1>1, <1>3, <1>8, <2>1
  <2>2. CASE i = Len(results) + 1
    BY <1>1, <1>8, <2>2
  <2>3. i \in DOMAIN results \/ i = Len(results) + 1
    BY <1>1, <1>8
  <2> QED BY <2>1, <2>2, <2>3
<1>9. ASSUME Cancel \/ Flush \/ FlushFails \/ Read,
             NEW v \in Failures, NEW f \in Failures, Failing(v, f)
      PROVE  \A i \in DOMAIN results' : Worth(batch', marks', results'[i], batch'.ids[i])
  <2>1. /\ isPipelining => results' = Filled(f)
        /\ ~isPipelining => results' = Append(results, Result(v, <<>>))
    BY <1>1, <1>9, FailBounded DEF Failing
  <2>2. /\ Result(v, <<>>) \in Results
        /\ \A m : \A w \in Failures : Worth(batch, marks, Result(w, <<>>), m)
    <3>1. <<>> \in Seq(Line)
      OBVIOUS
    <3> QED BY <3>1 DEF Result, Results, Failures, Worth
  <2>3. CASE isPipelining
    <3> SUFFICES ASSUME NEW i \in DOMAIN results' PROVE Worth(batch', marks', results'[i], batch.ids[i])
      BY <1>6, <1>9
    <3>1. /\ i \in 1 .. Len(batch.ids)
          /\ results'[i] = IF i <= Len(results) THEN results[i] ELSE Result(f, <<>>)
      BY <2>1, <2>3 DEF Filled
    <3>2. Worth(batch, marks, results'[i], batch.ids[i])
      <4>1. CASE i <= Len(results)
        <5>1. i \in DOMAIN results
          BY <1>1, <3>1, <4>1
        <5> QED BY <1>3, <1>6, <1>9, <3>1, <4>1, <5>1
      <4>2. CASE ~(i <= Len(results))
        BY <1>9, <2>2, <3>1, <4>2
      <4> QED BY <4>1, <4>2
    <3> QED BY <1>6, <1>9, <3>2
  <2>4. CASE ~isPipelining
    BY <1>6, <1>8, <1>9, <2>1, <2>2, <2>4
  <2> QED BY <2>3, <2>4
<1>10. "Io" \in Failures /\ "Timeout" \in Failures /\ "ConnectionClosed" \in Failures
  BY DEF Failures
<1>11. CASE Cancel \/ Flush \/ ReadBodyLine
  <2>1. results' = results
    BY <1>11 DEF Cancel, Flush, ReadBodyLine
  <2> QED BY <1>6, <1>7, <1>11, <2>1 DEF Read
<1>12. CASE FlushFails \/ ReadUndecodable \/ TimeOut
  BY <1>1, <1>9, <1>10, <1>12, ReadsAdd DEF Read
<1>13. CASE ReadEof
  BY <1>1, <1>9, <1>10, <1>13, ReadsAdd DEF Read
<1>14. CASE ReadTerminator
  <2>1. Adding(Result("Ok", batch.body)) /\ Result("Ok", batch.body) \in Results
    BY <1>1, <1>14, ReadsAdd
  <2>2. results' = Append(results, Result("Ok", batch.body))
    BY <2>1 DEF Adding, Advance
  <2>3. Trusted /\ Busy /\ batch'.ids = batch.ids /\ \A r, m : Worth(batch, marks, r, m) => Worth(batch', marks', r, m)
    BY <1>6, <1>14 DEF Read
  <2> QED BY <1>8, <1>14, <2>1, <2>2, <2>3, AnswerIsWorth
<1>15. CASE ReadStatus
  <2>1. Trusted /\ Busy /\ batch'.ids = batch.ids /\ \A r, m : Worth(batch, marks, r, m) => Worth(batch', marks', r, m)
    BY <1>6, <1>15 DEF Read
  <2>2. CASE results' = results
    BY <1>7, <2>1, <2>2
  <2>3. ASSUME NEW v \in {"Ok", "ServerError", "Parse"}, Adding(Result(v, <<>>)),
               Result(v, <<>>) \in Results,
               v = "Ok" => NextLine.kind = "ok" /\ batch.kind = "DELE"
        PROVE  \A i \in DOMAIN results' : Worth(batch', marks', results'[i], batch'.ids[i])
    <3>1. results' = Append(results, Result(v, <<>>)) /\ Result(v, <<>>).val = v
      BY <2>3 DEF Adding, Advance, Result
    <3> QED BY <1>8, <1>15, <2>1, <2>3, <3>1, AnswerIsWorth
  <2> QED BY <1>1, <1>15, <2>2, <2>3, ReadsAdd
<1>16. CASE Accept \/ Reject \/ Lose \/ Done \/ UNCHANGED vars
  <2>1. UNCHANGED <<batch, results, isPipelining>> /\ marks \subseteq marks'
    BY <1>16 DEF Accept, Reject, Serve, Lose, Done, vars, clientVars
  <2>2. Trusted
    BY <1>2, <2>1 DEF Trusted
  <2> QED BY <1>4, <1>7, <2>1, <2>2
<1> QED BY <1>5, <1>11, <1>12, <1>13, <1>14, <1>15, <1>16 DEF Next, Read

(* A batch returns one result for each id, and none made up: one that is   *)
(* Ok is the whole message of that very id, or a deletion the server made. *)
THEOREM ResultsAreInPlace == Spec => []ResultsInPlace
<1>1. Init => ResultsInPlace
  BY DEF Init, NoBatch, ResultsInPlace
<1>2. BatchInv /\ BatchInv' /\ ResultsInPlace /\ [Next]_vars => ResultsInPlace'
  BY StepInPlace
<1> QED BY <1>1, <1>2, BatchIsSound, PTL DEF Spec

-----------------------------------------------------------------------------
(***************************************************************************)
(* A batch is a call for each id.                                          *)
(***************************************************************************)

(* The decisions from the f-th on, and one more of them.                   *)
LEMMA DecidedShape ==
  ASSUME NEW q \in Seq({"ok", "err"}), NEW f \in Nat \ {0}
  PROVE  LET d == SubSeq(q, f, Len(q))
         IN  /\ d \in Seq({"ok", "err"})
             /\ Len(d) = IF f <= Len(q) THEN (Len(q) - f) + 1 ELSE 0
             /\ \A i \in 1 .. (Len(q) - f) + 1 : d[i] = q[f + i - 1]
<1>1. \A i \in f .. Len(q) : q[i] \in {"ok", "err"}
  OBVIOUS
<1>2. f \in Int /\ Len(q) \in Int
  OBVIOUS
<1> QED BY <1>1, <1>2, SubSeqProperties

LEMMA DecidedOfAppend ==
  ASSUME NEW q \in Seq({"ok", "err"}), NEW v \in {"ok", "err"}, NEW f \in 1 .. Len(q) + 1
  PROVE  SubSeq(Append(q, v), f, Len(q) + 1) = Append(SubSeq(q, f, Len(q)), v)
<1> DEFINE S == {"ok", "err"}
           n == Len(q)
           t == Append(q, v)
           d == SubSeq(q, f, n)
           e == SubSeq(t, f, n + 1)
           a == Append(d, v)
<1>1. /\ t \in Seq(S) /\ Len(t) = n + 1 /\ t[n + 1] = v /\ n \in Nat
      /\ \A i \in 1 .. n : t[i] = q[i]
  BY AppendProperties
<1>2. f \in Nat \ {0} /\ f <= n + 1
  BY <1>1
<1>3. /\ d \in Seq(S) /\ Len(d) = (n - f) + 1
      /\ \A i \in 1 .. (n - f) + 1 : d[i] = q[f + i - 1]
  <2>1. /\ d \in Seq(S) /\ Len(d) = IF f <= n THEN (n - f) + 1 ELSE 0
        /\ \A i \in 1 .. (n - f) + 1 : d[i] = q[f + i - 1]
    BY <1>2, DecidedShape
  <2> HIDE DEF d, n
  <2> QED BY <1>1, <1>2, <2>1
<1>4. /\ e \in Seq(S) /\ Len(e) = (n + 1 - f) + 1
      /\ \A i \in 1 .. (n + 1 - f) + 1 : e[i] = t[f + i - 1]
  <2>1. /\ SubSeq(t, f, Len(t)) \in Seq(S)
        /\ Len(SubSeq(t, f, Len(t))) = IF f <= Len(t) THEN (Len(t) - f) + 1 ELSE 0
        /\ \A i \in 1 .. (Len(t) - f) + 1 : SubSeq(t, f, Len(t))[i] = t[f + i - 1]
    <3> HIDE DEF t
    <3> QED BY <1>1, <1>2, DecidedShape
  <2> HIDE DEF t, n
  <2> QED BY <1>1, <1>2, <2>1
<1>5. /\ a \in Seq(S) /\ Len(a) = (n - f) + 2 /\ a[(n - f) + 2] = v
      /\ \A i \in 1 .. (n - f) + 1 : a[i] = d[i]
  <2>1. /\ a \in Seq(S) /\ Len(a) = Len(d) + 1 /\ a[Len(d) + 1] = v
        /\ \A i \in 1 .. Len(d) : a[i] = d[i]
    <3>1. v \in S /\ d \in Seq(S)
      BY <1>3
    <3> HIDE DEF d, S
    <3> QED BY <3>1, AppendProperties
  <2> HIDE DEF a, d, n
  <2>2. Len(d) + 1 = (n - f) + 2
    BY <1>1, <1>2, <1>3
  <2> QED BY <1>3, <2>1, <2>2
<1> HIDE DEF a, d, e, n, t
<1>6. Len(e) = Len(a)
  BY <1>1, <1>2, <1>4, <1>5
<1>7. ASSUME NEW i \in 1 .. Len(e) PROVE e[i] = a[i]
  <2>1. e[i] = t[f + i - 1]
    BY <1>1, <1>2, <1>4
  <2>2. CASE i \in 1 .. (n - f) + 1
    <3>1. f + i - 1 \in 1 .. n
      BY <1>1, <1>2, <2>2
    <3> QED BY <1>1, <1>3, <1>5, <2>1, <2>2, <3>1
  <2>3. CASE i = (n - f) + 2
    <3>1. f + i - 1 = n + 1
      BY <1>1, <1>2, <2>3
    <3> QED BY <1>1, <1>5, <2>1, <2>3, <3>1
  <2>4. i \in 1 .. (n - f) + 1 \/ i = (n - f) + 2
    BY <1>1, <1>2, <1>4
  <2> QED BY <2>2, <2>3, <2>4
<1>8. e = a
  <2> HIDE DEF S
  <2> QED BY <1>4, <1>5, <1>6, <1>7, SeqEqual
<1> QED BY <1>8 DEF a, d, e, n, t

(* The outcomes of results, and of one more of them.                       *)
OutcomesOf(rs) == [i \in DOMAIN rs |-> OutOf(rs[i])]

LEMMA OutcomesShape ==
  ASSUME NEW rs \in Seq(Results)
  PROVE  /\ OutcomesOf(rs) \in Seq({"ok", "err", "fail"})
         /\ Len(OutcomesOf(rs)) = Len(rs) /\ DOMAIN OutcomesOf(rs) = 1 .. Len(rs)
         /\ \A i \in 1 .. Len(rs) : OutcomesOf(rs)[i] = OutOf(rs[i])
<1>1. Len(rs) \in Nat /\ DOMAIN rs = 1 .. Len(rs)
  OBVIOUS
<1>2. \A r : OutOf(r) \in {"ok", "err", "fail"}
  BY DEF OutOf
<1> DEFINE o(i) == OutOf(rs[i])
<1>3. OutcomesOf(rs) = [i \in 1 .. Len(rs) |-> o(i)]
  BY <1>1 DEF OutcomesOf
<1>4. \A i \in 1 .. Len(rs) : o(i) \in {"ok", "err", "fail"}
  BY <1>2
<1>5. \A i \in 1 .. Len(rs) : OutcomesOf(rs)[i] = o(i)
  BY <1>3
<1>6. OutcomesOf(rs) \in Seq({"ok", "err", "fail"}) /\ Len(OutcomesOf(rs)) = Len(rs)
  <2> HIDE DEF o
  <2> QED BY <1>1, <1>3, <1>4
<1> QED BY <1>1, <1>3, <1>5, <1>6

LEMMA OutcomesOfAppend ==
  ASSUME NEW rs \in Seq(Results), NEW r \in Results
  PROVE  OutcomesOf(Append(rs, r)) = Append(OutcomesOf(rs), OutOf(r))
<1> DEFINE S == {"ok", "err", "fail"}
           t == Append(rs, r)
           e == OutcomesOf(t)
           a == Append(OutcomesOf(rs), OutOf(r))
<1>1. /\ t \in Seq(Results) /\ Len(t) = Len(rs) + 1 /\ Len(rs) \in Nat
      /\ t[Len(rs) + 1] = r /\ \A i \in 1 .. Len(rs) : t[i] = rs[i]
  BY AppendProperties
<1>2. /\ OutcomesOf(rs) \in Seq(S) /\ Len(OutcomesOf(rs)) = Len(rs)
      /\ \A i \in 1 .. Len(rs) : OutcomesOf(rs)[i] = OutOf(rs[i])
  BY OutcomesShape
<1>3. /\ e \in Seq(S) /\ Len(e) = Len(rs) + 1
      /\ \A i \in 1 .. Len(rs) + 1 : e[i] = OutOf(t[i])
  <2> HIDE DEF t
  <2> QED BY <1>1, OutcomesShape
<1>4. OutOf(r) \in S
  BY DEF OutOf
<1>5. /\ a \in Seq(S) /\ Len(a) = Len(rs) + 1 /\ a[Len(rs) + 1] = OutOf(r)
      /\ \A i \in 1 .. Len(rs) : a[i] = OutcomesOf(rs)[i]
  BY <1>2, <1>4, AppendProperties
<1> HIDE DEF S, t, e, a
<1>6. ASSUME NEW i \in 1 .. Len(e) PROVE e[i] = a[i]
  <2>1. i \in 1 .. Len(rs) \/ i = Len(rs) + 1
    BY <1>1, <1>3
  <2>2. i \in 1 .. Len(rs) + 1
    BY <1>3
  <2>3. CASE i \in 1 .. Len(rs)
    BY <1>1, <1>2, <1>3, <1>5, <2>2, <2>3
  <2>4. CASE i = Len(rs) + 1
    BY <1>1, <1>3, <1>5, <2>2, <2>4
  <2> QED BY <2>1, <2>3, <2>4
<1>7. e = a
  BY <1>3, <1>5, <1>6, SeqEqual
<1> QED BY <1>7 DEF e, a, t

(* A new call, and the promise withdrawn.                                  *)
LEMMA HiddenIsCall ==
  ASSUME ~Visible'
  PROVE  OneByOne!Call
BY DEF OneByOne!Call, Size, Decided, Outcomes

LEMMA BeginIsCall ==
  ASSUME BatchInv, BatchInv', NEW kind \in {"RETR", "DELE"}, NEW ids \in IdLists,
         Begin(kind, ids)
  PROVE  OneByOne!Call
<1> SUFFICES ASSUME Visible' PROVE OneByOne!Call
  BY HiddenIsCall
<1>1. TypeOK /\ Counted /\ TypeOK'
  BY DEF BatchInv
<1>2. /\ batch'.first = batch.first + batch.sent /\ batch'.clean = InSync
      /\ results' = <<>> /\ UNCHANGED verdicts
  BY <1>1, BeginBounded DEF Begin
<1>3. InSync
  BY <1>2 DEF Visible
<1>4. /\ Served < batch.first + batch.sent /\ Served \in Nat
      /\ batch.first \in Nat /\ batch.sent \in Nat /\ Len(toServer) \in Nat
  BY <1>1, <1>3, ServedTypes DEF Counted
<1>5. Decided' = <<>>
  <2> DEFINE f == batch.first + batch.sent
  <2>1. Decided' = SubSeq(verdicts, f, Served) /\ f \in Int /\ Served \in Int /\ Served < f
    BY <1>2, <1>4 DEF Decided, Served
  <2> HIDE DEF f
  <2> QED BY <2>1, SubSeqEmpty
<1>6. Outcomes' = <<>>
  BY <1>2 DEF Outcomes
<1>7. Size' \in Nat
  <2>1. batch'.ids \in Seq(Msgs)
    BY <1>1 DEF TypeOK
  <2> QED BY <2>1 DEF Size
<1> QED BY <1>5, <1>6, <1>7 DEF OneByOne!Call

(* A call that runs is visible as long as it is in step.                   *)
LEMMA StaysVisible ==
  ASSUME BatchInv, Visible', Cancel \/ Flush \/ FlushFails \/ Read
  PROVE  /\ Visible /\ InSync /\ Busy /\ Size' = Size /\ Decided' = Decided
         /\ Size = Len(batch.ids)
<1>1. TypeOK /\ Bounded
  BY DEF BatchInv
<1>2. /\ Continued /\ Busy /\ UNCHANGED <<isPipelining, verdicts>>
  BY <1>1, StepContinues
<1>3. InSync' => InSync
  BY DEF InSync, Cancel, Flush, FlushFails, Read, ReadStatus, ReadBodyLine,
         ReadTerminator, ReadUndecodable, ReadEof, TimeOut
<1>4. Visible /\ InSync
  BY <1>1, <1>2, <1>3 DEF Visible, Continued, Bounded
<1> QED BY <1>2, <1>4 DEF Size, Decided, Continued

(* Accept and Reject decide the next command.                              *)
LEMMA ServeIsDecide ==
  ASSUME BatchInv, BatchInv', Visible, NEW v \in {"ok", "err"},
         verdicts' = Append(verdicts, v), server = "trans", toServer # <<>>,
         UNCHANGED <<batch, results, ret, isPipelining, abandoned>>
  PROVE  OneByOne!Decide
<1>1. TypeOK /\ Counted /\ Bounded /\ verdicts \in Seq({"ok", "err"})
  BY DEF BatchInv, TypeOK
<1>2. Visible' /\ Size' = Size /\ Outcomes' = Outcomes /\ Size = Len(batch.ids)
  BY DEF Visible, Size, Outcomes, InSync
<1> DEFINE f == batch.first
           n == Served
<1>3. /\ f \in Nat \ {0} /\ n \in Nat /\ n = Len(verdicts)
      /\ f <= n + 1 /\ n + Len(toServer) < f + batch.sent /\ Len(toServer) \in Nat \ {0}
      /\ batch.sent \in Nat /\ batch.sent <= Len(batch.ids) /\ Len(batch.ids) \in Nat
  <2>1. Len(toServer) # 0
    BY <1>1 DEF TypeOK
  <2> QED BY <1>1, <2>1, ServedTypes DEF Served, Visible, Counted, Bounded, TypeOK
<1>4. Decided = SubSeq(verdicts, f, n) /\ Decided' = SubSeq(Append(verdicts, v), f, n + 1)
  <2>1. Len(verdicts') = n + 1 /\ batch'.first = f
    BY <1>1, <1>3
  <2> HIDE DEF n, f
  <2>2. Decided' = SubSeq(verdicts', batch'.first, Len(verdicts'))
    BY <1>2 DEF Decided
  <2> QED BY <1>3, <2>1, <2>2 DEF Decided, f
<1> HIDE DEF f, n
<1>5. Len(Decided) = IF f <= n THEN (n - f) + 1 ELSE 0
  BY <1>1, <1>3, <1>4, DecidedShape
<1>6. Len(Decided) < Size
  BY <1>2, <1>3, <1>5
<1>7. Decided' = Append(Decided, v)
  <2>1. f \in 1 .. Len(verdicts) + 1
    BY <1>3
  <2> QED BY <1>1, <1>3, <1>4, <2>1, DecidedOfAppend
<1> QED BY <1>2, <1>6, <1>7 DEF OneByOne!Decide

(* A result read from a reply is the decision on its command.              *)
LEMMA AnswerIsDeliver ==
  ASSUME BatchInv, BatchInv', Visible', NEW r \in Results, results' = Append(results, r),
         \/ ReadTerminator /\ r = Result("Ok", batch.body)
         \/ /\ ReadStatus
            /\ \/ r.val = "Ok" /\ NextLine.kind = "ok"
               \/ r.val = "ServerError" /\ NextLine.kind = "err"
  PROVE  OneByOne!Deliver
<1>1. TypeOK /\ TypeOK' /\ InOrder /\ TruthInv /\ Bounded /\ Counted
  BY DEF BatchInv
<1>2. /\ Visible /\ InSync /\ Busy /\ Size' = Size /\ Decided' = Decided
  BY StaysVisible DEF Read
<1>3. toClient # <<>>
  BY DEF ReadTerminator, ReadStatus, Reads
<1>4. Outcomes = OutcomesOf(results) /\ Outcomes' = Append(Outcomes, OutOf(r))
  <2>1. results \in Seq(Results)
    BY <1>1 DEF TypeOK
  <2>2. Outcomes = OutcomesOf(results) /\ Outcomes' = OutcomesOf(results')
    BY <1>2 DEF Outcomes, OutcomesOf
  <2> QED BY <2>1, <2>2, OutcomesOfAppend
<1>5. /\ Len(Outcomes) = Len(results) /\ DOMAIN Outcomes = 1 .. Len(results)
      /\ DOMAIN results = 1 .. Len(results)
      /\ \A i \in 1 .. Len(results) : Outcomes[i] = OutOf(results[i])
  <2>1. results \in Seq(Results)
    BY <1>1 DEF TypeOK
  <2> QED BY <1>4, <2>1, OutcomesShape
<1>6. ~OneByOne!Failed
  <2>1. \A i \in 1 .. Len(results) : results[i].val \in {"Ok", "ServerError"}
    BY <1>1, <1>2, <1>3, <1>5 DEF TruthInv, NoFailure
  <2> QED BY <1>5, <2>1 DEF OneByOne!Failed, OutOf
<1>7. /\ LineTrue(NextLine) /\ NextLine.of = Awaited
      /\ NextLine.kind \in {"ok", "err"} <=> batch.at # "body"
  BY <1>1, <1>2, <1>3, NextIsTrue
<1>8. Awaited <= Served /\ verdicts[Awaited] = OutOf(r)
  <2>1. CASE ReadTerminator /\ r = Result("Ok", batch.body)
    BY <1>1, <1>2, <2>1 DEF TruthInv, InBody, ReadTerminator, Reads, OutOf, Result
  <2>2. CASE r.val = "Ok" /\ NextLine.kind = "ok"
    BY <1>7, <2>2 DEF LineTrue, OutOf
  <2>3. CASE r.val = "ServerError" /\ NextLine.kind = "err"
    BY <1>7, <2>3 DEF LineTrue, OutOf
  <2> QED BY <2>1, <2>2, <2>3
<1>9. Len(Outcomes) < Len(Decided) /\ Decided[Len(Outcomes) + 1] = OutOf(r)
  <2>1. /\ Len(Decided) = IF batch.first <= Served THEN (Served - batch.first) + 1 ELSE 0
        /\ \A i \in 1 .. (Served - batch.first) + 1 : Decided[i] = verdicts[batch.first + i - 1]
    <3>1. /\ verdicts \in Seq({"ok", "err"}) /\ batch.first \in Nat \ {0}
          /\ Decided = SubSeq(verdicts, batch.first, Len(verdicts)) /\ Served = Len(verdicts)
      BY <1>1, <1>2 DEF TypeOK, Decided, Served
    <3> QED BY <3>1, DecidedShape
  <2>2. /\ Served \in Nat /\ batch.first \in Nat /\ Len(results) \in Nat
        /\ Awaited = batch.first + Len(results)
    BY <1>1, ServedTypes
  <2>3. /\ Len(results) < Len(Decided) /\ Len(results) + 1 \in 1 .. (Served - batch.first) + 1
        /\ batch.first + (Len(results) + 1) - 1 = Awaited
    BY <1>8, <2>1, <2>2
  <2> QED BY <1>5, <1>8, <2>1, <2>3
<1> QED BY <1>2, <1>4, <1>6, <1>9 DEF OneByOne!Deliver

(* A failure is delivered for the ids that have no result yet: for all of  *)
(* them if the batch is pipelined, for one if it is not.                   *)
LEMMA FailingIsFail ==
  ASSUME BatchInv, BatchInv', Visible', Cancel \/ Flush \/ FlushFails \/ Read,
         NEW v \in Failures, NEW f \in Failures, Failing(v, f)
  PROVE  OneByOne!Fail
<1>1. TypeOK /\ TypeOK' /\ Bounded
  BY DEF BatchInv
<1>2. /\ Visible /\ Busy /\ Size' = Size /\ Decided' = Decided /\ Size = Len(batch.ids)
  BY StaysVisible
<1>3. /\ isPipelining => results' = Filled(f)
      /\ ~isPipelining => results' = Append(results, Result(v, <<>>))
  BY <1>1, FailBounded DEF Failing
<1>4. /\ Len(results) \in Nat /\ Len(batch.ids) \in Nat /\ batch.sent \in Nat
      /\ Len(results) < batch.sent /\ batch.sent <= Len(batch.ids)
  <2>1. Busy => Len(results) < batch.sent /\ batch.sent <= Len(batch.ids)
    BY <1>1 DEF TypeOK
  <2>2. batch.ids \in Seq(Msgs) /\ batch.sent \in Nat /\ results \in Seq(Results)
    BY <1>1 DEF TypeOK
  <2> QED BY <1>2, <2>1, <2>2
<1>5. /\ Len(Outcomes) = Len(results) /\ DOMAIN Outcomes = 1 .. Len(results)
      /\ \A i \in 1 .. Len(results) : Outcomes[i] = OutOf(results[i])
      /\ Outcomes = OutcomesOf(results) /\ Outcomes \in Seq({"ok", "err", "fail"})
  <2>1. results \in Seq(Results) /\ Outcomes = OutcomesOf(results)
    BY <1>1, <1>2 DEF TypeOK, Outcomes, OutcomesOf
  <2> QED BY <2>1, OutcomesShape
<1>6. \A w \in Failures : OutOf(Result(w, <<>>)) = "fail"
  BY DEF OutOf, Result, Failures
<1>7. CASE isPipelining
  <2> DEFINE g(i) == IF i <= Len(results) THEN results[i] ELSE Result(f, <<>>)
             o(i) == IF i <= Len(Outcomes) THEN Outcomes[i] ELSE "fail"
  <2>1. results' = [i \in 1 .. Len(batch.ids) |-> g(i)]
    BY <1>3, <1>7 DEF Filled
  <2>2. Outcomes' = [i \in 1 .. Len(batch.ids) |-> OutOf(g(i))]
    <3> HIDE DEF g
    <3>1. Outcomes' = [i \in DOMAIN results' |-> OutOf(results'[i])]
      BY DEF Outcomes
    <3> QED BY <2>1, <3>1
  <2>3. \A i \in 1 .. Len(batch.ids) : OutOf(g(i)) = o(i)
    <3> SUFFICES ASSUME NEW i \in 1 .. Len(batch.ids) PROVE OutOf(g(i)) = o(i)
      OBVIOUS
    <3>1. CASE i <= Len(results)
      BY <1>4, <1>5, <3>1
    <3>2. CASE ~(i <= Len(results))
      BY <1>5, <1>6, <3>2
    <3> QED BY <3>1, <3>2
  <2>4. Outcomes' = [i \in 1 .. Len(batch.ids) |-> o(i)]
    <3> HIDE DEF g, o
    <3> QED BY <2>2, <2>3
  <2>5. Len(batch.ids) \in Len(Outcomes) + 1 .. Size
    BY <1>2, <1>4, <1>5
  <2> QED BY <1>2, <2>4, <2>5 DEF OneByOne!Fail
<1>8. CASE ~isPipelining
  <2> DEFINE o(i) == IF i <= Len(Outcomes) THEN Outcomes[i] ELSE "fail"
             n == Len(Outcomes) + 1
  <2>1. Outcomes' = Append(Outcomes, "fail")
    <3>1. Result(v, <<>>) \in Results /\ OutOf(Result(v, <<>>)) = "fail"
      <4>1. <<>> \in Seq(Line)
        OBVIOUS
      <4> QED BY <1>6, <4>1 DEF Result, Results
    <3>2. results \in Seq(Results) /\ Outcomes' = OutcomesOf(results')
      BY <1>1 DEF TypeOK, Outcomes, OutcomesOf
    <3> QED BY <1>3, <1>5, <1>8, <3>1, <3>2, OutcomesOfAppend
  <2>2. Len(Outcomes') = n /\ Outcomes' \in Seq({"ok", "err", "fail"}) /\ DOMAIN Outcomes' = 1 .. n
    BY <1>5, <2>1, AppendProperties
  <2>3. Outcomes' = [i \in 1 .. n |-> o(i)]
    <3>1. \A i \in 1 .. n : Outcomes'[i] = o(i)
      BY <1>4, <1>5, <2>1
    <3>2. Outcomes' = [i \in DOMAIN Outcomes' |-> Outcomes'[i]]
      BY <2>2
    <3> HIDE DEF o, n
    <3> QED BY <2>2, <3>1, <3>2
  <2>4. n \in Len(Outcomes) + 1 .. Size
    BY <1>2, <1>4, <1>5
  <2> HIDE DEF n
  <2> QED BY <1>2, <2>3, <2>4 DEF OneByOne!Fail
<1> QED BY <1>7, <1>8

(* Every step of a batch is a step of the calls one by one.                *)
LEMMA StepIsOneByOne ==
  ASSUME BatchInv, BatchInv', [Next]_vars
  PROVE  [OneByOne!Next]_(OneByOne!vars)
<1>1. TypeOK /\ InOrder /\ TruthInv /\ Bounded
  BY DEF BatchInv
<1>2. ASSUME NEW kind \in {"RETR", "DELE"}, NEW ids \in IdLists, Begin(kind, ids)
      PROVE  OneByOne!Next
  BY <1>2, BeginIsCall DEF OneByOne!Next
<1>3. CASE ~Visible'
  BY <1>3, HiddenIsCall DEF OneByOne!Next
<1>4. ASSUME Visible', results' = results, Cancel \/ Flush \/ FlushFails \/ Read
      PROVE  UNCHANGED OneByOne!vars
  BY <1>4, StaysVisible DEF OneByOne!vars, Outcomes
<1>5. "Io" \in Failures /\ "Timeout" \in Failures /\ "ConnectionClosed" \in Failures
  BY DEF Failures
<1>6. CASE Visible' /\ (Cancel \/ Flush \/ ReadBodyLine)
  <2>1. results' = results
    BY <1>6 DEF Cancel, Flush, ReadBodyLine
  <2> QED BY <1>4, <1>6, <2>1 DEF Read
<1>7. CASE Visible' /\ (FlushFails \/ ReadUndecodable \/ TimeOut)
  BY <1>1, <1>5, <1>7, ReadsAdd, FailingIsFail DEF Read, OneByOne!Next
<1>8. CASE Visible' /\ ReadEof
  BY <1>1, <1>5, <1>8, ReadsAdd, FailingIsFail DEF Read, OneByOne!Next
<1>9. CASE Visible' /\ ReadTerminator
  <2>1. Adding(Result("Ok", batch.body)) /\ Result("Ok", batch.body) \in Results
    BY <1>1, <1>9, ReadsAdd
  <2>2. results' = Append(results, Result("Ok", batch.body))
    BY <2>1 DEF Adding, Advance
  <2> QED BY <1>9, <2>1, <2>2, AnswerIsDeliver DEF OneByOne!Next
<1>10. CASE Visible' /\ ReadStatus
  <2>1. CASE results' = results
    BY <1>4, <1>10, <2>1 DEF Read
  <2>2. ASSUME NEW v \in {"Ok", "ServerError", "Parse"}, Adding(Result(v, <<>>)),
               Result(v, <<>>) \in Results,
               v = "Ok" => NextLine.kind = "ok" /\ batch.kind = "DELE",
               v = "ServerError" => NextLine.kind = "err",
               v = "Parse" => NextLine.kind \notin {"ok", "err"}
        PROVE  OneByOne!Deliver
    <3>1. results' = Append(results, Result(v, <<>>)) /\ Result(v, <<>>).val = v
      BY <2>2 DEF Adding, Advance, Result
    <3>2. NextLine.kind \in {"ok", "err"}
      <4>1. batch.at = "status" /\ toClient # <<>>
        BY <1>10 DEF ReadStatus, Reads
      <4>2. Busy /\ InSync
        BY <1>10, StaysVisible DEF Read
      <4> QED BY <1>1, <4>1, <4>2, NextIsTrue
    <3>3. \/ v = "Ok" /\ NextLine.kind = "ok"
          \/ v = "ServerError" /\ NextLine.kind = "err"
      BY <2>2, <3>2
    <3> QED BY <1>10, <2>2, <3>1, <3>3, AnswerIsDeliver
  <2> QED BY <1>1, <1>10, <2>1, <2>2, ReadsAdd DEF OneByOne!Next
<1>11. CASE Visible' /\ (Accept \/ Reject)
  <2>1. PICK v \in {"ok", "err"} :
          /\ verdicts' = Append(verdicts, v) /\ server = "trans" /\ toServer # <<>>
          /\ UNCHANGED <<batch, results, ret, isPipelining, abandoned>>
    BY <1>11 DEF Accept, Reject, Serve, clientVars
  <2>2. Visible
    BY <1>11, <2>1 DEF Visible, InSync
  <2> QED BY <2>1, <2>2, ServeIsDecide DEF OneByOne!Next
<1>12. CASE Lose \/ Done \/ UNCHANGED vars
  <2>1. UNCHANGED <<batch, results, ret, isPipelining, abandoned, verdicts>>
    BY <1>12 DEF Lose, Done, vars, clientVars
  <2> QED BY <2>1 DEF OneByOne!vars, Size, Decided, Outcomes, Visible, InSync
<1> QED BY <1>2, <1>3, <1>6, <1>7, <1>8, <1>9, <1>10, <1>11, <1>12 DEF Next, Read

(* retr_many and dele_many are a call for each id, in order: a result is   *)
(* the server's decision on that id, in the order of the ids, one for each *)
(* and after a failure of the connection nothing but failures.             *)
THEOREM BatchIsOneByOne == Spec => IsOneByOne
<1>1. Init => OneByOne!Init
  <2> SUFFICES ASSUME Init PROVE OneByOne!Init
    OBVIOUS
  <2>1. ~Visible
    BY DEF Init, NoBatch, Visible
  <2> QED BY <2>1 DEF OneByOne!Init, Size, Decided, Outcomes
<1>2. BatchInv /\ BatchInv' /\ [Next]_vars => [OneByOne!Next]_(OneByOne!vars)
  BY StepIsOneByOne
<1> QED BY <1>1, <1>2, BatchIsSound, PTL DEF Spec, IsOneByOne, OneByOne!Spec
=============================================================================
