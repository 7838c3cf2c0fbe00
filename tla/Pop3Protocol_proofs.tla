------------------------ MODULE Pop3Protocol_proofs -------------------------
(***************************************************************************)
(* Lemmas about the replies of a POP3 server, for every set of messages    *)
(* and every content.                                                      *)
(***************************************************************************)
EXTENDS Pop3Protocol, SequenceTheorems, TLAPS

(* A line of a command is a line.                                          *)
LEMMA TypesOfLines ==
  ASSUME NEW c \in Command, NEW k \in Kinds, NEW m \in Msgs \cup {NoMsg, Pipe}
  PROVE  LineOf(c, k, m) \in Line
BY DEF LineOf, Line, Command

(* A body is a sequence of lines of its command, none of them a terminator *)
(* or a status line.                                                       *)
LEMMA BodyLines ==
  ASSUME NEW c \in Command, NEW b \in Bodies(c)
  PROVE  /\ b \in Seq(Line)
         /\ \A i \in 1 .. Len(b) : b[i].of = c.id /\ b[i].kind \notin {"ok", "err", "dot"}
<1>1. CASE c.verb \in {"RETR", "TOP"}
  <2>1. b = [i \in DOMAIN Content[c.msg] |-> LineOf(c, Content[c.msg][i], c.msg)]
    BY <1>1 DEF Bodies
  <2>2. Content[c.msg] \in Seq({"text", "raw"})
    BY <1>1, ContentIsLines DEF Command, MessageOps
  <2>3. PICK n \in Nat : DOMAIN Content[c.msg] = 1 .. n
    BY <2>2
  <2>4. \A i \in 1 .. n : Content[c.msg][i] \in {"text", "raw"}
    BY <2>2, <2>3
  <2>5. \A i \in 1 .. n : /\ b[i] \in Line /\ b[i].of = c.id
                          /\ b[i].kind \notin {"ok", "err", "dot"}
    BY <1>1, <2>1, <2>3, <2>4 DEF LineOf, Line, Kinds, Command
  <2>6. b \in [1 .. n -> Line]
    BY <2>1, <2>3, <2>5
  <2>7. b \in Seq(Line) /\ Len(b) = n
    BY <2>6, SeqDef, LenProperties
  <2> QED BY <2>5, <2>7
<1>2. CASE c.verb \notin {"RETR", "TOP"}
  <2>1. PICK x \in {NoMsg, Pipe} : b = <<LineOf(c, "text", x)>>
    BY <1>2 DEF Bodies
  <2>2. LineOf(c, "text", x) \in Line
    BY TypesOfLines DEF Kinds
  <2> QED BY <2>1, <2>2 DEF LineOf
<1> QED BY <1>1, <1>2

(* A reply is one status line, or for an accepted multi-line command +OK,  *)
(* the body, and a terminator: the status line is first, the terminator    *)
(* last, and neither occurs in between.                                    *)
LEMMA ReplyShape ==
  ASSUME NEW c \in Command, NEW r \in Replies(c) \cup {Refusal(c)}
  PROVE  /\ r \in Seq(Line) /\ Len(r) \in Nat \ {0}
         /\ \A i \in 1 .. Len(r) : r[i].of = c.id
         /\ \A i \in 1 .. Len(r) : r[i].kind = "dot" => i = Len(r)
         /\ \A i \in 1 .. Len(r) : r[i].kind \in {"ok", "err"} <=> i = 1
         /\ Len(r) > 1 => /\ r[1].kind = "ok" /\ r[Len(r)].kind = "dot"
                          /\ IsMulti(c.verb, c.msg)
         /\ Len(r) = 1 => r[1].kind = "err" \/ ~IsMulti(c.verb, c.msg)
<1>1. /\ LineOf(c, "ok", NoMsg) \in Line
      /\ LineOf(c, "err", NoMsg) \in Line
      /\ LineOf(c, "dot", NoMsg) \in Line
  BY TypesOfLines DEF Kinds
<1>2. CASE r = Refusal(c) \/ ~IsMulti(c.verb, c.msg)
  <2>1. PICK l \in Line : /\ r = <<l>> /\ l.of = c.id /\ l.kind \in {"ok", "err"}
                          /\ l.kind = "err" \/ ~IsMulti(c.verb, c.msg)
    BY <1>1, <1>2 DEF LineOf, Replies, Refusal
  <2>2. r \in Seq(Line) /\ Len(r) = 1 /\ r[1] = l
    BY <2>1
  <2> QED BY <2>1, <2>2
<1>3. CASE ~(r = Refusal(c) \/ ~IsMulti(c.verb, c.msg))
  <2>2. PICK b \in Bodies(c) :
          r = <<LineOf(c, "ok", NoMsg)>> \o b \o <<LineOf(c, "dot", NoMsg)>>
    BY <1>3 DEF Replies, Refusal
  <2>3. /\ b \in Seq(Line)
        /\ \A i \in 1 .. Len(b) : b[i].of = c.id /\ b[i].kind \notin {"ok", "err", "dot"}
    BY BodyLines
  <2>4. r \in Seq(Line) /\ Len(r) = Len(b) + 2
    BY <1>1, <2>2, <2>3
  <2>5. /\ r[1] = LineOf(c, "ok", NoMsg)
        /\ r[Len(r)] = LineOf(c, "dot", NoMsg)
        /\ \A i \in 2 .. Len(r) - 1 : r[i] = b[i - 1]
    BY <1>1, <2>2, <2>3, <2>4
  <2>6. ASSUME NEW i \in 1 .. Len(r)
        PROVE  /\ r[i].of = c.id /\ (r[i].kind = "dot" => i = Len(r))
               /\ r[i].kind \in {"ok", "err"} <=> i = 1
    <3>1. CASE i = 1
      BY <2>5, <3>1 DEF LineOf
    <3>2. CASE i = Len(r)
      BY <2>4, <2>5, <3>2 DEF LineOf
    <3>3. CASE i # 1 /\ i # Len(r)
      <4>1. i \in 2 .. Len(r) - 1 /\ i - 1 \in 1 .. Len(b)
        BY <2>3, <2>4, <3>3
      <4> QED BY <2>3, <2>5, <3>3, <4>1
    <3> QED BY <3>1, <3>2, <3>3
  <2>7. r[1].kind = "ok" /\ r[Len(r)].kind = "dot"
    BY <2>5 DEF LineOf
  <2>8. Len(r) > 1 /\ Len(r) \in Nat \ {0}
    BY <2>3, <2>4
  <2> QED BY <1>3, <2>4, <2>6, <2>7, <2>8
<1> QED BY <1>2, <1>3
(* The reply to an accepted command begins with +OK.                       *)
LEMMA AcceptedReply ==
  ASSUME NEW c \in Command, NEW r \in Replies(c)
  PROVE  r # <<>> /\ r[1].kind = "ok"
<1>1. LineOf(c, "ok", NoMsg) \in Line /\ LineOf(c, "dot", NoMsg) \in Line
  BY TypesOfLines DEF Kinds
<1>2. CASE IsMulti(c.verb, c.msg)
  <2>1. PICK b \in Bodies(c) :
          r = <<LineOf(c, "ok", NoMsg)>> \o b \o <<LineOf(c, "dot", NoMsg)>>
    BY <1>2 DEF Replies
  <2>2. b \in Seq(Line)
    BY BodyLines
  <2> QED BY <1>1, <2>1, <2>2 DEF LineOf
<1>3. CASE ~IsMulti(c.verb, c.msg)
  <2>1. r = <<LineOf(c, "ok", NoMsg)>> /\ LineOf(c, "ok", NoMsg).kind = "ok"
    BY <1>3 DEF Replies, LineOf
  <2> QED BY <1>1, <2>1
<1> QED BY <1>2, <1>3

(* After the +OK to RETR or TOP come as many lines as the message has, all *)
(* of them its own, and a terminator.                                      *)
LEMMA RetrievalReply ==
  ASSUME NEW c \in Command, c.verb \in {"RETR", "TOP"}, NEW r \in Replies(c)
  PROVE  /\ Tail(r) \in Seq(Line) /\ Len(Content[c.msg]) \in Nat
         /\ Len(Tail(r)) = Len(Content[c.msg]) + 1
         /\ \A i \in 1 .. Len(Tail(r)) :
              /\ Tail(r)[i].kind = "dot" <=> i = Len(Content[c.msg]) + 1
              /\ i <= Len(Content[c.msg]) => Tail(r)[i].msg = c.msg
<1> DEFINE n == Len(Content[c.msg])
           first == LineOf(c, "ok", NoMsg)
           last == LineOf(c, "dot", NoMsg)
<1>1. first \in Line /\ last \in Line /\ last.kind = "dot"
  BY TypesOfLines DEF Kinds, LineOf
<1>2. PICK b \in Bodies(c) : r = <<first>> \o b \o <<last>>
  BY DEF Replies, IsMulti
<1>3. Content[c.msg] \in Seq({"text", "raw"})
  BY ContentIsLines DEF Command, MessageOps
<1>4. b = [i \in DOMAIN Content[c.msg] |-> LineOf(c, Content[c.msg][i], c.msg)]
  BY DEF Bodies
<1>5. b \in Seq(Line) /\ \A i \in 1 .. Len(b) : b[i].kind # "dot"
  BY BodyLines
<1>6. n \in Nat /\ DOMAIN Content[c.msg] = 1 .. n
  BY <1>3
<1>7. Len(b) = n /\ \A i \in 1 .. n : b[i].msg = c.msg
  BY <1>4, <1>5, <1>6 DEF LineOf
<1> HIDE DEF n, first, last
<1>8. /\ Tail(r) \in Seq(Line) /\ Len(Tail(r)) = n + 1
      /\ \A i \in 1 .. n : Tail(r)[i] = b[i]
      /\ Tail(r)[n + 1] = last
  BY <1>1, <1>2, <1>5, <1>6, <1>7
<1>9. ASSUME NEW i \in 1 .. n + 1
      PROVE  /\ Tail(r)[i].kind = "dot" <=> i = n + 1
             /\ i <= n => Tail(r)[i].msg = c.msg
  <2>1. CASE i = n + 1
    BY <1>1, <1>6, <1>8, <2>1
  <2>2. CASE i # n + 1
    <3>1. i \in 1 .. n
      BY <1>6, <2>2
    <3> QED BY <1>5, <1>7, <1>8, <2>2, <3>1
  <2> QED BY <2>1, <2>2
<1> QED BY <1>6, <1>8, <1>9 DEF n
=============================================================================
