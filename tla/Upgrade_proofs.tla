--------------------------- MODULE Upgrade_proofs ---------------------------
(***************************************************************************)
(* Proofs about Upgrade, for any number of commands: what is written and   *)
(* read in clear, whose replies are read, and what a connect returns.  The *)
(* inductive invariant has parts for the operation and the stream it is on *)
(* (Placed, OnPlain, OpInv), for the layer and the number of the lines that*)
(* are on their way (Layered, IdInv), and for the one reply that an        *)
(* operation waits for (Opened, HelloLast, OwnInv).                        *)
(***************************************************************************)
EXTENDS Upgrade, SequenceTheorems, TLAPS

Waits   == Verbs \cup {"none", "tcp", "handshake", "greeting", "probe"}
Command == [id : Nat, verb : Verbs \cup {"hello"}, layer : {"clear", "tls", "hello"}]
Lines(layers) == [of : Nat, layer : layers, kind : {"ok", "err", "hello"}]

Typed ==
  /\ builder.mode \in Modes
  /\ client \in {"building", "connecting", "open", "dropped"}
  /\ stream \in {"none", "plain", "upgrading", "tls"}
  /\ speaks \in {"clear", "starting", "tls"}
  /\ call \in [op : Connects \cup Calls, at : Waits, id : Nat]
  /\ nextId \in Nat
  /\ exposed \in BOOLEAN /\ tried \in BOOLEAN /\ carried \in BOOLEAN

(* Which operation may be under way on which stream.  A client that is to  *)
(* be encrypted is on a plain stream only for its greeting and for STLS.   *)
(* A login has set the state before it probes.                             *)
Placed ==
  /\ client = "building" => Idle /\ stream = "none"
  /\ client = "connecting" => call.op \in Connects
  /\ client = "open" => stream # "none" /\ (Idle \/ call.op \in Calls)
  /\ client = "dropped" => Idle
  /\ call.at \in {"tcp", "handshake"} => stream \in {"none", "upgrading"}
  /\ call.at = "tcp" => stream = "none"
  /\ call.at = "handshake" => tried
  /\ client = "building" \/ call.at = "tcp" => ~tried
  /\ Reading => stream \in {"plain", "tls"}
  /\ call.at = "probe" => state = "Authenticated"
  /\ stream = "plain" => ~tried
  /\ builder.mode = "Tls" => stream # "plain"
  /\ builder.mode = "StartTls" /\ stream = "plain"
       => client = "dropped" \/ (client = "connecting" /\ call.at \in {"greeting", "STLS"})

-----------------------------------------------------------------------------
LEMMA InitPlaced == Init => Typed /\ Placed
<1> SUFFICES ASSUME Init
             PROVE  Typed /\ Placed
  OBVIOUS
<1>1. /\ builder.mode = "Plain" /\ call.at = "none"
      /\ client = "building" /\ stream = "none" /\ tried = FALSE
  BY DEF Init, NoCall
<1>2. call \in [op : Connects \cup Calls, at : Waits, id : Nat]
  BY DEF Init, NoCall, Connects, Waits
<1>3. Typed
  BY <1>1, <1>2 DEF Init, Typed, Modes
<1>4. Placed
  BY <1>1 DEF Placed, Idle, Reading
<1> QED BY <1>3, <1>4

LEMMA AfterFacts ==
  ASSUME NEW at
  PROVE  /\ After(at) \in {"STLS", "USER", "APOP", "PASS", "probe", "done"}
         /\ After(at) = "STLS" <=> at = "greeting" /\ builder.mode = "StartTls"
         /\ After(at) = "probe" <=> at \in {"PASS", "APOP"}
<1>1. CASE at = "greeting" /\ builder.mode = "StartTls"
  BY <1>1 DEF After
<1>2. CASE at = "USER"
  BY <1>2 DEF After
<1>3. CASE at \in {"PASS", "APOP"}
  BY <1>3 DEF After
<1>4. CASE at \notin {"USER", "PASS", "APOP"} /\ ~(at = "greeting" /\ builder.mode = "StartTls")
  <2>1. After(at) = IF Configured(at) THEN IF builder.auth = "Apop" THEN "APOP" ELSE "USER"
                    ELSE IF CallerLogsIn(at) THEN "USER" ELSE "done"
    BY <1>4 DEF After
  <2> QED BY <1>4, <2>1
<1> QED BY <1>1, <1>2, <1>3, <1>4

(* How an operation goes on.                                               *)
LEMMA ContinueFacts ==
  ASSUME NEW at, NEW layer, Continue(at, layer)
  PROVE  \/ \E val : Return(val) /\ toServer' = toServer
         \/ /\ After(at) \in {"STLS", "USER", "APOP", "PASS", "probe"}
            /\ Go(After(at), layer)
BY AfterFacts DEF Continue

(* After its probe an operation ends: if another login follows, it refuses.*)
LEMMA ProbeEnds ==
  ASSUME state = "Authenticated", NEW layer, Continue("probe", layer)
  PROVE  toServer' = toServer
         /\ \/ After("probe") = "done" /\ Return("Ok")
            \/ After("probe") # "done" /\ Return("NotAuthenticated")
<1>1. After("probe") = IF Configured("probe") THEN IF builder.auth = "Apop" THEN "APOP" ELSE "USER"
                       ELSE IF CallerLogsIn("probe") THEN "USER" ELSE "done"
  BY DEF After
<1>2. After("probe") \in {"USER", "APOP", "done"}
  BY <1>1
<1> QED BY <1>2 DEF Continue

(* So a read that fails ends the operation that waits.                     *)
LEMMA FailureReturns ==
  ASSUME Placed, NEW val, ReadFails(val)
  PROVE  /\ UNCHANGED <<stamped, toServer>>
         /\ \E v : Return(v) /\ (call.at # "probe" => v = val)
<1>1. CASE call.at = "probe"
  <2>1. state = "Authenticated" /\ Continue("probe", Layer) /\ stamped' = stamped
    BY <1>1 DEF ReadFails, Placed
  <2> QED BY <1>1, <2>1, ProbeEnds
<1>2. CASE call.at # "probe"
  BY <1>2 DEF ReadFails
<1> QED BY <1>1, <1>2

LEMMA GivesUp ==
  ASSUME Placed, ReadEof \/ TimeOut
  PROVE  /\ UNCHANGED <<builder, state, stamped, stream, encrypted, buffer, wire, toServer,
                        server, speaks, loggedIn, tried, carried>>
         /\ \E v : Return(v) /\ (call.at # "probe" => v \in {"Io", "Timeout"})
<1>1. CASE ReadEof
  <2>1. ReadFails("Io")
    BY <1>1 DEF ReadEof
  <2> QED BY <1>1, <2>1, FailureReturns DEF ReadEof, streamVars, serverVars
<1>2. CASE TimeOut
  <2>1. ReadFails("Timeout")
    BY <1>2 DEF TimeOut
  <2> QED BY <1>2, <2>1, FailureReturns DEF TimeOut, streamVars, serverVars
<1> QED BY <1>1, <1>2

LEMMA ReturnTyped ==
  ASSUME Typed, NEW val, Return(val)
  PROVE  /\ call' \in [op : Connects \cup Calls, at : Waits, id : Nat]
         /\ client' \in {"open", "dropped"} /\ nextId' = nextId /\ exposed' = exposed
BY DEF Return, NoCall, Connects, Wrapped, Calls, Waits

LEMMA GoTyped ==
  ASSUME Typed, NEW verb \in {"STLS", "USER", "APOP", "PASS", "probe"}, NEW layer,
         Go(verb, layer)
  PROVE  /\ call' \in [op : Connects \cup Calls, at : Waits, id : Nat]
         /\ call'.at = verb /\ call'.op = call.op
         /\ client' = client /\ nextId' \in Nat /\ exposed' \in BOOLEAN
<1>1. call \in [op : Connects \cup Calls, at : Waits, id : Nat] /\ nextId \in Nat /\ verb \in Waits
  BY DEF Typed, Waits, Verbs
<1>2. call' = [call EXCEPT !.at = verb, !.id = nextId] /\ client' = client
  BY DEF Go
<1>3. nextId' \in Nat /\ exposed' \in BOOLEAN
  BY DEF Typed, Go, Write
<1> QED BY <1>1, <1>2, <1>3

LEMMA ContinueTyped ==
  ASSUME Typed, NEW at, NEW layer, Continue(at, layer)
  PROVE  /\ call' \in [op : Connects \cup Calls, at : Waits, id : Nat]
         /\ client' \in {"open", "dropped", client}
         /\ nextId' \in Nat /\ exposed' \in BOOLEAN
<1>1. ASSUME NEW val, Return(val)
      PROVE  /\ call' \in [op : Connects \cup Calls, at : Waits, id : Nat]
             /\ client' \in {"open", "dropped"} /\ nextId' \in Nat /\ exposed' \in BOOLEAN
  BY <1>1, ReturnTyped DEF Typed
<1> QED BY <1>1, GoTyped, ContinueFacts

LEMMA TypeStep == Typed /\ Placed /\ [Next]_vars => Typed'
<1> SUFFICES ASSUME Typed, Placed, [Next]_vars
             PROVE  Typed'
  OBVIOUS
<1> USE DEF clientVars, streamVars, serverVars, history
<1>1. ASSUME NEW m \in Modes, NEW a \in Auths, NEW p \in Ports,
             Configure([mode |-> m, auth |-> a, port |-> p])
      PROVE  Typed'
  BY <1>1 DEF Configure, Typed
<1>2. ASSUME NEW op \in Connects, Connect(op)
      PROVE  Typed'
  BY <1>2 DEF Connect, Typed, NoCall, Waits
<1>3. CASE TcpConnected
  BY <1>3 DEF TcpConnected, Typed, Waits
<1>4. CASE TcpFails
  BY <1>4, ReturnTyped DEF TcpFails, Typed
<1>5. CASE ReadGreeting
  <2>1. Continue("greeting", Layer)
    BY <1>5 DEF ReadGreeting
  <2>2. carried' \in BOOLEAN
    BY <1>5 DEF ReadGreeting, Reads
  <2> QED BY <1>5, <2>1, <2>2, ContinueTyped DEF ReadGreeting, Typed
<1>6. CASE ReadLogin
  <2>1. Continue(call.at, Layer)
    BY <1>6 DEF ReadLogin
  <2>2. carried' \in BOOLEAN
    BY <1>6 DEF ReadLogin, Reads
  <2> QED BY <1>6, <2>1, <2>2, ContinueTyped DEF ReadLogin, Typed
<1>7. CASE ReadSimple
  <2>1. carried' \in BOOLEAN
    BY <1>7 DEF ReadSimple, Reads
  <2> QED BY <1>7, <2>1, ReturnTyped DEF ReadSimple, Typed
<1>8. CASE ReadErr
  <2>1. carried' \in BOOLEAN
    BY <1>8 DEF ReadErr, Reads
  <2> QED BY <1>8, <2>1, ReturnTyped DEF ReadErr, Typed
<1>9. CASE ReadEof \/ TimeOut
  BY <1>9, GivesUp, ReturnTyped DEF Typed
<1>11. CASE ReadStlsOk
  <2>1. carried' \in BOOLEAN
    BY <1>11 DEF ReadStlsOk, Reads
  <2>2. CASE Return("Io") /\ UNCHANGED <<stream, toServer, tried>>
    BY <1>11, <2>1, <2>2, ReturnTyped DEF ReadStlsOk, Typed
  <2>3. CASE stream' = "upgrading" /\ StartHandshake
    BY <1>11, <2>1, <2>3 DEF ReadStlsOk, StartHandshake, Typed, Waits
  <2> QED BY <1>11, <2>2, <2>3 DEF ReadStlsOk
<1>12. CASE HandshakeDone
  <2>1. CASE stream = "none"
    BY <1>12, <2>1 DEF HandshakeDone, Typed, Waits
  <2>2. CASE stream # "none"
    BY <1>12, <2>2, ContinueTyped DEF HandshakeDone, Typed
  <2> QED BY <2>1, <2>2
<1>13. CASE HandshakeFails
  BY <1>13, ReturnTyped DEF HandshakeFails, Typed
<1>14. ASSUME NEW op \in Calls, Refuse(op)
       PROVE  Typed'
  BY <1>14 DEF Refuse, Typed
<1>15. ASSUME NEW op \in Calls, Begin(op)
       PROVE  Typed'
  BY <1>15 DEF Begin, Write, Typed, Waits, Verbs, Calls, Secrets
<1>16. CASE Cancel
  BY <1>16, ReturnTyped DEF Cancel, Typed
<1>17. CASE DropClient
  BY <1>17 DEF DropClient, Typed
<1>18. CASE AcceptHello
  BY <1>18 DEF AcceptHello, Typed
<1>19. CASE Accept
  BY <1>19 DEF Accept, Typed
<1>20. CASE Reject \/ Lose
  BY <1>20 DEF Reject, Lose, Typed
<1>21. CASE Over \/ UNCHANGED vars
  BY <1>21 DEF Over, vars, Typed
<1> QED BY <1>1, <1>2, <1>3, <1>4, <1>5, <1>6, <1>7, <1>8, <1>9, <1>11, <1>12, <1>13,
           <1>14, <1>15, <1>16, <1>17, <1>18, <1>19, <1>20, <1>21 DEF Next, Read

-----------------------------------------------------------------------------
(* An operation that returns on its stream.                                *)
LEMMA ReturnPlaced ==
  ASSUME Typed, Placed, ~Idle, NEW val, Return(val), stream' = stream, stream # "none",
         tried' = tried, builder' = builder,
         stream = "plain" /\ client = "connecting" /\ builder.mode = "StartTls" => val # "Ok"
  PROVE  Placed'
<1>1. call'.at = "none" /\ client' \in {"open", "dropped"}
  BY DEF Return, NoCall
<1>2. client' = "open" /\ client = "connecting" => val = "Ok"
  BY DEF Return, Placed
<1>3. client \in {"connecting", "open"}
  BY DEF Typed, Placed
<1>4. builder.mode = "StartTls" /\ stream = "plain" => client' = "dropped"
  BY <1>1, <1>2, <1>3 DEF Placed, Idle
<1> QED BY <1>1, <1>4 DEF Placed, Idle, Reading

(* One that goes on with a command: on a plain stream only if it may.      *)
LEMMA GoPlaced ==
  ASSUME Typed, Placed, ~Idle, NEW verb \in {"STLS", "USER", "APOP", "PASS", "probe"}, NEW layer,
         Go(verb, layer), stream' \in {"plain", "tls"}, stream' = "plain" => stream = "plain",
         tried' = tried, builder' = builder, verb = "probe" => state' = "Authenticated",
         stream' = "plain" /\ builder.mode = "StartTls" => client = "connecting" /\ verb = "STLS"
  PROVE  Placed'
<1>1. call'.at = verb /\ call'.op = call.op /\ client' = client
  BY GoTyped
<1>2. client \in {"connecting", "open"}
  BY DEF Typed, Placed
<1> QED BY <1>1, <1>2 DEF Placed, Idle, Reading

LEMMA PlaceStep == Typed /\ Placed /\ [Next]_vars => Placed'
<1> SUFFICES ASSUME Typed, Placed, [Next]_vars
             PROVE  Placed'
  OBVIOUS
<1> USE DEF clientVars, streamVars, serverVars, history
<1>1. ASSUME NEW m \in Modes, NEW a \in Auths, NEW p \in Ports,
             Configure([mode |-> m, auth |-> a, port |-> p])
      PROVE  Placed'
  BY <1>1 DEF Configure, Placed, Idle, Reading
<1>2. ASSUME NEW op \in Connects, Connect(op)
      PROVE  Placed'
  <2>1. call'.op = op /\ call'.at = "tcp" /\ client' = "connecting" /\ stream' = "none"
    BY <1>2 DEF Connect, NoCall, Placed
  <2> QED BY <1>2, <2>1 DEF Connect, Placed, Idle, Reading
<1>3. CASE TcpConnected
  <2>1. stream = "none" /\ client = "connecting" /\ call.op \in Connects
    BY <1>3 DEF TcpConnected, Placed, Typed, Idle
  <2>2. CASE builder.mode = "Tls"
    <3>1. call'.at = "handshake" /\ call'.op = call.op /\ tried' /\ stream' = stream
      BY <1>3, <2>2 DEF TcpConnected, Typed
    <3> QED BY <1>3, <2>1, <2>2, <3>1 DEF TcpConnected, Placed, Idle, Reading
  <2>3. CASE builder.mode # "Tls"
    <3>1. call'.at = "greeting" /\ call'.op = call.op /\ stream' = "plain" /\ tried' = tried
      BY <1>3, <2>3 DEF TcpConnected, Typed
    <3>2. ~tried
      BY <1>3 DEF TcpConnected, Placed
    <3> QED BY <1>3, <2>1, <2>3, <3>1, <3>2 DEF TcpConnected, Placed, Idle, Reading
  <2> QED BY <2>2, <2>3
<1>4. CASE TcpFails
  <2>1. call'.at = "none" /\ client' = "dropped" /\ stream' = "none"
    BY <1>4 DEF TcpFails, Return, NoCall, Placed, Typed, Idle
  <2> QED BY <2>1 DEF Placed, Idle, Reading
<1>r. ASSUME Reading
      PROVE  ~Idle /\ stream \in {"plain", "tls"} /\ client \in {"connecting", "open"}
  BY <1>r DEF Reading, Idle, Placed, Typed
<1>5. CASE ReadGreeting
  <2>1. Reading /\ call.at = "greeting"
    BY <1>5 DEF ReadGreeting, Reads
  <2>2. Continue("greeting", Layer) /\ stream' = stream /\ tried' = tried /\ builder' = builder
    BY <1>5 DEF ReadGreeting
  <2>3. builder.mode = "StartTls" => After("greeting") = "STLS"
    BY AfterFacts
  <2>4. CASE After("greeting") # "done" /\ Go(After("greeting"), Layer)
    <3>1. stream = "plain" /\ builder.mode = "StartTls" => client = "connecting"
      BY <1>r, <2>1 DEF Placed
    <3>2. After("greeting") \in {"STLS", "USER", "APOP", "PASS"}
      BY <2>4, AfterFacts
    <3> QED BY <1>r, <2>1, <2>2, <2>3, <2>4, <3>1, <3>2, GoPlaced
  <2>5. CASE After("greeting") = "done" \/ ~Go(After("greeting"), Layer)
    <3>1. PICK val : Return(val) /\ (builder.mode = "StartTls" => val # "Ok")
      BY <2>2, <2>3, <2>5 DEF Continue
    <3> QED BY <1>r, <2>1, <2>2, <3>1, ReturnPlaced
  <2> QED BY <2>4, <2>5
<1>6. CASE ReadLogin
  <2>1. Reading /\ call.at \in Secrets \cup {"probe"}
    BY <1>6 DEF ReadLogin, Reads
  <2>2. Continue(call.at, Layer) /\ stream' = stream /\ tried' = tried /\ builder' = builder
    BY <1>6 DEF ReadLogin
  <2>3. ~(stream = "plain" /\ builder.mode = "StartTls")
    BY <1>r, <2>1 DEF Placed, Secrets
  <2>4. After(call.at) = "probe" => state' = "Authenticated"
    BY <1>6, AfterFacts DEF ReadLogin
  <2> QED BY <1>r, <2>1, <2>2, <2>3, <2>4, ContinueFacts, GoPlaced, ReturnPlaced
<1>7. CASE ReadSimple
  <2>1. Reading /\ call.at \in {"CAPA", "QUIT"} /\ Return("Ok")
    BY <1>7 DEF ReadSimple, Reads
  <2>2. ~(stream = "plain" /\ builder.mode = "StartTls")
    BY <1>r, <2>1 DEF Placed
  <2> QED BY <1>7, <1>r, <2>1, <2>2, ReturnPlaced DEF ReadSimple
<1>8. CASE ReadErr
  <2>1. Reading /\ \E val \in {"AuthFailed", "ServerError"} : Return(val)
    BY <1>8 DEF ReadErr, Reads
  <2> QED BY <1>8, <1>r, <2>1, ReturnPlaced DEF ReadErr
<1>9. CASE ReadEof \/ TimeOut
  <2>1. Reading
    BY <1>9 DEF ReadEof, TimeOut
  <2>2. stream = "plain" /\ builder.mode = "StartTls" => call.at # "probe"
    BY <1>r, <2>1 DEF Placed
  <2> QED BY <1>9, <1>r, <2>1, <2>2, GivesUp, ReturnPlaced
<1>11. CASE ReadStlsOk
  <2>1. Reading /\ call.at = "STLS"
    BY <1>11 DEF ReadStlsOk, Reads
  <2>2. CASE Return("Io") /\ UNCHANGED <<stream, toServer, tried>>
    BY <1>11, <1>r, <2>1, <2>2, ReturnPlaced DEF ReadStlsOk
  <2>3. CASE stream' = "upgrading" /\ StartHandshake
    <3>1. call'.at = "handshake" /\ call'.op = call.op /\ tried' /\ client' = client
      BY <2>3 DEF StartHandshake, Typed
    <3> QED BY <1>11, <1>r, <2>1, <2>3, <3>1 DEF ReadStlsOk, Placed, Idle, Reading
  <2> QED BY <1>11, <2>2, <2>3 DEF ReadStlsOk
<1>12. CASE HandshakeDone
  <2>1. /\ ~Idle /\ client \in {"connecting", "open"} /\ stream \in {"none", "upgrading"}
        /\ stream' = "tls" /\ tried' = tried /\ builder' = builder
    BY <1>12 DEF HandshakeDone, Idle, Placed, Typed
  <2>2. CASE stream = "none"
    <3>1. call'.at = "greeting" /\ call'.op = call.op /\ client' = client
      BY <1>12, <2>2 DEF HandshakeDone, Typed
    <3> QED BY <2>1, <3>1 DEF Placed, Idle, Reading
  <2>3. CASE stream # "none"
    <3>1. Continue("STLS", "tls")
      BY <1>12, <2>3 DEF HandshakeDone
    <3>2. ASSUME NEW val, Return(val)
          PROVE  Placed'
      <4>1. call'.at = "none" /\ client' \in {"open", "dropped"}
        BY <3>2 DEF Return, NoCall
      <4> QED BY <2>1, <4>1 DEF Placed, Idle, Reading
    <3>3. After("STLS") # "probe"
      BY AfterFacts
    <3> QED BY <2>1, <3>1, <3>2, <3>3, ContinueFacts, GoPlaced
  <2> QED BY <2>2, <2>3
<1>13. CASE HandshakeFails
  <2>1. call'.at = "none" /\ Return("Tls") /\ stream' = stream /\ stream \in {"none", "upgrading"}
    BY <1>13 DEF HandshakeFails, Return, NoCall, Placed
  <2>2. client' = "dropped" \/ (client' = "open" /\ stream = "upgrading")
    BY <1>13, <2>1 DEF HandshakeFails, Return, Placed, Typed, Idle
  <2> QED BY <1>13, <2>1, <2>2 DEF HandshakeFails, Placed, Idle, Reading
<1>14. ASSUME NEW op \in Calls, Refuse(op)
       PROVE  Placed'
  BY <1>14 DEF Refuse, Placed, Idle, Reading
<1>15. ASSUME NEW op \in Calls, Begin(op)
       PROVE  Placed'
  <2>1. client = "open" /\ stream \notin {"none", "upgrading"}
    BY <1>15 DEF Begin, Refused, Placed
  <2>2. call'.op = op /\ call'.at \in Verbs
    BY <1>15 DEF Begin, Calls, Verbs
  <2> QED BY <1>15, <2>1, <2>2 DEF Begin, Placed, Typed, Idle, Reading, Verbs
<1>16. CASE Cancel
  <2>1. Return("Cancelled") /\ ~Idle /\ stream' = stream /\ tried' = tried /\ builder' = builder
    BY <1>16 DEF Cancel
  <2>2. CASE stream # "none"
    BY <2>1, <2>2, ReturnPlaced
  <2>3. CASE stream = "none"
    <3>1. call'.at = "none" /\ client' = "dropped"
      BY <2>1, <2>3 DEF Return, NoCall, Placed, Typed
    <3> QED BY <2>1, <2>3, <3>1 DEF Placed, Idle, Reading
  <2> QED BY <2>2, <2>3
<1>17. CASE DropClient
  BY <1>17 DEF DropClient, Placed, Idle, Reading
<1>18. CASE AcceptHello
  BY <1>18 DEF AcceptHello, Placed, Idle, Reading
<1>19. CASE Accept
  BY <1>19 DEF Accept, Placed, Idle, Reading
<1>20. CASE Reject \/ Lose
  BY <1>20 DEF Reject, Lose, Placed, Idle, Reading
<1>21. CASE Over \/ UNCHANGED vars
  BY <1>21 DEF Over, vars, Placed, Idle, Reading
<1> QED BY <1>1, <1>2, <1>3, <1>4, <1>5, <1>6, <1>7, <1>8, <1>9, <1>11, <1>12, <1>13,
           <1>14, <1>15, <1>16, <1>17, <1>18, <1>19, <1>20, <1>21 DEF Next, Read

LEMMA PlacedAlways == Spec => [](Typed /\ Placed)
<1>1. Typed /\ Placed /\ [Next]_vars => (Typed /\ Placed)'
  BY TypeStep, PlaceStep
<1> QED BY <1>1, InitPlaced, PTL DEF Spec

-----------------------------------------------------------------------------
(***************************************************************************)
(* What is written in clear.                                               *)
(***************************************************************************)

(* An operation that goes on exposes something only with a login in clear. *)
LEMMA ContinueExposes ==
  ASSUME Typed, NEW at, NEW layer, Continue(at, layer), exposed' # exposed
  PROVE  layer = "clear" /\ After(at) \in {"USER", "PASS", "APOP"}
<1>1. Go(After(at), layer)
  BY ContinueFacts DEF Return
<1>2. exposed' = (exposed \/ ((IF After(at) = "probe" THEN "CAPA" ELSE After(at)) \in Secrets
                               /\ layer = "clear"))
  BY <1>1 DEF Go, Write
<1> QED BY <1>2 DEF Secrets, Typed

(* A client that was to be encrypted, or whose upgrade was begun, writes no*)
(* name and no password in clear, however its connection was made.         *)
THEOREM LoginsAreEncrypted == Spec => SecretsStayPrivate
<1> USE DEF clientVars, streamVars, serverVars, history
<1>1. ASSUME Typed, Placed, Next, exposed' # exposed
      PROVE  builder.mode = "Plain" /\ ~tried
  <2>1. ASSUME stream = "plain", builder.mode # "StartTls"
        PROVE  builder.mode = "Plain" /\ ~tried
    BY <1>1, <2>1 DEF Typed, Placed, Modes
  <2>2. ASSUME Reading, Layer = "clear"
        PROVE  stream = "plain" /\ client \in {"connecting", "open"}
    BY <1>1, <2>2 DEF Placed, Layer, Typed, Reading, Idle
  <2>3. CASE ReadGreeting
    <3>1. Reading /\ Continue("greeting", Layer)
      BY <2>3 DEF ReadGreeting, Reads
    <3>2. Layer = "clear" /\ After("greeting") # "STLS"
      BY <1>1, <3>1, ContinueExposes
    <3> QED BY <2>1, <2>2, <3>1, <3>2, AfterFacts
  <2>4. CASE ReadLogin
    <3>1. Reading /\ Continue(call.at, Layer) /\ call.at \in Secrets \cup {"probe"}
      BY <2>4 DEF ReadLogin, Reads
    <3>2. Layer = "clear"
      BY <1>1, <3>1, ContinueExposes
    <3> QED BY <1>1, <2>1, <2>2, <3>1, <3>2 DEF Placed, Secrets
  <2>5. ASSUME HandshakeDone
        PROVE  FALSE
    <3>1. stream # "none" /\ Continue("STLS", "tls")
      BY <1>1, <2>5 DEF HandshakeDone
    <3> QED BY <1>1, <3>1, ContinueExposes
  <2>6. ASSUME NEW op \in Calls, Begin(op)
        PROVE  builder.mode = "Plain" /\ ~tried
    <3>1. client = "open" /\ stream \notin {"none", "upgrading"} /\ Layer = "clear"
      BY <1>1, <2>6 DEF Begin, Write, Refused, Placed, Typed
    <3> QED BY <1>1, <2>1, <3>1 DEF Placed, Layer, Typed
  <2>7. /\ ~ReadSimple /\ ~ReadErr /\ ~ReadEof /\ ~TimeOut /\ ~ReadStlsOk
    BY <1>1, GivesUp DEF ReadSimple, ReadErr, ReadStlsOk, Return, StartHandshake
  <2>8. /\ \A m \in Modes, a \in Auths, p \in Ports :
             ~Configure([mode |-> m, auth |-> a, port |-> p])
        /\ \A op \in Connects : ~Connect(op)
        /\ \A op \in Calls : ~Refuse(op)
        /\ ~TcpConnected /\ ~TcpFails /\ ~HandshakeFails /\ ~Cancel /\ ~DropClient
    BY <1>1 DEF Configure, Connect, Refuse, TcpConnected, TcpFails, HandshakeFails,
                Cancel, DropClient, Return
  <2>9. ~AcceptHello /\ ~Accept /\ ~Reject /\ ~Lose /\ ~Over
    BY <1>1 DEF AcceptHello, Accept, Reject, Lose, Over, vars
  <2> QED BY <1>1, <2>3, <2>4, <2>5, <2>6, <2>7, <2>8, <2>9 DEF Next, Read
<1>2. Typed /\ Placed /\ [Next]_vars
        => [exposed' # exposed => builder.mode = "Plain" /\ ~tried]_vars
  BY <1>1
<1> QED BY <1>2, PlacedAlways, PTL DEF Spec, SecretsStayPrivate

(* Once a handshake was begun, an operation succeeds on a TLS stream only: *)
(* after a handshake that failed or was cancelled, on none.                *)
THEOREM FailedUpgradeStaysFailed == Spec => FailedUpgradeIsFinal
<1> USE DEF clientVars, streamVars, serverVars, history
<1>1. ASSUME Typed, Placed, Next, tried, ret' # ret, ret'.val = "Ok"
      PROVE  stream' = "tls"
  <2>1. ASSUME Reading, stream' = stream
        PROVE  stream' = "tls"
    BY <1>1, <2>1 DEF Placed
  <2>2. CASE ReadGreeting \/ ReadLogin \/ ReadSimple \/ ReadErr \/ ReadEof \/ TimeOut
    <3>1. Reading /\ stream' = stream
      BY <2>2 DEF ReadGreeting, ReadLogin, ReadSimple, ReadErr, ReadEof, TimeOut, Reads
    <3> QED BY <2>1, <3>1
  <2>3. CASE HandshakeDone
    BY <2>3 DEF HandshakeDone
  <2>4. ~ReadStlsOk /\ ~TcpFails /\ ~HandshakeFails /\ ~Cancel
    <3>1. ASSUME NEW val, Return(val)
          PROVE  val = "Ok"
      BY <1>1, <3>1 DEF Return
    <3>2. ~StartHandshake
      BY <1>1 DEF StartHandshake
    <3>3. ~TcpFails
      BY <3>1 DEF TcpFails
    <3> QED BY <3>1, <3>2, <3>3 DEF ReadStlsOk, HandshakeFails, Cancel
  <2>5. \A op \in Calls : ~Refuse(op) /\ ~Begin(op)
    <3>1. ASSUME NEW op \in Calls, Refuse(op)
          PROVE  FALSE
      BY <1>1, <3>1 DEF Refuse
    <3>2. ASSUME NEW op \in Calls, Begin(op)
          PROVE  FALSE
      <4>1. ret' = [op |-> op, val |-> "none"]
        BY <3>2 DEF Begin
      <4> QED BY <1>1, <4>1
    <3> QED BY <3>1, <3>2
  <2>6. /\ \A m \in Modes, a \in Auths, p \in Ports :
             ~Configure([mode |-> m, auth |-> a, port |-> p])
        /\ \A op \in Connects : ~Connect(op)
        /\ ~TcpConnected /\ ~DropClient
    BY <1>1 DEF Configure, Connect, TcpConnected, DropClient
  <2>7. ~AcceptHello /\ ~Accept /\ ~Reject /\ ~Lose /\ ~Over
    BY <1>1 DEF AcceptHello, Accept, Reject, Lose, Over, vars
  <2> QED BY <1>1, <2>2, <2>3, <2>4, <2>5, <2>6, <2>7 DEF Next, Read
<1>2. Typed /\ Placed /\ [Next]_vars
        => [tried /\ ret' # ret /\ ret'.val = "Ok" => stream' = "tls"]_vars
  BY <1>1
<1> QED BY <1>2, PlacedAlways, PTL DEF Spec, FailedUpgradeIsFinal

-----------------------------------------------------------------------------
(***************************************************************************)
(* What is read.  The lines of a connection are in clear up to the answer  *)
(* to a ClientHello, and in TLS from there on; on a plain stream there is  *)
(* no such answer, and a TLS stream begins after it, with an empty buffer. *)
(***************************************************************************)
LineOf(layers) == {l \in Lines(layers) : l.kind = "hello" => l.layer = "tls"}

(* No ClientHello among commands; clear lines before those in TLS.         *)
NoHello(q) == \A i \in 1 .. Len(q) : q[i].verb # "hello"
Sorted(q)  == \A i, j \in 1 .. Len(q) : i <= j /\ q[i].layer = "tls" => q[j].layer = "tls"

Layered ==
  /\ toServer \in Seq(Command)
  /\ call.at # "handshake" \/ speaks = "tls" => NoHello(toServer)
  /\ \A i \in 1 .. Len(toServer) : toServer[i].verb = "hello" => i = Len(toServer)
  /\ wire \in Seq(LineOf({"clear", "tls"})) /\ Sorted(wire)
  /\ buffer \in Seq(LineOf({"clear", "tls"}))
  /\ speaks # "tls" => wire \in Seq(LineOf({"clear"}))
  /\ stream = "plain" => speaks # "tls" /\ buffer \in Seq(LineOf({"clear"}))
  /\ stream = "tls" => /\ speaks = "tls"
                       /\ wire \in Seq(LineOf({"tls"})) /\ buffer \in Seq(LineOf({"tls"}))
  /\ stream = "none" \/ call.at = "handshake" => buffer = <<>>
  /\ ~carried

LEMMA LineFacts ==
  /\ \A x \in {"clear", "tls"} : \A l \in LineOf({x}) : l \in LineOf({"clear", "tls"}) /\ l.layer = x
  /\ \A x \in {"clear", "tls"} : \A q \in Seq(LineOf({x})) :
       q \in Seq(LineOf({"clear", "tls"})) /\ Sorted(q)
<1>1. ASSUME NEW x \in {"clear", "tls"}, NEW l \in LineOf({x})
      PROVE  l \in LineOf({"clear", "tls"}) /\ l.layer = x
  BY DEF LineOf, Lines
<1>2. ASSUME NEW x \in {"clear", "tls"}, NEW q \in Seq(LineOf({x}))
      PROVE  q \in Seq(LineOf({"clear", "tls"})) /\ Sorted(q)
  <2>1. \A i \in 1 .. Len(q) : q[i] \in LineOf({x})
    OBVIOUS
  <2>2. \A i \in 1 .. Len(q) : q[i] \in LineOf({"clear", "tls"}) /\ q[i].layer = x
    BY <1>1, <2>1
  <2>3. q \in Seq(LineOf({"clear", "tls"}))
    BY <2>2
  <2> QED BY <2>2, <2>3 DEF Sorted
<1> QED BY <1>1, <1>2

(* The queue of a line that is read, and the queues after it.              *)
LEMMA ReadFacts ==
  ASSUME NEW S, buffer \in Seq(S), wire \in Seq(S), NEW r \in NextReads,
         wire # <<>> \/ buffer # <<>>
  PROVE  r.line \in S /\ r.rest \in Seq(S) /\ r.wire \in Seq(S)
<1>1. CASE buffer # <<>>
  BY <1>1 DEF NextReads
<1>2. CASE buffer = <<>>
  <2>1. PICK n \in 1 .. Len(wire) :
          r = [line |-> wire[1], rest |-> SubSeq(wire, 2, n), wire |-> SubSeq(wire, n + 1, Len(wire))]
    BY <1>2 DEF NextReads
  <2>2. wire[1] \in S
    BY <1>2
  <2>3. SubSeq(wire, 2, n) \in Seq(S) /\ SubSeq(wire, n + 1, Len(wire)) \in Seq(S)
    OBVIOUS
  <2> QED BY <2>1, <2>2, <2>3
<1> QED BY <1>1, <1>2

(* On a stream that can be read, everything is of its layer.               *)
LEMMA UniformLayer ==
  ASSUME Typed, Placed, Layered, Reading
  PROVE  /\ Layer \in {"clear", "tls"} /\ Layer = (IF stream = "plain" THEN "clear" ELSE "tls")
         /\ stream \in {"plain", "tls"} /\ call.at # "handshake"
         /\ wire \in Seq(LineOf({Layer})) /\ buffer \in Seq(LineOf({Layer}))
BY DEF Placed, Layered, Layer, Reading

(* A step of an operation on such a stream: it may read a line, and write a*)
(* command.                                                                *)
LEMMA KeepLayered ==
  ASSUME Typed, Placed, Layered, Reading,
         stream' = stream, speaks' = speaks, call'.at # "handshake",
         \/ wire' = wire /\ buffer' = buffer /\ carried' = carried
         \/ \E r \in NextReads : Reads(r),
         \/ toServer' = toServer
         \/ \E c \in Command : c.verb # "hello" /\ toServer' = Append(toServer, c)
  PROVE  Layered'
<1>1. /\ Layer \in {"clear", "tls"} /\ Layer = (IF stream = "plain" THEN "clear" ELSE "tls")
      /\ stream \in {"plain", "tls"} /\ call.at # "handshake"
      /\ wire \in Seq(LineOf({Layer})) /\ buffer \in Seq(LineOf({Layer}))
  BY UniformLayer
<1>2. wire' \in Seq(LineOf({Layer})) /\ buffer' \in Seq(LineOf({Layer})) /\ ~carried'
  <2>1. CASE wire' = wire /\ buffer' = buffer /\ carried' = carried
    BY <1>1, <2>1 DEF Layered
  <2>2. ASSUME NEW r \in NextReads, Reads(r)
        PROVE  wire' \in Seq(LineOf({Layer})) /\ buffer' \in Seq(LineOf({Layer})) /\ ~carried'
    <3>1. wire # <<>> \/ buffer # <<>>
      BY DEF NextReads
    <3>2. r.line \in LineOf({Layer}) /\ r.rest \in Seq(LineOf({Layer})) /\ r.wire \in Seq(LineOf({Layer}))
      BY <1>1, <3>1, ReadFacts
    <3>3. r.line.layer = Layer
      BY <1>1, <3>2, LineFacts
    <3> QED BY <2>2, <3>2, <3>3 DEF Reads, Layered
  <2> QED BY <2>1, <2>2
<1>3. toServer' \in Seq(Command) /\ NoHello(toServer')
  <2>1. toServer \in Seq(Command) /\ NoHello(toServer)
    BY <1>1 DEF Layered
  <2>2. ASSUME NEW c \in Command, c.verb # "hello", toServer' = Append(toServer, c)
        PROVE  toServer' \in Seq(Command) /\ NoHello(toServer')
    BY <2>1, <2>2 DEF NoHello
  <2> QED BY <2>1, <2>2
<1>4. /\ wire' \in Seq(LineOf({"clear", "tls"})) /\ Sorted(wire')
      /\ buffer' \in Seq(LineOf({"clear", "tls"}))
  BY <1>1, <1>2, LineFacts
<1>5. stream = "plain" => speaks # "tls"
  BY DEF Layered
<1>6. stream = "tls" => speaks = "tls"
  BY DEF Layered
<1> QED BY <1>1, <1>2, <1>3, <1>4, <1>5, <1>6 DEF Layered, NoHello

(* What is written there is a command and no ClientHello.                  *)
LEMMA WriteFacts ==
  ASSUME Typed, NEW verb \in Verbs, NEW layer \in {"clear", "tls"}, Write(verb, layer)
  PROVE  \/ toServer' = toServer
         \/ \E c \in Command : c.verb # "hello" /\ toServer' = Append(toServer, c)
<1> DEFINE c == [id |-> nextId, verb |-> verb, layer |-> layer]
<1>1. c \in Command /\ c.verb # "hello"
  BY DEF Command, Typed, Verbs
<1>2. toServer' = toServer \/ toServer' = Append(toServer, c)
  BY DEF Write
<1> QED BY <1>1, <1>2

LEMMA ContinueWrites ==
  ASSUME Typed, NEW at, NEW layer \in {"clear", "tls"}, Continue(at, layer)
  PROVE  /\ \/ toServer' = toServer
            \/ \E c \in Command : c.verb # "hello" /\ toServer' = Append(toServer, c)
         /\ call'.at # "handshake"
<1>1. ASSUME NEW val, Return(val)
      PROVE  call'.at # "handshake"
  BY <1>1 DEF Return, NoCall
<1>2. ASSUME NEW verb \in {"STLS", "USER", "APOP", "PASS", "probe"}, Go(verb, layer)
      PROVE  /\ \/ toServer' = toServer
                \/ \E c \in Command : c.verb # "hello" /\ toServer' = Append(toServer, c)
             /\ call'.at # "handshake"
  <2>1. (IF verb = "probe" THEN "CAPA" ELSE verb) \in Verbs
    BY DEF Verbs
  <2>2. Write(IF verb = "probe" THEN "CAPA" ELSE verb, layer)
    BY <1>2 DEF Go
  <2> QED BY <1>2, <2>1, <2>2, WriteFacts, GoTyped
<1> QED BY <1>1, <1>2, ContinueFacts

(* The server says something more, on the layer it speaks.                 *)
LEMMA AppendLayered ==
  ASSUME Typed, Placed, Layered, NEW q \in Seq(LineOf({speaks})), speaks \in {"clear", "tls"},
         wire' = wire \o q, toServer' = Tail(toServer) \/ toServer' = <<>>, toServer # <<>>,
         speaks' = speaks \/ (speaks = "clear" /\ speaks' = "starting"),
         UNCHANGED <<call, stream, buffer, carried>>
  PROVE  Layered'
<1>1. /\ q \in Seq(LineOf({"clear", "tls"})) /\ Sorted(q)
      /\ \A i \in 1 .. Len(q) : q[i].layer = speaks
  <2>1. \A i \in 1 .. Len(q) : q[i] \in LineOf({speaks})
    OBVIOUS
  <2>2. \A i \in 1 .. Len(q) : q[i].layer = speaks
    BY <2>1, LineFacts
  <2> QED BY <2>2, LineFacts
<1>2. wire \in Seq(LineOf({"clear", "tls"})) /\ Sorted(wire)
  BY DEF Layered
<1>3. wire' \in Seq(LineOf({"clear", "tls"}))
  BY <1>1, <1>2
<1>4. Sorted(wire')
  <2>1. CASE speaks = "tls"
    <3>1. \A i \in 1 .. Len(wire') : \/ i \in 1 .. Len(wire) /\ wire'[i] = wire[i]
                                     \/ i > Len(wire) /\ wire'[i].layer = "tls"
      <4> SUFFICES ASSUME NEW i \in 1 .. Len(wire')
                   PROVE  \/ i \in 1 .. Len(wire) /\ wire'[i] = wire[i]
                          \/ i > Len(wire) /\ wire'[i].layer = "tls"
        OBVIOUS
      <4>1. CASE i <= Len(wire)
        BY <1>1, <1>2, <4>1
      <4>2. CASE i > Len(wire)
        <5>1. i - Len(wire) \in 1 .. Len(q) /\ wire'[i] = q[i - Len(wire)]
          BY <1>1, <1>2, <4>2
        <5> QED BY <1>1, <2>1, <4>2, <5>1
      <4> QED BY <1>2, <4>1, <4>2
    <3> QED BY <1>2, <3>1 DEF Sorted
  <2>2. CASE speaks = "clear"
    <3>1. wire' \in Seq(LineOf({"clear"}))
      BY <2>2 DEF Layered
    <3> QED BY <3>1, LineFacts
  <2> QED BY <2>1, <2>2
<1>5. ASSUME speaks' # "tls"
      PROVE  wire' \in Seq(LineOf({"clear"}))
  <2>1. speaks = "clear"
    BY <1>5
  <2>2. wire \in Seq(LineOf({"clear"})) /\ q \in Seq(LineOf({"clear"}))
    BY <2>1 DEF Layered
  <2> QED BY <2>2
<1>6. ASSUME stream = "tls"
      PROVE  speaks' = "tls" /\ wire' \in Seq(LineOf({"tls"}))
  <2>1. speaks = "tls" /\ wire \in Seq(LineOf({"tls"}))
    BY <1>6 DEF Layered
  <2> QED BY <2>1
<1>7. /\ toServer' \in Seq(Command)
      /\ call.at # "handshake" \/ speaks' = "tls" => NoHello(toServer')
      /\ \A i \in 1 .. Len(toServer') : toServer'[i].verb = "hello" => i = Len(toServer')
  <2>1. CASE toServer' = <<>>
    BY <2>1 DEF NoHello
  <2>2. CASE toServer' = Tail(toServer)
    <3>1. /\ toServer \in Seq(Command)
          /\ call.at # "handshake" \/ speaks = "tls" => NoHello(toServer)
          /\ \A i \in 1 .. Len(toServer) : toServer[i].verb = "hello" => i = Len(toServer)
      BY DEF Layered
    <3>2. /\ toServer' \in Seq(Command) /\ Len(toServer') = Len(toServer) - 1
          /\ \A i \in 1 .. Len(toServer') : /\ toServer'[i] = toServer[i + 1]
                                            /\ i + 1 \in 1 .. Len(toServer)
      BY <2>2, <3>1
    <3>3. ASSUME NEW i \in 1 .. Len(toServer'), toServer'[i].verb = "hello"
          PROVE  i = Len(toServer')
      BY <3>1, <3>2, <3>3
    <3> QED BY <3>1, <3>2, <3>3 DEF NoHello
  <2> QED BY <2>1, <2>2
<1>8. stream = "plain" => speaks' # "tls" /\ buffer \in Seq(LineOf({"clear"}))
  BY DEF Layered
<1> QED BY <1>3, <1>4, <1>5, <1>6, <1>7, <1>8 DEF Layered, NoHello

LEMMA ShortSeqs ==
  \A S : <<>> \in Seq(S) /\ \A x, y \in S : <<x>> \in Seq(S) /\ <<x, y>> \in Seq(S)
OBVIOUS

LEMMA InitLayered == Init => Layered
<1> SUFFICES ASSUME Init
             PROVE  Layered
  OBVIOUS
<1>1. /\ toServer = <<>> /\ wire = <<>> /\ buffer = <<>> /\ speaks = "clear"
      /\ stream = "none" /\ carried = FALSE
  BY DEF Init
<1> QED BY <1>1 DEF Layered, NoHello, Sorted

(* STLS is sent on a plain stream only, and answered there.                *)
OnPlain ==
  /\ encrypted <=> stream = "tls"
  /\ call.at = "STLS" => stream = "plain"
  /\ call.at = "greeting" /\ builder.mode = "StartTls" => stream = "plain"
  /\ call.at = "handshake" /\ stream = "none" => builder.mode = "Tls"

LEMMA OnPlainStep == Typed /\ Placed /\ OnPlain /\ [Next]_vars => OnPlain'
<1> SUFFICES ASSUME Typed, Placed, OnPlain, [Next]_vars
             PROVE  OnPlain'
  OBVIOUS
<1> USE DEF clientVars, streamVars, serverVars, history
<1>r. ASSUME NEW val, Return(val)
      PROVE  call'.at = "none"
  BY <1>r DEF Return, NoCall
<1>s. ASSUME UNCHANGED <<encrypted, stream>>, call'.at = "none" \/ UNCHANGED <<call, builder>>
      PROVE  OnPlain'
  BY <1>s DEF OnPlain
<1>c. ASSUME NEW at, NEW layer, Continue(at, layer)
      PROVE  \/ call'.at \in {"none", "USER", "APOP", "PASS", "probe"}
             \/ call'.at = "STLS" /\ at = "greeting" /\ builder.mode = "StartTls"
  <2>1. ASSUME NEW verb \in {"STLS", "USER", "APOP", "PASS", "probe"}, Go(verb, layer)
        PROVE  call'.at = verb
    BY <2>1, GoTyped
  <2> QED BY <1>c, <1>r, <2>1, AfterFacts, ContinueFacts
<1>1. ASSUME NEW m \in Modes, NEW a \in Auths, NEW p \in Ports,
             Configure([mode |-> m, auth |-> a, port |-> p])
      PROVE  OnPlain'
  BY <1>1 DEF Configure, OnPlain, Placed, Idle
<1>2. ASSUME NEW op \in Connects, Connect(op)
      PROVE  OnPlain'
  <2>1. call'.at = "tcp"
    BY <1>2 DEF Connect, NoCall
  <2> QED BY <1>2, <2>1 DEF Connect, OnPlain
<1>3. CASE TcpConnected
  <2>1. stream = "none" /\ encrypted' = encrypted /\ builder' = builder
    BY <1>3 DEF TcpConnected, Placed
  <2>2. CASE builder.mode = "Tls"
    <3>1. call'.at = "handshake" /\ stream' = stream
      BY <1>3, <2>2 DEF TcpConnected, Typed
    <3> QED BY <2>1, <2>2, <3>1 DEF OnPlain
  <2>3. CASE builder.mode # "Tls"
    <3>1. call'.at = "greeting" /\ stream' = "plain"
      BY <1>3, <2>3 DEF TcpConnected, Typed
    <3> QED BY <2>1, <2>3, <3>1 DEF OnPlain
  <2> QED BY <2>2, <2>3
<1>4. CASE TcpFails
  BY <1>4, <1>r, <1>s DEF TcpFails
<1>5. CASE ReadGreeting
  <2>1. /\ call.at = "greeting" /\ Continue("greeting", Layer)
        /\ UNCHANGED <<stream, encrypted, builder>>
    BY <1>5 DEF ReadGreeting
  <2> QED BY <1>c, <2>1 DEF OnPlain
<1>6. CASE ReadLogin
  <2>1. /\ call.at \in Secrets \cup {"probe"} /\ Continue(call.at, Layer)
        /\ UNCHANGED <<stream, encrypted, builder>>
    BY <1>6 DEF ReadLogin
  <2> QED BY <1>c, <2>1 DEF OnPlain, Secrets
<1>7. CASE ReadSimple \/ ReadErr \/ ReadEof \/ TimeOut
  BY <1>7, <1>r, <1>s, GivesUp DEF ReadSimple, ReadErr
<1>8. CASE ReadStlsOk
  <2>1. stream = "plain" /\ encrypted' = encrypted /\ builder' = builder
    BY <1>8 DEF ReadStlsOk, OnPlain
  <2>2. CASE Return("Io") /\ UNCHANGED <<stream, toServer, tried>>
    BY <1>r, <1>s, <2>1, <2>2
  <2>3. CASE stream' = "upgrading" /\ StartHandshake
    <3>1. call'.at = "handshake"
      BY <2>3 DEF StartHandshake, Typed
    <3> QED BY <2>1, <2>3, <3>1 DEF OnPlain
  <2> QED BY <1>8, <2>2, <2>3 DEF ReadStlsOk
<1>9. CASE HandshakeDone
  <2>1. stream' = "tls" /\ encrypted' /\ builder' = builder /\ call.at = "handshake"
    BY <1>9 DEF HandshakeDone
  <2>2. CASE stream = "none"
    <3>1. call'.at = "greeting" /\ builder.mode = "Tls"
      BY <1>9, <2>2 DEF HandshakeDone, Typed, OnPlain
    <3> QED BY <2>1, <3>1 DEF OnPlain
  <2>3. CASE stream # "none"
    BY <1>9, <1>c, <2>1, <2>3 DEF HandshakeDone, OnPlain
  <2> QED BY <2>2, <2>3
<1>10. CASE HandshakeFails
  BY <1>10, <1>r, <1>s DEF HandshakeFails
<1>11. ASSUME NEW op \in Calls, Refuse(op)
       PROVE  OnPlain'
  BY <1>11, <1>s DEF Refuse
<1>12. ASSUME NEW op \in Calls, Begin(op)
       PROVE  OnPlain'
  <2>1. call'.at = IF op = "LOGIN" THEN "USER" ELSE op
    BY <1>12 DEF Begin
  <2>2. op = "STLS" => stream = "plain"
    BY <1>12 DEF Begin, Refused, Typed, Placed, OnPlain
  <2> QED BY <1>12, <2>1, <2>2 DEF Begin, OnPlain, Calls
<1>13. CASE Cancel
  BY <1>13, <1>r, <1>s DEF Cancel
<1>14. CASE DropClient \/ AcceptHello \/ Accept \/ Reject \/ Lose \/ Over \/ UNCHANGED vars
  BY <1>14, <1>s DEF DropClient, AcceptHello, Accept, Reject, Lose, Over, vars
<1> QED BY <1>1, <1>2, <1>3, <1>4, <1>5, <1>6, <1>7, <1>8, <1>9, <1>10, <1>11, <1>12, <1>13,
           <1>14 DEF Next, Read

LEMMA LayerStep == Typed /\ Placed /\ OnPlain /\ Layered /\ [Next]_vars => Layered'
<1> SUFFICES ASSUME Typed, Placed, OnPlain, Layered, [Next]_vars
             PROVE  Layered'
  OBVIOUS
<1> USE DEF clientVars, streamVars, serverVars, history
<1>r. ASSUME NEW val, Return(val)
      PROVE  call'.at = "none"
  BY <1>r DEF Return, NoCall
<1>l. Reading => Layer \in {"clear", "tls"}
  BY UniformLayer
<1>1. CASE UNCHANGED <<call, stream, buffer, wire, toServer, speaks, carried>>
  BY <1>1 DEF Layered, NoHello, Sorted
<1>2. ASSUME NEW op \in Connects, Connect(op)
      PROVE  Layered'
  <2>1. call'.at = "tcp" /\ call.at # "handshake"
    BY <1>2 DEF Connect, NoCall, Placed, Idle
  <2> QED BY <1>2, <2>1 DEF Connect, Layered, NoHello, Sorted
<1>3. CASE TcpConnected
  <2>1. /\ call.at # "handshake" /\ stream = "none" /\ buffer' = <<>> /\ ~carried'
        /\ speaks' \in {"clear", "starting"} /\ stream' \in {"none", "plain"}
    BY <1>3 DEF TcpConnected, Layered, Placed
  <2>2. wire' \in Seq(LineOf({"clear"}))
    <3>1. \A kind \in {"ok", "err"} : [of |-> 0, layer |-> "clear", kind |-> kind] \in LineOf({"clear"})
      BY DEF LineOf, Lines
    <3>2. PICK kind \in {"ok", "err"} :
             wire' = IF EffectivePort = TlsPort THEN <<>>
                     ELSE <<[of |-> 0, layer |-> "clear", kind |-> kind]>>
      BY <1>3 DEF TcpConnected
    <3> DEFINE l == [of |-> 0, layer |-> "clear", kind |-> kind]
    <3>3. l \in LineOf({"clear"}) /\ wire' \in {<<>>, <<l>>}
      BY <3>1, <3>2
    <3> HIDE DEF l
    <3> QED BY <3>3, ShortSeqs
  <2>3. /\ toServer' \in Seq(Command)
        /\ call'.at # "handshake" => NoHello(toServer')
        /\ \A i \in 1 .. Len(toServer') : toServer'[i].verb = "hello" => i = Len(toServer')
    <3>1. Hello \in Command
      BY DEF Hello, Command
    <3>2. CASE builder.mode = "Tls"
      <4>1. call'.at = "handshake" /\ toServer' = <<Hello>>
        BY <1>3, <3>2 DEF TcpConnected, Typed
      <4> QED BY <3>1, <4>1
    <3>3. CASE builder.mode # "Tls"
      BY <1>3, <2>1, <3>3 DEF TcpConnected, Layered, NoHello
    <3> QED BY <3>2, <3>3
  <2>4. wire' \in Seq(LineOf({"clear", "tls"})) /\ Sorted(wire')
    BY <2>2, LineFacts
  <2> QED BY <2>1, <2>2, <2>3, <2>4 DEF Layered, NoHello
<1>4. CASE TcpFails
  <2>1. call'.at = "none" /\ stream = "none" /\ call.at # "handshake"
    BY <1>4, <1>r DEF TcpFails, Placed
  <2> QED BY <1>4, <2>1 DEF TcpFails, Layered, NoHello, Sorted
<1>5. CASE ReadGreeting
  <2>1. /\ Reading /\ Continue("greeting", Layer) /\ UNCHANGED <<stream, speaks>>
        /\ \E r \in NextReads : Reads(r)
    BY <1>5 DEF ReadGreeting, Reads
  <2> QED BY <1>l, <2>1, ContinueWrites, KeepLayered
<1>6. CASE ReadLogin
  <2>1. /\ Reading /\ Continue(call.at, Layer) /\ UNCHANGED <<stream, speaks>>
        /\ \E r \in NextReads : Reads(r)
    BY <1>6 DEF ReadLogin, Reads
  <2> QED BY <1>l, <2>1, ContinueWrites, KeepLayered
<1>7. CASE ReadSimple \/ ReadErr
  <2>1. /\ Reading /\ (\E val : Return(val)) /\ UNCHANGED <<stream, speaks, toServer>>
        /\ \E r \in NextReads : Reads(r)
    BY <1>7 DEF ReadSimple, ReadErr, Reads
  <2> QED BY <1>r, <2>1, KeepLayered
<1>8. CASE ReadEof \/ TimeOut
  <2>1. /\ Reading /\ (\E val : Return(val))
        /\ UNCHANGED <<stream, speaks, toServer, wire, buffer, carried>>
    BY <1>8, GivesUp DEF ReadEof, TimeOut
  <2> QED BY <1>r, <2>1, KeepLayered
<1>9. CASE ReadStlsOk
  <2>1. PICK r \in NextReads : Reads(r)
    BY <1>9 DEF ReadStlsOk
  <2>2. Reading /\ speaks' = speaks
    BY <1>9, <2>1 DEF ReadStlsOk, Reads
  <2>3. CASE Return("Io") /\ UNCHANGED <<stream, toServer, tried>>
    BY <1>r, <2>1, <2>2, <2>3, KeepLayered
  <2>4. CASE stream' = "upgrading" /\ StartHandshake /\ buffer' = <<>>
    <3>1. /\ Layer \in {"clear", "tls"} /\ call.at # "handshake"
          /\ wire \in Seq(LineOf({Layer})) /\ buffer \in Seq(LineOf({Layer}))
      BY <2>2, UniformLayer
    <3>2. r.line \in LineOf({Layer}) /\ r.wire \in Seq(LineOf({Layer}))
      <4>1. wire # <<>> \/ buffer # <<>>
        BY DEF NextReads
      <4> QED BY <3>1, <4>1, ReadFacts
    <3>3. wire' = r.wire /\ ~carried'
      BY <2>1, <3>1, <3>2, LineFacts DEF Reads, Layered
    <3>4. speaks # "tls" => Layer = "clear"
      BY <2>2, UniformLayer DEF Layered
    <3>5. toServer' = toServer \/ toServer' = Append(toServer, Hello)
      BY <2>4 DEF StartHandshake
    <3>6. call'.at = "handshake" /\ Hello \in Command
      BY <2>4 DEF StartHandshake, Typed, Hello, Command
    <3>7. toServer \in Seq(Command) /\ NoHello(toServer)
      BY <3>1 DEF Layered
    <3>8. /\ toServer' \in Seq(Command)
          /\ \A i \in 1 .. Len(toServer') : toServer'[i].verb = "hello" => i = Len(toServer')
      BY <3>5, <3>6, <3>7 DEF NoHello
    <3>9. wire' \in Seq(LineOf({"clear", "tls"})) /\ Sorted(wire')
      BY <3>1, <3>2, <3>3, LineFacts
    <3>10. stream = "plain"
      BY <2>2, UniformLayer, <1>9 DEF ReadStlsOk, OnPlain
    <3>11. speaks # "tls"
      BY <3>10 DEF Layered
    <3> QED BY <2>2, <2>4, <3>2, <3>3, <3>4, <3>6, <3>8, <3>9, <3>11 DEF Layered
  <2> QED BY <1>9, <2>3, <2>4 DEF ReadStlsOk
<1>10. CASE HandshakeDone
  <2>1. /\ call.at = "handshake" /\ buffer = <<>> /\ buffer' = <<>> /\ stream' = "tls"
        /\ wire # <<>> /\ wire[1].kind = "hello" /\ wire' = Tail(wire)
        /\ speaks' = speaks /\ carried' = carried
    BY <1>10 DEF HandshakeDone, Layered
  <2>2. wire \in Seq(LineOf({"clear", "tls"})) /\ Sorted(wire) /\ 1 \in 1 .. Len(wire)
    BY <2>1 DEF Layered
  <2>3. wire[1] \in LineOf({"clear", "tls"})
    BY <2>2
  <2>4. wire[1].layer = "tls"
    BY <2>1, <2>3 DEF LineOf
  <2>5. \A i \in 1 .. Len(wire) : wire[i].layer = "tls"
    BY <2>2, <2>4 DEF Sorted
  <2>6. \A i \in 1 .. Len(wire) : wire[i] \in LineOf({"tls"})
    BY <2>2, <2>5 DEF LineOf, Lines
  <2>7. wire \in Seq(LineOf({"tls"}))
    BY <2>2, <2>6
  <2>8. wire' \in Seq(LineOf({"tls"})) /\ buffer' \in Seq(LineOf({"tls"}))
    BY <2>1, <2>7
  <2>9. speaks = "tls"
    <3>1. wire[1] \notin LineOf({"clear"})
      BY <2>4, LineFacts
    <3> QED BY <2>2, <3>1 DEF Layered
  <2>10. /\ toServer \in Seq(Command) /\ NoHello(toServer) /\ ~carried
    BY <2>9 DEF Layered
  <2>11. /\ call'.at # "handshake"
         /\ \/ toServer' = toServer
            \/ \E c \in Command : c.verb # "hello" /\ toServer' = Append(toServer, c)
    <3>1. CASE stream = "none"
      BY <1>10, <3>1 DEF HandshakeDone, Typed
    <3>2. CASE stream # "none"
      BY <1>10, <3>2, ContinueWrites DEF HandshakeDone
    <3> QED BY <3>1, <3>2
  <2>12. toServer' \in Seq(Command) /\ NoHello(toServer')
    <3>1. ASSUME NEW c \in Command, c.verb # "hello", toServer' = Append(toServer, c)
          PROVE  toServer' \in Seq(Command) /\ NoHello(toServer')
      BY <2>10, <3>1 DEF NoHello
    <3> QED BY <2>10, <2>11, <3>1
  <2>13. /\ wire' \in Seq(LineOf({"clear", "tls"})) /\ Sorted(wire')
         /\ buffer' \in Seq(LineOf({"clear", "tls"}))
    BY <2>8, LineFacts
  <2> QED BY <2>1, <2>8, <2>9, <2>10, <2>11, <2>12, <2>13 DEF Layered, NoHello
<1>11. CASE HandshakeFails
  <2>1. /\ call'.at = "none" /\ toServer' = <<>> /\ wire' = <<>>
        /\ stream \notin {"plain", "tls"} /\ UNCHANGED <<stream, buffer, speaks, carried>>
        /\ call.at = "handshake"
    BY <1>11, <1>r DEF HandshakeFails, Placed
  <2> QED BY <2>1 DEF Layered, NoHello, Sorted
<1>12. ASSUME NEW op \in Calls, Refuse(op)
       PROVE  Layered'
  BY <1>1, <1>12 DEF Refuse
<1>13. ASSUME NEW op \in Calls, Begin(op)
       PROVE  Layered'
  <2>1. /\ call.at # "handshake" /\ call'.at # "handshake"
        /\ UNCHANGED <<stream, buffer, wire, speaks, carried>>
    BY <1>13 DEF Begin, Calls, Idle
  <2>2. Write(IF op = "LOGIN" THEN "USER" ELSE op, Layer)
    BY <1>13 DEF Begin
  <2>3. Layer \in {"clear", "tls"} /\ (IF op = "LOGIN" THEN "USER" ELSE op) \in Verbs
    BY DEF Layer, Calls, Verbs
  <2>4. \/ toServer' = toServer
        \/ \E c \in Command : c.verb # "hello" /\ toServer' = Append(toServer, c)
    BY <2>2, <2>3, WriteFacts
  <2>5. toServer' \in Seq(Command) /\ NoHello(toServer')
    <3>1. toServer \in Seq(Command) /\ NoHello(toServer)
      BY <2>1 DEF Layered
    <3>2. ASSUME NEW c \in Command, c.verb # "hello", toServer' = Append(toServer, c)
          PROVE  toServer' \in Seq(Command) /\ NoHello(toServer')
      BY <3>1, <3>2 DEF NoHello
    <3> QED BY <2>4, <3>1, <3>2
  <2> QED BY <2>1, <2>5 DEF Layered, NoHello, Sorted
<1>14. CASE Cancel
  <2>1. call'.at = "none" /\ UNCHANGED <<stream, buffer, speaks, carried>>
    BY <1>14, <1>r DEF Cancel
  <2>2. CASE call.at = "handshake"
    <3>1. toServer' = <<>> /\ wire' = <<>> /\ stream \notin {"plain", "tls"}
      BY <1>14, <2>2 DEF Cancel, Placed
    <3> QED BY <2>1, <2>2, <3>1 DEF Layered, NoHello, Sorted
  <2>3. CASE call.at # "handshake"
    <3>1. UNCHANGED <<toServer, wire>>
      BY <1>14, <2>3 DEF Cancel
    <3> QED BY <2>1, <2>3, <3>1 DEF Layered, NoHello, Sorted
  <2> QED BY <2>2, <2>3
<1>15. CASE AcceptHello
  <2>1. /\ toServer # <<>> /\ Head(toServer).verb = "hello" /\ speaks = "starting"
        /\ toServer' = Tail(toServer) /\ speaks' = "tls"
        /\ UNCHANGED <<call, stream, buffer, carried>>
    BY <1>15 DEF AcceptHello, Live
  <2>2. /\ toServer \in Seq(Command) /\ Len(toServer) = 1 /\ call.at = "handshake"
        /\ wire \in Seq(LineOf({"clear"})) /\ stream \notin {"plain", "tls"}
    <3>1. /\ toServer \in Seq(Command) /\ 1 \in 1 .. Len(toServer)
          /\ toServer[1].verb = "hello"
      BY <2>1 DEF Layered
    <3>2. Len(toServer) = 1 /\ call.at = "handshake"
      BY <3>1 DEF Layered, NoHello
    <3> QED BY <2>1, <3>1, <3>2 DEF Layered, Placed
  <2>3. toServer' = <<>>
    BY <2>1, <2>2
  <2>4. PICK q \in Seq(LineOf({"tls"})) : wire' = wire \o q
    <3>1. \A kind \in {"ok", "err", "hello"} : [of |-> 0, layer |-> "tls", kind |-> kind] \in LineOf({"tls"})
      BY DEF LineOf, Lines
    <3>2. PICK kind \in {"ok", "err"} :
            wire' = wire \o <<[of |-> 0, layer |-> "tls", kind |-> "hello"]>> \o
                      IF EffectivePort = TlsPort
                      THEN <<[of |-> 0, layer |-> "tls", kind |-> kind]>> ELSE <<>>
      BY <1>15 DEF AcceptHello
    <3> DEFINE h == <<[of |-> 0, layer |-> "tls", kind |-> "hello"]>>
               g == IF EffectivePort = TlsPort
                    THEN <<[of |-> 0, layer |-> "tls", kind |-> kind]>> ELSE <<>>
    <3>3. h \in Seq(LineOf({"tls"})) /\ g \in Seq(LineOf({"tls"}))
      BY <3>1, ShortSeqs
    <3>4. wire' = wire \o h \o g
      BY <3>2
    <3> HIDE DEF h, g
    <3>5. wire' = wire \o (h \o g) /\ h \o g \in Seq(LineOf({"tls"}))
      BY <2>2, <3>3, <3>4
    <3> QED BY <3>5
  <2>5. wire' \in Seq(LineOf({"clear", "tls"})) /\ Sorted(wire')
    <3>1. /\ wire \in Seq(LineOf({"clear", "tls"})) /\ q \in Seq(LineOf({"clear", "tls"}))
      BY <2>2, <2>4, LineFacts
    <3>2. \A i \in 1 .. Len(wire) : wire[i] \in LineOf({"clear"})
      BY <2>2
    <3>3. \A i \in 1 .. Len(q) : q[i] \in LineOf({"tls"})
      BY <2>4
    <3>4. ASSUME NEW i \in 1 .. Len(wire')
          PROVE  wire'[i].layer = IF i <= Len(wire) THEN "clear" ELSE "tls"
      <4>1. CASE i <= Len(wire)
        BY <2>4, <3>1, <3>2, <4>1, LineFacts
      <4>2. CASE i > Len(wire)
        <5>1. i - Len(wire) \in 1 .. Len(q) /\ wire'[i] = q[i - Len(wire)]
          BY <2>4, <3>1, <4>2
        <5> QED BY <3>1, <3>3, <4>2, <5>1, LineFacts
      <4> QED BY <3>1, <4>1, <4>2
    <3> QED BY <2>4, <3>1, <3>4 DEF Sorted
  <2>6. toServer' \in Seq(Command) /\ Len(toServer') = 0
    BY <2>3
  <2> QED BY <2>1, <2>2, <2>5, <2>6 DEF Layered, NoHello
<1>16. CASE Accept
  <2> DEFINE c == Head(toServer)
  <2>1. /\ toServer # <<>> /\ MayAccept(c) /\ UNCHANGED <<call, stream, buffer, carried>>
        /\ toServer' = Tail(toServer) \/ toServer' = <<>>
        /\ speaks' = IF c.verb = "STLS" THEN "starting" ELSE speaks
    BY <1>16 DEF Accept, Live
  <2>2. c \in Command
    BY <2>1 DEF Layered
  <2>3. speaks \in {"clear", "tls"} /\ (c.verb = "STLS" => speaks = "clear")
    BY <2>1, <2>2 DEF MayAccept, Command, Typed
  <2>4. PICK q \in Seq(LineOf({speaks})) : wire' = wire \o q
    <3>1. Line("ok") \in LineOf({speaks}) /\ [Line("ok") EXCEPT !.of = 0] \in LineOf({speaks})
      BY <2>2 DEF Line, LineOf, Lines, Command
    <3>2. wire \in Seq(LineOf({"clear", "tls"}))
      BY DEF Layered
    <3>3. Append(wire, Line("ok")) = wire \o <<Line("ok")>>
      BY <3>2
    <3>4. \/ wire' = Append(wire, Line("ok"))
          \/ wire' = wire \o <<Line("ok"), [Line("ok") EXCEPT !.of = 0]>>
      BY <1>16 DEF Accept
    <3>5. /\ <<Line("ok")>> \in Seq(LineOf({speaks}))
          /\ <<Line("ok"), [Line("ok") EXCEPT !.of = 0]>> \in Seq(LineOf({speaks}))
      BY <3>1, ShortSeqs
    <3> QED BY <3>3, <3>4, <3>5
  <2> QED BY <2>1, <2>3, <2>4, AppendLayered
<1>17. CASE Reject
  <2>1. /\ toServer # <<>> /\ UNCHANGED <<call, stream, buffer, carried, speaks>>
        /\ toServer' = Tail(toServer) /\ speaks # "starting"
        /\ wire' = Append(wire, Line("err"))
    BY <1>17 DEF Reject, Live
  <2>2. Head(toServer) \in Command /\ wire \in Seq(LineOf({"clear", "tls"}))
    BY <2>1 DEF Layered
  <2>3. Line("err") \in LineOf({speaks})
    BY <2>2 DEF Line, LineOf, Lines, Command
  <2>4. <<Line("err")>> \in Seq(LineOf({speaks})) /\ wire' = wire \o <<Line("err")>>
    BY <2>1, <2>2, <2>3
  <2>5. speaks \in {"clear", "tls"}
    BY <2>1 DEF Typed
  <2> QED BY <2>1, <2>4, <2>5, AppendLayered
<1>18. CASE Lose
  <2>1. PICK n \in 0 .. Len(wire) : wire' = SubSeq(wire, 1, n)
    BY <1>18 DEF Lose
  <2>2. wire \in Seq(LineOf({"clear", "tls"})) /\ Sorted(wire)
    BY DEF Layered
  <2>3. /\ wire' \in Seq(LineOf({"clear", "tls"})) /\ Len(wire') = n
        /\ \A i \in 1 .. n : wire'[i] = wire[i]
    BY <2>1, <2>2
  <2>4. Sorted(wire')
    BY <2>2, <2>3 DEF Sorted
  <2>5. \A S : wire \in Seq(S) => wire' \in Seq(S)
    BY <2>1
  <2>6. toServer' = <<>> /\ UNCHANGED <<call, stream, buffer, carried, speaks>>
    BY <1>18 DEF Lose
  <2> QED BY <2>3, <2>4, <2>5, <2>6 DEF Layered, NoHello
<1>19. ASSUME NEW m \in Modes, NEW a \in Auths, NEW p \in Ports,
              Configure([mode |-> m, auth |-> a, port |-> p])
       PROVE  Layered'
  BY <1>1, <1>19 DEF Configure
<1>20. CASE DropClient \/ Over \/ UNCHANGED vars
  BY <1>1, <1>20 DEF DropClient, Over, vars
<1> QED BY <1>2, <1>3, <1>4, <1>5, <1>6, <1>7, <1>8, <1>9, <1>10, <1>11, <1>12, <1>13, <1>14,
           <1>15, <1>16, <1>17, <1>18, <1>19, <1>20 DEF Next, Read

(* No line that was sent in clear is read as one that came through TLS: not*)
(* one that came with the +OK to STLS, nor one before it.                  *)
THEOREM ClearStaysOutside == Spec => []NothingCarriedOver
<1>1. Init => OnPlain
  <2> SUFFICES ASSUME Init
               PROVE  OnPlain
    OBVIOUS
  <2>1. call.at = "none" /\ stream = "none" /\ encrypted = FALSE
    BY DEF Init, NoCall
  <2> QED BY <2>1 DEF OnPlain
<1>2. Layered => NothingCarriedOver
  BY DEF Layered, NothingCarriedOver
<1> QED BY <1>1, <1>2, InitLayered, OnPlainStep, LayerStep, PlacedAlways, PTL DEF Spec

-----------------------------------------------------------------------------
(***************************************************************************)
(* Whose replies are read.                                                 *)
(***************************************************************************)
FieldTypes ==
  /\ builder \in [mode : Modes, auth : Auths, port : Ports]
  /\ state \in {"Connected", "Authenticated"}
  /\ encrypted \in BOOLEAN /\ isClosed \in BOOLEAN /\ stamped \in BOOLEAN
  /\ trouble \in BOOLEAN /\ loggedIn \in BOOLEAN
  /\ server \in {"none", "auth", "user", "trans", "gone"}
  /\ ret.op \in Connects \cup Calls

LEMMA ContinueReturns ==
  ASSUME NEW at, NEW layer, Continue(at, layer)
  PROVE  ret' = ret \/ \E val : ret' = [op |-> call.op, val |-> val]
BY ContinueFacts DEF Return, Go

LEMMA FieldStep ==
  ASSUME Typed, Placed, FieldTypes, [Next]_vars
  PROVE  FieldTypes'
<1> USE DEF clientVars, streamVars, serverVars, history
<1>r. ASSUME NEW val, Return(val)
      PROVE  ret'.op \in Connects \cup Calls
  BY <1>r DEF Return, Typed
<1>c. ASSUME NEW at, NEW layer, Continue(at, layer)
      PROVE  ret'.op \in Connects \cup Calls
  BY <1>c, ContinueReturns DEF Typed, FieldTypes
<1>1. ASSUME NEW m \in Modes, NEW a \in Auths, NEW p \in Ports,
             Configure([mode |-> m, auth |-> a, port |-> p])
      PROVE  FieldTypes'
  BY <1>1 DEF Configure, FieldTypes
<1>2. CASE (\E op \in Connects : Connect(op)) \/ TcpConnected \/ TcpFails
  BY <1>2, <1>r DEF Connect, TcpConnected, TcpFails, FieldTypes
<1>3. CASE ReadGreeting \/ ReadLogin
  BY <1>3, <1>c DEF ReadGreeting, ReadLogin, FieldTypes
<1>4. CASE ReadSimple \/ ReadErr \/ ReadEof \/ TimeOut
  BY <1>4, <1>r, GivesUp DEF ReadSimple, ReadErr, ReadEof, TimeOut, FieldTypes
<1>5. CASE ReadStlsOk
  BY <1>5, <1>r DEF ReadStlsOk, StartHandshake, FieldTypes
<1>6. CASE HandshakeDone
  BY <1>6, <1>c DEF HandshakeDone, FieldTypes
<1>7. CASE HandshakeFails \/ Cancel
  BY <1>7, <1>r DEF HandshakeFails, Cancel, FieldTypes
<1>8. ASSUME NEW op \in Calls, Refuse(op) \/ Begin(op)
      PROVE  FieldTypes'
  BY <1>8 DEF Refuse, Begin, FieldTypes
<1>9. CASE DropClient \/ AcceptHello \/ Reject \/ Lose \/ Over \/ UNCHANGED vars
  BY <1>9 DEF DropClient, AcceptHello, Reject, Lose, Over, vars, FieldTypes
<1>10. CASE Accept
  <2>1. server' \in {"user", "trans", "auth", "gone", server} /\ loggedIn' \in BOOLEAN /\ trouble' \in BOOLEAN
    BY <1>10 DEF Accept, FieldTypes
  <2> QED BY <1>10, <2>1 DEF Accept, FieldTypes
<1> QED BY <1>1, <1>2, <1>3, <1>4, <1>5, <1>6, <1>7, <1>8, <1>9, <1>10 DEF Next, Read

(* A connection that is being opened, and one to a server that speaks TLS  *)
(* from the start by a client that does not: it waits for a greeting that  *)
(* never comes.                                                            *)
Quiet == buffer = <<>> /\ wire = <<>> /\ toServer = <<>>
Opened ==
  /\ server \in {"none", "gone"} => toServer = <<>>
  /\ stream # "none" \/ call.at = "handshake" => server # "none"
  /\ stream = "none" /\ call.at # "handshake" => Quiet
  /\ stream = "none" \/ call.at \in {"none", "greeting"} => call.id = 0
  /\ stream = "none" => /\ \A i \in 1 .. Len(wire) : wire[i].of = 0
                        /\ \A i \in 1 .. Len(toServer) : toServer[i].id = 0
  /\ \A i \in 1 .. Len(toServer) : toServer[i].verb = "hello" => toServer[i] = Hello
  /\ EffectivePort = TlsPort /\ stream \in {"plain", "upgrading"}
       => /\ stream = "plain" /\ speaks = "starting" /\ Quiet
          /\ client # "open" /\ call.at \in {"none", "greeting"}

(* What an operation writes as it goes on.                                 *)
VerbOf(at) == IF at = "probe" THEN "CAPA" ELSE at
LEMMA ContinueShape ==
  ASSUME Typed, NEW at, NEW layer, Continue(at, layer)
  PROVE  \/ /\ call' = NoCall /\ client' \in {"open", "dropped"}
            /\ nextId' = nextId /\ toServer' = toServer
         \/ /\ call'.at \in {"STLS", "USER", "APOP", "PASS", "probe"} /\ call'.at = After(at)
            /\ call'.op = call.op /\ call'.id = nextId /\ nextId' = nextId + 1
            /\ client' = client /\ ret' = ret
            /\ \/ server = "gone" /\ toServer' = toServer
               \/ /\ server # "gone"
                  /\ toServer' = Append(toServer, [id |-> nextId, verb |-> VerbOf(call'.at), layer |-> layer])
<1>1. CASE \E val : Return(val) /\ toServer' = toServer
  BY <1>1 DEF Return
<1>2. CASE /\ After(at) \in {"STLS", "USER", "APOP", "PASS", "probe"}
           /\ Go(After(at), layer)
  BY <1>2 DEF Go, Write, VerbOf, Typed
<1> QED BY <1>1, <1>2, ContinueFacts

LEMMA ShortAt ==
  ASSUME NEW x, NEW y
  PROVE  /\ \A i \in 1 .. Len(<<x>>) : <<x>>[i] = x
         /\ \A i \in 1 .. Len(<<x, y>>) : <<x, y>>[i] \in {x, y}
<1>1. \A i \in 1 .. Len(<<x>>) : i = 1
  OBVIOUS
<1>2. \A i \in 1 .. Len(<<x, y>>) : i = 1 \/ i = 2
  OBVIOUS
<1> QED BY <1>1, <1>2

LEMMA JoinedAt ==
  ASSUME NEW S, NEW w \in Seq(S), NEW q \in Seq(S), NEW i \in 1 .. Len(w \o q)
  PROVE  \/ i \in 1 .. Len(w) /\ (w \o q)[i] = w[i]
         \/ i > Len(w) /\ i - Len(w) \in 1 .. Len(q) /\ (w \o q)[i] = q[i - Len(w)]
<1>1. CASE i <= Len(w)
  BY <1>1
<1>2. CASE i > Len(w)
  BY <1>2
<1> QED BY <1>1, <1>2

(* What the server does with a command, or with a ClientHello.             *)
Answers == AcceptHello \/ Accept \/ Reject
LEMMA AnswerShape ==
  ASSUME Typed, Layered, Answers
  PROVE  /\ toServer \in Seq(Command) /\ toServer # <<>> /\ server \notin {"none", "gone"}
         /\ Head(toServer) \in Command /\ Head(toServer) = toServer[1]
         /\ toServer' = Tail(toServer) \/ toServer' = <<>>
         /\ UNCHANGED <<builder, clientVars, streamVars, call, ret, nextId>>
         /\ server' # "none" /\ (server' = "gone" => toServer' = <<>>)
         /\ (loggedIn => loggedIn') /\ (speaks = "starting" => speaks' # "clear")
         /\ wire \in Seq(LineOf({"clear", "tls"}))
         /\ \E q \in Seq(LineOf({"clear", "tls"})) :
              /\ wire' = wire \o q
              /\ \A i \in 1 .. Len(q) : q[i].of \in {0, Head(toServer).id}
              /\ AcceptHello \/ \A i \in 1 .. Len(q) : q[i].kind # "hello"
<1> USE DEF clientVars, streamVars, serverVars, history
<1>1. /\ toServer \in Seq(Command) /\ toServer # <<>> /\ server \notin {"none", "gone"}
      /\ wire \in Seq(LineOf({"clear", "tls"}))
  BY DEF Answers, AcceptHello, Accept, Reject, Live, Layered
<1>2. Head(toServer) \in Command /\ Head(toServer) = toServer[1]
  BY <1>1
<1> DEFINE c == Head(toServer)
<1>3. CASE AcceptHello
  <2>1. PICK kind \in {"ok", "err"} :
          wire' = wire \o <<[of |-> 0, layer |-> "tls", kind |-> "hello"]>> \o
                    IF EffectivePort = TlsPort
                    THEN <<[of |-> 0, layer |-> "tls", kind |-> kind]>> ELSE <<>>
    BY <1>3 DEF AcceptHello
  <2> DEFINE h == [of |-> 0, layer |-> "tls", kind |-> "hello"]
             g == [of |-> 0, layer |-> "tls", kind |-> kind]
             q == IF EffectivePort = TlsPort THEN <<h, g>> ELSE <<h>>
  <2>2. h \in LineOf({"clear", "tls"}) /\ g \in LineOf({"clear", "tls"}) /\ h.of = 0 /\ g.of = 0
    BY DEF LineOf, Lines
  <2>3. wire' = wire \o q
    <3>1. wire \o <<h>> \o <<g>> = wire \o <<h, g>> /\ wire \o <<h>> \o <<>> = wire \o <<h>>
      BY <1>1, <2>2
    <3> QED BY <2>1, <3>1
  <2> HIDE DEF h, g
  <2>4. q \in Seq(LineOf({"clear", "tls"})) /\ \A i \in 1 .. Len(q) : q[i].of = 0
    <3>1. \A i \in 1 .. Len(q) : q[i] \in {h, g}
      BY ShortAt
    <3>2. q \in Seq(LineOf({"clear", "tls"}))
      BY <2>2, ShortSeqs
    <3> QED BY <2>2, <3>1, <3>2
  <2> HIDE DEF q
  <2>5. UNCHANGED <<builder, clientVars, streamVars, call, ret, nextId, server, loggedIn>>
        /\ speaks' = "tls" /\ toServer' = Tail(toServer)
    BY <1>3 DEF AcceptHello
  <2> QED BY <1>1, <1>2, <1>3, <2>3, <2>4, <2>5
<1>4. CASE Accept
  <2> DEFINE o == Line("ok")
             e == [Line("ok") EXCEPT !.of = 0]
  <2>1. /\ o \in LineOf({"clear", "tls"}) /\ e \in LineOf({"clear", "tls"})
        /\ o.of = c.id /\ e.of = 0 /\ o.kind = "ok" /\ e.kind = "ok"
    <3>1. speaks \in {"clear", "tls"}
      <4>1. c.layer = speaks
        BY <1>4 DEF Accept, MayAccept
      <4> QED BY <1>2, <4>1 DEF Command, Typed
    <3> QED BY <1>2, <3>1 DEF Line, LineOf, Lines, Command
  <2>2. wire' = Append(wire, o) \/ wire' = wire \o <<o, e>>
    BY <1>4 DEF Accept
  <2> HIDE DEF o, e
  <2>3. \E q \in {<<o>>, <<o, e>>} : wire' = wire \o q
    <3>1. Append(wire, o) = wire \o <<o>>
      BY <1>1, <2>1
    <3> QED BY <2>2, <3>1
  <2>4. \A q \in {<<o>>, <<o, e>>} :
          /\ q \in Seq(LineOf({"clear", "tls"}))
          /\ \A i \in 1 .. Len(q) : q[i].of \in {0, c.id} /\ q[i].kind # "hello"
    <3>1. \A q \in {<<o>>, <<o, e>>} : \A i \in 1 .. Len(q) : q[i] \in {o, e}
      BY ShortAt
    <3>2. \A q \in {<<o>>, <<o, e>>} : q \in Seq(LineOf({"clear", "tls"}))
      BY <2>1, ShortSeqs
    <3> QED BY <2>1, <3>1, <3>2
  <2>5. /\ UNCHANGED <<builder, clientVars, streamVars, call, ret, nextId>>
        /\ toServer' = IF c.verb = "QUIT" THEN <<>> ELSE Tail(toServer)
        /\ speaks' = IF c.verb = "STLS" THEN "starting" ELSE speaks
        /\ loggedIn' = (loggedIn \/ c.verb \in {"PASS", "APOP"})
        /\ server' \in {"user", "trans", "auth", server} \/ (c.verb = "QUIT" /\ server' = "gone")
    BY <1>4 DEF Accept
  <2> QED BY <1>1, <1>2, <2>3, <2>4, <2>5
<1>5. CASE Reject
  <2> DEFINE e == Line("err")
  <2>1. e \in LineOf({"clear", "tls"}) /\ e.of = c.id /\ e.kind = "err"
    <3>1. speaks \in {"clear", "tls"}
      BY <1>5 DEF Reject, Typed
    <3> QED BY <1>2, <3>1 DEF Line, LineOf, Lines, Command
  <2>2. wire' = Append(wire, e)
    BY <1>5 DEF Reject
  <2> HIDE DEF e
  <2>3. /\ wire' = wire \o <<e>> /\ <<e>> \in Seq(LineOf({"clear", "tls"}))
        /\ \A i \in 1 .. Len(<<e>>) : <<e>>[i].of = c.id /\ <<e>>[i].kind # "hello"
    BY <1>1, <2>1, <2>2
  <2>4. UNCHANGED <<builder, clientVars, streamVars, call, ret, nextId, server, speaks, loggedIn>>
        /\ toServer' = Tail(toServer)
    BY <1>5 DEF Reject
  <2> QED BY <1>1, <1>2, <2>3, <2>4
<1> QED BY <1>3, <1>4, <1>5 DEF Answers

LEMMA LessAt ==
  ASSUME NEW S, NEW w \in Seq(S), w # <<>>, NEW q \in {Tail(w), <<>>}
  PROVE  /\ q \in Seq(S) /\ Len(q) < Len(w)
         /\ \A i \in 1 .. Len(q) : i + 1 \in 1 .. Len(w) /\ q[i] = w[i + 1]
<1>1. CASE q = <<>>
  BY <1>1
<1>2. CASE q = Tail(w)
  BY <1>2
<1> QED BY <1>1, <1>2

(* What a lost connection leaves of the lines on their way.                *)
PickPrefix(w, q) == \E n \in 0 .. Len(w) : q = SubSeq(w, 1, n)
LEMMA PrefixAt ==
  ASSUME NEW S, NEW w \in Seq(S), NEW q, PickPrefix(w, q)
  PROVE  /\ q \in Seq(S) /\ Len(q) <= Len(w)
         /\ \A i \in 1 .. Len(q) : i \in 1 .. Len(w) /\ q[i] = w[i]
         /\ w = <<>> => q = <<>>
BY DEF PickPrefix

(* An operation that goes on, on a stream that is there.                   *)
LEMMA OpenedOnStream ==
  ASSUME Typed, Layered, Opened, builder' = builder, server' = server,
         stream # "none", stream' # "none",
         EffectivePort = TlsPort => stream' = "tls" /\ stream \notin {"plain", "upgrading"},
         call'.at \in {"none", "greeting"} => call'.id = 0,
         \/ toServer' = toServer
         \/ /\ server # "gone"
            /\ \E c \in Command : (c.verb = "hello" => c = Hello) /\ toServer' = Append(toServer, c)
  PROVE  Opened'
<1>1. server # "none" /\ EffectivePort' = EffectivePort
  BY DEF Opened, EffectivePort
<1>2. \A i \in 1 .. Len(toServer') : toServer'[i].verb = "hello" => toServer'[i] = Hello
  <2>1. toServer \in Seq(Command)
    BY DEF Layered
  <2>2. ASSUME NEW c \in Command, c.verb = "hello" => c = Hello, toServer' = Append(toServer, c)
        PROVE  \A i \in 1 .. Len(toServer') : toServer'[i].verb = "hello" => toServer'[i] = Hello
    BY <2>1, <2>2 DEF Opened
  <2> QED BY <2>2 DEF Opened
<1>3. server \in {"none", "gone"} => toServer' = <<>>
  BY <1>1 DEF Opened
<1> QED BY <1>1, <1>2, <1>3 DEF Opened

(* A call gives up: a connection that fails leaves no client.              *)
LEMMA OpenedGivenUp ==
  ASSUME Typed, Placed, Opened, ~Idle, NEW val, Return(val), call.at # "handshake",
         EffectivePort = TlsPort /\ stream = "plain" /\ call.at = "greeting" => val # "Ok",
         UNCHANGED <<builder, server, stream, buffer, wire, toServer, speaks>>
  PROVE  Opened'
<1>1. call' = NoCall /\ call'.at = "none" /\ call'.id = 0 /\ EffectivePort' = EffectivePort
  BY DEF Return, NoCall, EffectivePort
<1>2. EffectivePort = TlsPort /\ stream \in {"plain", "upgrading"} => client' # "open"
  <2> SUFFICES ASSUME EffectivePort = TlsPort, stream \in {"plain", "upgrading"}
               PROVE  client' = "dropped"
    OBVIOUS
  <2>1. stream = "plain" /\ call.at = "greeting" /\ client # "open"
    BY DEF Opened, Idle
  <2>2. call.op \in Connects
    BY <2>1 DEF Placed, Typed, Idle
  <2> QED BY <2>1, <2>2 DEF Return
<1> QED BY <1>1, <1>2 DEF Opened, Quiet

LEMMA InitOpened == Init => FieldTypes /\ Opened
<1> SUFFICES ASSUME Init
             PROVE  FieldTypes /\ Opened
  OBVIOUS
<1>1. /\ call.at = "none" /\ call.id = 0 /\ stream = "none" /\ Quiet
  BY DEF Init, NoCall, Quiet
<1>2. Opened
  BY <1>1 DEF Opened, Quiet, Init
<1>3. FieldTypes
  BY DEF Init, FieldTypes, Modes, Auths, Ports, NoPort, Connects
<1> QED BY <1>2, <1>3

LEMMA OpenedStep ==
  ASSUME Typed, Placed, OnPlain, Layered, Opened, [Next]_vars
  PROVE  Opened'
<1> USE DEF clientVars, streamVars, serverVars, history
<1>e. builder' = builder => EffectivePort' = EffectivePort
  BY DEF EffectivePort
<1>q. ASSUME Reading
      PROVE  /\ ~Idle /\ stream \in {"plain", "tls"} /\ call.at # "handshake"
             /\ (NextReads # {} \/ call.at # "greeting")
                  => (EffectivePort = TlsPort => stream = "tls")
  <2>1. ~Idle /\ stream \in {"plain", "tls"} /\ call.at # "handshake"
    BY <1>q DEF Reading, Placed, Idle
  <2>2. ASSUME EffectivePort = TlsPort, stream = "plain"
        PROVE  NextReads = {} /\ call.at = "greeting"
    <3>1. buffer = <<>> /\ wire = <<>> /\ call.at = "greeting"
      BY <1>q, <2>2 DEF Opened, Quiet, Reading
    <3> QED BY <3>1 DEF NextReads
  <2> QED BY <2>1, <2>2
<1>c. ASSUME NEW at, NEW layer \in {"clear", "tls"}, Continue(at, layer)
      PROVE  /\ call'.at \in {"none", "greeting"} => call'.id = 0
             /\ \/ toServer' = toServer
                \/ /\ server # "gone"
                   /\ \E c \in Command : (c.verb = "hello" => c = Hello) /\ toServer' = Append(toServer, c)
  <2>1. CASE call' = NoCall /\ toServer' = toServer
    BY <2>1 DEF NoCall
  <2>2. CASE /\ call'.at \in {"STLS", "USER", "APOP", "PASS", "probe"}
             /\ \/ server = "gone" /\ toServer' = toServer
                \/ /\ server # "gone"
                   /\ toServer' = Append(toServer, [id |-> nextId, verb |-> VerbOf(call'.at), layer |-> layer])
    <3> DEFINE c == [id |-> nextId, verb |-> VerbOf(call'.at), layer |-> layer]
    <3>1. c \in Command /\ c.verb # "hello"
      BY <2>2 DEF Command, Typed, VerbOf, Verbs
    <3> QED BY <2>2, <3>1
  <2> QED BY <1>c, <2>1, <2>2, ContinueShape
<1>1. ASSUME NEW m \in Modes, NEW a \in Auths, NEW p \in Ports,
             Configure([mode |-> m, auth |-> a, port |-> p])
      PROVE  Opened'
  <2>1. stream = "none" /\ UNCHANGED <<stream, call, buffer, wire, toServer, server>>
    BY <1>1 DEF Configure, Placed
  <2> QED BY <2>1 DEF Opened, Quiet
<1>2. ASSUME NEW op \in Connects, Connect(op)
      PROVE  Opened'
  <2>1. /\ stream = "none" /\ call.at = "none" /\ call'.at = "tcp" /\ call'.id = 0
        /\ UNCHANGED <<stream, buffer, wire, toServer, server>>
    BY <1>2 DEF Connect, NoCall, Placed, Idle
  <2> QED BY <2>1 DEF Opened, Quiet
<1>3. CASE TcpConnected
  <2>1. /\ stream = "none" /\ Quiet /\ call.id = 0 /\ client = "connecting" /\ server' = "auth"
        /\ buffer' = <<>> /\ client' = client /\ EffectivePort' = EffectivePort
        /\ speaks' = IF EffectivePort = TlsPort THEN "starting" ELSE "clear"
    BY <1>3, <1>e DEF TcpConnected, Placed, Opened, Typed, Idle, Quiet
  <2>2. wire' = <<>> \/ (EffectivePort # TlsPort /\ \E kind : wire' = <<[of |-> 0, layer |-> "clear", kind |-> kind]>>)
    BY <1>3 DEF TcpConnected
  <2>3. \A i \in 1 .. Len(wire') : wire'[i].of = 0
    BY <2>2, ShortAt
  <2>4. CASE builder.mode = "Tls"
    <3>1. call'.at = "handshake" /\ call'.id = 0 /\ stream' = "none" /\ toServer' = <<Hello>>
      BY <1>3, <2>1, <2>4 DEF TcpConnected, Typed
    <3>2. \A i \in 1 .. Len(toServer') : toServer'[i] = Hello /\ toServer'[i].id = 0
      BY <3>1, ShortAt DEF Hello
    <3> QED BY <2>1, <2>3, <3>1, <3>2 DEF Opened
  <2>5. CASE builder.mode # "Tls"
    <3>1. call'.at = "greeting" /\ call'.id = 0 /\ stream' = "plain" /\ toServer' = <<>>
      BY <1>3, <2>1, <2>5 DEF TcpConnected, Typed, Quiet
    <3> QED BY <2>1, <2>2, <3>1 DEF Opened, Quiet
  <2> QED BY <2>4, <2>5
<1>4. CASE TcpFails
  <2>1. stream = "none" /\ ~Idle /\ call.at = "tcp" /\ \E val : Return(val)
    BY <1>4 DEF TcpFails, Placed, Idle
  <2> QED BY <1>4, <2>1, OpenedGivenUp DEF TcpFails
<1>5. CASE ReadGreeting \/ ReadLogin
  <2>1. /\ Reading /\ NextReads # {} /\ UNCHANGED <<builder, server, stream>>
        /\ \E at : Continue(at, Layer)
    BY <1>5 DEF ReadGreeting, ReadLogin, Reads
  <2>2. Layer \in {"clear", "tls"} /\ stream # "none" /\ (EffectivePort = TlsPort => stream = "tls")
    BY <1>q, <2>1 DEF Layer
  <2> QED BY <1>c, <2>1, <2>2, OpenedOnStream
<1>6. CASE ReadSimple \/ ReadErr
  <2>1. /\ Reading /\ NextReads # {} /\ UNCHANGED <<builder, server, stream, toServer>>
        /\ \E val : Return(val)
    BY <1>6 DEF ReadSimple, ReadErr, Reads
  <2>2. stream # "none" /\ (EffectivePort = TlsPort => stream = "tls") /\ call'.id = 0
    BY <1>q, <2>1 DEF Return, NoCall
  <2> QED BY <2>1, <2>2, OpenedOnStream
<1>7. CASE ReadEof \/ TimeOut
  <2>1. \E val : Return(val) /\ (call.at # "probe" => val # "Ok")
    BY <1>7, GivesUp
  <2>2. Reading /\ UNCHANGED <<builder, server, stream, buffer, wire, toServer, speaks>>
    BY <1>7, GivesUp DEF ReadEof, TimeOut
  <2> QED BY <1>q, <2>1, <2>2, OpenedGivenUp
<1>8. CASE ReadStlsOk
  <2>1. Reading /\ NextReads # {} /\ UNCHANGED <<builder, server>> /\ call.at = "STLS" /\ stream = "plain"
    BY <1>8 DEF ReadStlsOk, Reads, OnPlain
  <2>2. EffectivePort # TlsPort
    BY <1>q, <2>1
  <2>3. CASE Return("Io") /\ UNCHANGED <<stream, toServer, tried>>
    BY <2>1, <2>2, <2>3, OpenedOnStream DEF Return, NoCall
  <2>4. CASE stream' = "upgrading" /\ StartHandshake
    <3>1. call'.at = "handshake" /\ Hello \in Command
      BY <2>4 DEF StartHandshake, Typed, Hello, Command
    <3> QED BY <2>1, <2>2, <2>4, <3>1, OpenedOnStream DEF StartHandshake
  <2> QED BY <1>8, <2>3, <2>4 DEF ReadStlsOk
<1>9. CASE HandshakeDone
  <2>1. call.at = "handshake" /\ stream' = "tls" /\ UNCHANGED <<builder, server>> /\ server # "none"
    BY <1>9 DEF HandshakeDone, Opened
  <2>2. CASE stream = "none"
    <3>1. call'.at = "greeting" /\ call'.id = 0 /\ toServer' = toServer
      BY <1>9, <2>2 DEF HandshakeDone, Typed, Opened
    <3> QED BY <2>1, <3>1 DEF Opened
  <2>3. CASE stream # "none"
    <3>1. Continue("STLS", "tls")
      BY <1>9, <2>3 DEF HandshakeDone
    <3>2. stream = "upgrading" => EffectivePort # TlsPort
      BY <2>1 DEF Opened
    <3>3. stream = "upgrading"
      BY <2>1, <2>3 DEF Placed
    <3> QED BY <1>c, <2>1, <3>1, <3>2, <3>3, OpenedOnStream
  <2> QED BY <2>2, <2>3
<1>10. CASE HandshakeFails \/ (Cancel /\ call.at = "handshake")
  <2>1. /\ call.at = "handshake" /\ call'.at = "none" /\ call'.id = 0 /\ server' = "gone"
        /\ toServer' = <<>> /\ wire' = <<>> /\ UNCHANGED <<stream, buffer, builder>>
    BY <1>10 DEF HandshakeFails, Cancel, Return, NoCall
  <2>2. buffer = <<>> /\ (EffectivePort = TlsPort => stream \notin {"plain", "upgrading"})
    BY <2>1 DEF Layered, Opened
  <2> QED BY <1>e, <2>1, <2>2 DEF Opened, Quiet
<1>11. CASE Cancel /\ call.at # "handshake"
  <2>1. /\ ~Idle /\ Return("Cancelled")
        /\ UNCHANGED <<builder, server, stream, buffer, wire, toServer, speaks>>
    BY <1>11 DEF Cancel
  <2> QED BY <1>11, <2>1, OpenedGivenUp
<1>12. ASSUME NEW op \in Calls, Refuse(op)
       PROVE  Opened'
  <2>1. client' # "open" \/ client = "open"
    BY <1>12 DEF Refuse
  <2> QED BY <1>12, <1>e, <2>1 DEF Refuse, Opened, Quiet
<1>13. ASSUME NEW op \in Calls, Begin(op)
       PROVE  Opened'
  <2>1. /\ client = "open" /\ stream # "none" /\ UNCHANGED <<builder, server, stream>>
        /\ call'.at \notin {"none", "greeting"} /\ call.at # "handshake"
    BY <1>13 DEF Begin, Calls, Placed, Idle
  <2>2. EffectivePort = TlsPort => stream = "tls"
    BY <2>1 DEF Opened, Typed
  <2> DEFINE verb == IF op = "LOGIN" THEN "USER" ELSE op
             c == [id |-> nextId, verb |-> verb, layer |-> Layer]
  <2>3. c \in Command /\ c.verb # "hello"
    BY DEF Command, Typed, Verbs, Calls, Layer
  <2>4. toServer' = toServer \/ (server # "gone" /\ toServer' = Append(toServer, c))
    BY <1>13 DEF Begin, Write
  <2> QED BY <2>1, <2>2, <2>3, <2>4, OpenedOnStream
<1>14. CASE Answers
  <2>1. /\ toServer \in Seq(Command) /\ toServer # <<>> /\ Head(toServer) = toServer[1]
        /\ toServer' = Tail(toServer) \/ toServer' = <<>>
        /\ UNCHANGED <<builder, stream, buffer, call, client>>
        /\ server' # "none" /\ (server' = "gone" => toServer' = <<>>)
        /\ wire \in Seq(LineOf({"clear", "tls"}))
    BY <1>14, AnswerShape
  <2>2. PICK q \in Seq(LineOf({"clear", "tls"})) :
          wire' = wire \o q /\ \A i \in 1 .. Len(q) : q[i].of \in {0, Head(toServer).id}
    BY <1>14, AnswerShape
  <2>3. ~Quiet
    BY <2>1 DEF Quiet
  <2>4. \A i \in 1 .. Len(toServer') : i + 1 \in 1 .. Len(toServer) /\ toServer'[i] = toServer[i + 1]
    BY <2>1, LessAt
  <2>5. stream = "none" => /\ \A i \in 1 .. Len(wire') : wire'[i].of = 0
                           /\ \A i \in 1 .. Len(toServer') : toServer'[i].id = 0
    <3> SUFFICES ASSUME stream = "none"
                 PROVE  /\ \A i \in 1 .. Len(wire') : wire'[i].of = 0
                        /\ \A i \in 1 .. Len(toServer') : toServer'[i].id = 0
      OBVIOUS
    <3>1. /\ \A i \in 1 .. Len(wire) : wire[i].of = 0
          /\ \A i \in 1 .. Len(toServer) : toServer[i].id = 0
      BY DEF Opened
    <3>2. Head(toServer).id = 0
      BY <2>1, <3>1
    <3>3. \A i \in 1 .. Len(q) : q[i].of = 0
      BY <2>2, <3>2
    <3> QED BY <2>1, <2>2, <2>4, <3>1, <3>3, JoinedAt
  <2> QED BY <1>e, <2>1, <2>3, <2>4, <2>5 DEF Opened, Quiet
<1>15. CASE Lose
  <2>1. /\ PickPrefix(wire, wire') /\ toServer' = <<>> /\ server' = "gone"
        /\ UNCHANGED <<builder, stream, buffer, call, client, speaks>>
    BY <1>15 DEF Lose, PickPrefix
  <2>2. \A i \in 1 .. Len(wire') : i \in 1 .. Len(wire) /\ wire'[i] = wire[i]
    BY <2>1, PrefixAt DEF Layered
  <2>3. wire = <<>> => wire' = <<>>
    BY <2>1, PrefixAt DEF Layered
  <2> QED BY <1>e, <2>1, <2>2, <2>3 DEF Opened, Quiet
<1>16. CASE DropClient \/ Over \/ UNCHANGED vars
  BY <1>16, <1>e DEF DropClient, Over, vars, Opened, Quiet
<1> QED BY <1>1, <1>2, <1>3, <1>4, <1>5, <1>6, <1>7, <1>8, <1>9, <1>10, <1>11, <1>12, <1>13,
           <1>14, <1>15, <1>16 DEF Next, Read, Answers

-----------------------------------------------------------------------------
(***************************************************************************)
(* One reply at a time.  In a handshake, nothing comes after the server's  *)
(* part of it but the greeting of a new connection, which is on no stream  *)
(* yet.  Unless there was trouble, an operation that reads waits for the   *)
(* one reply on its way, or the one to its command, and for no other; what *)
(* the server has done when it accepted is what the client concludes.      *)
(***************************************************************************)
HelloLast ==
  call.at = "handshake" =>
    \A i \in 1 .. Len(wire) : wire[i].kind = "hello" =>
      /\ toServer = <<>> /\ Len(wire) <= i + 1
      /\ Len(wire) = i + 1 => stream = "none"

Waiting(q) ==
  \A i \in 1 .. Len(q) :
    /\ q[i].of = call.id
    /\ q[i].kind = "ok" => /\ call.at = "STLS" => speaks = "starting"
                           /\ call.at \in {"PASS", "APOP"} => loggedIn
OneReply ==
  /\ Len(buffer) + Len(wire) + Len(toServer) <= 1
  /\ Waiting(buffer) /\ Waiting(wire)
  /\ \A i \in 1 .. Len(toServer) : toServer[i].id = call.id /\ toServer[i].verb = VerbOf(call.at)
InHandshake ==
  /\ buffer = <<>> /\ speaks # "clear"
  /\ \A i \in 1 .. Len(wire) : wire[i].kind = "hello"
  /\ \A i \in 1 .. Len(toServer) : toServer[i].verb = "hello"
OwnInv ==
  ~trouble =>
    /\ stream # "none" /\ Idle => Quiet
    /\ stream \in {"plain", "tls"} /\ ~Idle => OneReply
    /\ stream = "upgrading" /\ ~Idle => InHandshake

(* What an operation is for, and that one of connect() had no trouble when *)
(* it logs in: before STLS nothing was given up, and after it all is new.  *)
OpInv ==
  /\ client = "building" => ~trouble /\ ret.val = "none"
  /\ client = "connecting" => ~Idle
  /\ call.at \in {"CAPA", "QUIT"} => call.op = call.at
  /\ client = "connecting" /\ call.at \notin {"STLS", "handshake"} => ~trouble
  /\ client = "connecting" /\ call.at = "probe" => state = "Authenticated" /\ loggedIn
  /\ \/ client = "building"
     \/ client = "connecting" /\ call.at \in {"tcp", "handshake", "greeting", "STLS"}
     => state = "Connected"
  /\ client = "connecting" /\ (call.at = "STLS" \/ (call.at = "handshake" /\ stream # "none"))
     => builder.mode = "StartTls"

(* Numbers.  A connect writes four commands at most.                       *)
Allowed(at) ==
  CASE at \in {"tcp", "greeting"} -> 1
    [] at \in {"STLS", "handshake"} -> 2
    [] at \in {"USER", "APOP"} -> 3
    [] at = "PASS" -> 4
    [] OTHER -> 5
Below(n) == {l \in LineOf({"clear", "tls"}) : l.of < n}
IdInv ==
  /\ nextId \in 1 .. MaxCommands + Allowed(call.at)
  /\ stream = "none" => nextId = 1
  /\ wire \in Seq(Below(nextId)) /\ buffer \in Seq(Below(nextId))
  /\ \A i \in 1 .. Len(toServer) : toServer[i].id < nextId

LEMMA ReturnIdle ==
  ASSUME NEW val, Return(val)
  PROVE  call' = NoCall /\ call'.at = "none" /\ Idle'
BY DEF Return, NoCall, Idle

LEMMA ContinueAt ==
  ASSUME Typed, NEW at, NEW layer, Continue(at, layer)
  PROVE  call'.at \in {"none", "STLS", "USER", "APOP", "PASS", "probe"}
<1>1. call' = NoCall => call'.at = "none"
  BY DEF NoCall
<1> QED BY <1>1, ContinueShape

LEMMA HelloLastStep ==
  ASSUME Typed, Placed, OnPlain, Layered, Opened, HelloLast, [Next]_vars
  PROVE  HelloLast'
<1> USE DEF clientVars, streamVars, serverVars, history
<1>0. wire \in Seq(LineOf({"clear", "tls"})) /\ toServer \in Seq(Command)
  BY DEF Layered
<1>1. ASSUME call'.at # "handshake"
      PROVE  HelloLast'
  BY <1>1 DEF HelloLast
<1>2. CASE UNCHANGED <<call, wire, toServer, stream>>
  BY <1>2 DEF HelloLast
<1>3. CASE TcpConnected
  <2>1. \A i \in 1 .. Len(wire') : wire'[i].kind # "hello"
    BY <1>3, ShortAt DEF TcpConnected
  <2> QED BY <2>1 DEF HelloLast
<1>4. CASE \/ TcpFails \/ ReadSimple \/ ReadErr \/ ReadEof \/ TimeOut \/ HandshakeFails \/ Cancel
  BY <1>1, <1>4, GivesUp, ReturnIdle DEF TcpFails, ReadSimple, ReadErr, HandshakeFails, Cancel
<1>5. CASE ReadGreeting \/ ReadLogin
  BY <1>1, <1>5, ContinueAt DEF ReadGreeting, ReadLogin
<1>6. CASE HandshakeDone
  <2>1. call'.at = "greeting" \/ Continue("STLS", "tls")
    BY <1>6 DEF HandshakeDone, Typed
  <2> QED BY <1>1, <2>1, ContinueAt
<1>7. CASE ReadStlsOk
  <2>1. PICK r \in NextReads : Reads(r)
    BY <1>7 DEF ReadStlsOk
  <2>2. stream = "plain" /\ Reading
    BY <1>7, <2>1 DEF ReadStlsOk, Reads, OnPlain
  <2>3. wire \in Seq(LineOf({"clear"})) /\ buffer \in Seq(LineOf({"clear"})) /\ (wire # <<>> \/ buffer # <<>>)
    BY <2>2 DEF Layered, NextReads
  <2>4. wire' \in Seq(LineOf({"clear"}))
    BY <2>1, <2>3, ReadFacts DEF Reads
  <2>5. \A i \in 1 .. Len(wire') : wire'[i] \in LineOf({"clear"})
    BY <2>4
  <2>6. \A l \in LineOf({"clear"}) : l.kind # "hello"
    BY DEF LineOf, Lines
  <2> QED BY <2>5, <2>6 DEF HelloLast
<1>8. ASSUME NEW op \in Connects, Connect(op)
      PROVE  HelloLast'
  BY <1>1, <1>8 DEF Connect, NoCall
<1>9. ASSUME NEW op \in Calls, Refuse(op) \/ Begin(op)
      PROVE  HelloLast'
  BY <1>1, <1>2, <1>9 DEF Refuse, Begin, Calls
<1>10. ASSUME Live, call.at = "handshake"
       PROVE  \A i \in 1 .. Len(wire) : wire[i].kind # "hello"
  BY <1>10 DEF HelloLast, Live
<1>11. CASE Accept \/ Reject
  <2>1. UNCHANGED <<call, stream>> /\ Live
    BY <1>11 DEF Accept, Reject
  <2>2. PICK q \in Seq(LineOf({"clear", "tls"})) :
          wire' = wire \o q /\ (AcceptHello \/ \A i \in 1 .. Len(q) : q[i].kind # "hello")
    BY <1>11, AnswerShape DEF Answers
  <2>3. ~AcceptHello
    BY <1>11 DEF Accept, Reject, AcceptHello, MayAccept, Layered, Live, Opened, Hello
  <2>4. ASSUME call.at = "handshake"
        PROVE  \A i \in 1 .. Len(wire') : wire'[i].kind # "hello"
    BY <1>0, <1>10, <2>1, <2>2, <2>3, <2>4, JoinedAt
  <2> QED BY <2>1, <2>4 DEF HelloLast
<1>12. CASE AcceptHello
  <2> DEFINE h == [of |-> 0, layer |-> "tls", kind |-> "hello"]
             g(kind) == [of |-> 0, layer |-> "tls", kind |-> kind]
  <2>1. UNCHANGED <<call, stream>> /\ Live /\ toServer' = Tail(toServer) /\ toServer[1].verb = "hello"
    BY <1>12 DEF AcceptHello, Live
  <2>2. 1 = Len(toServer) /\ toServer' = <<>>
    <3>1. 1 \in 1 .. Len(toServer)
      BY <1>0, <2>1 DEF Live
    <3>2. 1 = Len(toServer)
      BY <2>1, <3>1 DEF Layered
    <3> QED BY <1>0, <2>1, <3>2
  <2>3. PICK kind \in {"ok", "err"} :
          wire' = wire \o <<h>> \o IF EffectivePort = TlsPort THEN <<g(kind)>> ELSE <<>>
    BY <1>12 DEF AcceptHello
  <2>4. ASSUME call.at = "handshake", NEW i \in 1 .. Len(wire'), wire'[i].kind = "hello"
        PROVE  Len(wire') <= i + 1 /\ (Len(wire') = i + 1 => EffectivePort = TlsPort)
    <3>1. h \in LineOf({"clear", "tls"}) /\ g(kind) \in LineOf({"clear", "tls"})
      BY DEF LineOf, Lines
    <3> HIDE DEF h, g
    <3>2. \A j \in 1 .. Len(wire) : wire[j].kind # "hello"
      BY <1>10, <2>1, <2>4
    <3>3. CASE EffectivePort = TlsPort
      <4>1. wire' = wire \o <<h>> \o <<g(kind)>>
        BY <2>3, <3>3
      <4>2. Len(wire') = Len(wire) + 2 /\ \A j \in 1 .. Len(wire) : wire'[j] = wire[j]
        BY <1>0, <3>1, <4>1
      <4> QED BY <1>0, <2>4, <3>2, <3>3, <4>2
    <3>4. CASE EffectivePort # TlsPort
      <4>1. wire' = wire \o <<h>>
        BY <1>0, <2>3, <3>1, <3>4
      <4>2. Len(wire') = Len(wire) + 1 /\ \A j \in 1 .. Len(wire) : wire'[j] = wire[j]
        BY <1>0, <3>1, <4>1
      <4> QED BY <1>0, <2>4, <3>2, <4>2
    <3> QED BY <3>3, <3>4
  <2>5. call.at = "handshake" /\ EffectivePort = TlsPort => stream = "none"
    BY DEF Placed, Opened
  <2> QED BY <2>1, <2>2, <2>4, <2>5 DEF HelloLast
<1>13. CASE Lose
  <2>1. /\ PickPrefix(wire, wire') /\ toServer' = <<>> /\ UNCHANGED <<call, stream>>
    BY <1>13 DEF Lose, PickPrefix
  <2>2. /\ Len(wire') <= Len(wire) /\ wire' \in Seq(LineOf({"clear", "tls"}))
        /\ \A i \in 1 .. Len(wire') : i \in 1 .. Len(wire) /\ wire'[i] = wire[i]
    BY <1>0, <2>1, PrefixAt
  <2>3. ASSUME call.at = "handshake", NEW i \in 1 .. Len(wire'), wire'[i].kind = "hello"
        PROVE  Len(wire') <= i + 1 /\ (Len(wire') = i + 1 => stream = "none")
    <3>1. i \in 1 .. Len(wire) /\ Len(wire) <= i + 1 /\ (Len(wire) = i + 1 => stream = "none")
      BY <2>2, <2>3 DEF HelloLast
    <3> QED BY <1>0, <2>2, <3>1
  <2> QED BY <2>1, <2>3 DEF HelloLast
<1>14. ASSUME NEW m \in Modes, NEW a \in Auths, NEW p \in Ports,
              Configure([mode |-> m, auth |-> a, port |-> p])
       PROVE  HelloLast'
  BY <1>2, <1>14 DEF Configure
<1>15. CASE DropClient \/ Over \/ UNCHANGED vars
  BY <1>2, <1>15 DEF DropClient, Over, vars
<1> QED BY <1>3, <1>4, <1>5, <1>6, <1>7, <1>8, <1>9, <1>11, <1>12, <1>13, <1>14, <1>15 DEF Next, Read

LEMMA OneOfThree ==
  ASSUME NEW a \in Nat, NEW b \in Nat, NEW c \in Nat, a + b + c <= 1
  PROVE  /\ a >= 1 => a = 1 /\ b = 0 /\ c = 0
         /\ b >= 1 => b = 1 /\ a = 0 /\ c = 0
         /\ c >= 1 => c = 1 /\ a = 0 /\ b = 0
OBVIOUS

LEMMA OneAt ==
  ASSUME NEW S, NEW w \in Seq(S)
  PROVE  /\ Len(w) \in Nat
         /\ Len(w) = 0 => w = <<>>
         /\ w # <<>> => Len(w) >= 1 /\ 1 \in 1 .. Len(w) /\ Head(w) = w[1]
         /\ Len(w) = 1 => Tail(w) = <<>> /\ SubSeq(w, 2, 1) = <<>>
<1>1. \A q \in Seq(S) : Len(q) \in Nat /\ (Len(q) = 0 => q = <<>>)
  OBVIOUS
<1>2. w # <<>> => Len(w) >= 1 /\ 1 \in 1 .. Len(w) /\ Head(w) = w[1]
  BY <1>1
<1>3. ASSUME Len(w) = 1
      PROVE  Tail(w) = <<>> /\ SubSeq(w, 2, 1) = <<>>
  <2>1. Len(Tail(w)) = 0 /\ Tail(w) \in Seq(S)
    BY <1>3
  <2>2. Tail(w) = <<>>
    BY <1>1, <2>1
  <2>3. SubSeq(w, 2, 1) = <<>>
    OBVIOUS
  <2> QED BY <2>2, <2>3
<1> QED BY <1>1, <1>2, <1>3

(* The one line there is, read.                                            *)
LEMMA ReadsLast ==
  ASSUME Layered, Len(buffer) + Len(wire) + Len(toServer) <= 1, NEW r \in NextReads
  PROVE  /\ r.rest = <<>> /\ r.wire = <<>> /\ toServer = <<>>
         /\ \/ 1 \in 1 .. Len(buffer) /\ r.line = buffer[1]
            \/ 1 \in 1 .. Len(wire) /\ r.line = wire[1]
<1>0. /\ wire \in Seq(LineOf({"clear", "tls"})) /\ buffer \in Seq(LineOf({"clear", "tls"}))
      /\ toServer \in Seq(Command)
  BY DEF Layered
<1>1. CASE buffer # <<>>
  <2>1. r = [line |-> Head(buffer), rest |-> Tail(buffer), wire |-> wire]
    BY <1>1 DEF NextReads
  <2>2. Len(buffer) = 1 /\ Len(wire) = 0 /\ Len(toServer) = 0
    <3>1. Len(buffer) >= 1 /\ Len(buffer) \in Nat /\ Len(wire) \in Nat /\ Len(toServer) \in Nat
      BY <1>0, <1>1, OneAt
    <3> QED BY <3>1, OneOfThree
  <2>3. Tail(buffer) = <<>> /\ wire = <<>> /\ toServer = <<>> /\ Head(buffer) = buffer[1]
    BY <1>0, <1>1, <2>2, OneAt
  <2> QED BY <2>1, <2>2, <2>3
<1>2. CASE buffer = <<>>
  <2>1. PICK n \in 1 .. Len(wire) :
          r = [line |-> wire[1], rest |-> SubSeq(wire, 2, n), wire |-> SubSeq(wire, n + 1, Len(wire))]
    BY <1>2 DEF NextReads
  <2>2. Len(wire) = 1 /\ Len(toServer) = 0 /\ n = 1
    <3>1. Len(buffer) \in Nat /\ Len(wire) \in Nat /\ Len(toServer) \in Nat
      BY <1>0, OneAt
    <3>2. Len(wire) >= 1
      BY <2>1, <3>1
    <3>3. Len(wire) = 1 /\ Len(toServer) = 0
      BY <3>1, <3>2, OneOfThree
    <3> QED BY <2>1, <3>3
  <2>3. SubSeq(wire, 2, 1) = <<>> /\ toServer = <<>>
    BY <1>0, <2>2, OneAt
  <2> QED BY <2>1, <2>2, <2>3
<1> QED BY <1>1, <1>2

(* A command written when nothing is on its way.                           *)
LEMMA AskedAlone ==
  ASSUME NEW c \in Command, c.id = call'.id, c.verb = VerbOf(call'.at),
         buffer' = <<>>, wire' = <<>>, toServer = <<>>, toServer' = toServer \/ toServer' = Append(toServer, c)
  PROVE  OneReply'
<1>1. toServer' \in {<<>>, <<c>>}
  OBVIOUS
<1>2. CASE toServer' = <<>>
  BY <1>2 DEF OneReply, Waiting
<1>3. CASE toServer' = <<c>>
  <2>1. Len(toServer') = 1 /\ \A i \in 1 .. Len(toServer') : toServer'[i] = c
    BY <1>3, ShortAt
  <2> QED BY <2>1 DEF OneReply, Waiting
<1> QED BY <1>1, <1>2, <1>3

LEMMA GoesOnAlone ==
  ASSUME Typed, NEW at, NEW layer \in {"clear", "tls"}, Continue(at, layer),
         buffer' = <<>>, wire' = <<>>, toServer = <<>>
  PROVE  (Idle' => Quiet') /\ (~Idle' => OneReply')
<1>1. CASE call' = NoCall /\ toServer' = toServer
  BY <1>1 DEF NoCall, Idle, Quiet
<1>2. CASE /\ call'.at \in {"STLS", "USER", "APOP", "PASS", "probe"} /\ call'.id = nextId
           /\ \/ server = "gone" /\ toServer' = toServer
              \/ /\ server # "gone"
                 /\ toServer' = Append(toServer, [id |-> nextId, verb |-> VerbOf(call'.at), layer |-> layer])
  <2> DEFINE c == [id |-> nextId, verb |-> VerbOf(call'.at), layer |-> layer]
  <2>1. c \in Command /\ c.id = call'.id /\ c.verb = VerbOf(call'.at)
    BY <1>2 DEF Command, Typed, VerbOf, Verbs
  <2>2. toServer' = toServer \/ toServer' = Append(toServer, c)
    BY <1>2
  <2> HIDE DEF c
  <2> QED BY <1>2, <2>1, <2>2, AskedAlone DEF Idle
<1> QED BY <1>1, <1>2, ContinueShape

LEMMA OwnStep ==
  ASSUME Typed, Placed, OnPlain, Layered, FieldTypes, Opened, HelloLast, OwnInv, [Next]_vars
  PROVE  OwnInv'
<1> USE DEF clientVars, streamVars, serverVars, history
<1>0. /\ wire \in Seq(LineOf({"clear", "tls"})) /\ buffer \in Seq(LineOf({"clear", "tls"}))
      /\ toServer \in Seq(Command)
  BY DEF Layered
<1>r. ASSUME Reading
      PROVE  ~Idle /\ stream \in {"plain", "tls"} /\ (~trouble => OneReply)
  BY <1>r DEF Reading, Placed, Idle, OwnInv
<1>1. CASE UNCHANGED <<call, stream, buffer, wire, toServer, speaks, loggedIn, trouble>>
  BY <1>1 DEF OwnInv, Idle, Quiet, OneReply, Waiting, InHandshake
<1>2. ASSUME stream' = "none"
      PROVE  OwnInv'
  BY <1>2 DEF OwnInv
<1>3. ASSUME stream' # "none", Idle' => Quiet', ~Idle' => OneReply', stream' # "upgrading" \/ Idle'
      PROVE  OwnInv'
  BY <1>3 DEF OwnInv
<1>4. CASE TimeOut \/ Cancel
  BY <1>4 DEF TimeOut, Cancel, OwnInv
<1>5. ASSUME NEW r \in NextReads, Reads(r), ~trouble
      PROVE  /\ buffer' = <<>> /\ wire' = <<>> /\ toServer = <<>>
             /\ r.line.kind = "ok" /\ call.at = "STLS" => speaks = "starting"
  <2>1. OneReply
    BY <1>5, <1>r DEF Reads
  <2>2. /\ r.rest = <<>> /\ r.wire = <<>> /\ toServer = <<>>
        /\ \/ 1 \in 1 .. Len(buffer) /\ r.line = buffer[1]
           \/ 1 \in 1 .. Len(wire) /\ r.line = wire[1]
    BY <2>1, ReadsLast DEF OneReply
  <2> QED BY <1>5, <2>1, <2>2 DEF Reads, OneReply, Waiting
<1>6. CASE ReadGreeting \/ ReadLogin
  <2>1. /\ Reading /\ stream' = stream /\ trouble' = trouble /\ (\E at : Continue(at, Layer))
        /\ \E r \in NextReads : Reads(r)
    BY <1>6 DEF ReadGreeting, ReadLogin, Reads
  <2>2. Layer \in {"clear", "tls"}
    BY DEF Layer
  <2>3. ASSUME ~trouble
        PROVE  (Idle' => Quiet') /\ (~Idle' => OneReply')
    BY <1>5, <2>1, <2>2, <2>3, GoesOnAlone
  <2> QED BY <1>r, <2>1, <2>3 DEF OwnInv
<1>7. CASE ReadSimple \/ ReadErr
  <2>1. /\ Reading /\ UNCHANGED <<stream, trouble, toServer>> /\ (\E val : Return(val))
        /\ \E r \in NextReads : Reads(r)
    BY <1>7 DEF ReadSimple, ReadErr, Reads
  <2>2. ~trouble => Quiet'
    BY <1>5, <2>1 DEF Quiet
  <2> QED BY <2>1, <2>2, ReturnIdle DEF OwnInv
<1>8. CASE ReadEof
  <2>1. Quiet' /\ stream' = stream /\ \E val : Return(val)
    BY <1>8, GivesUp DEF ReadEof, Opened, Quiet
  <2> QED BY <1>8, <2>1, ReturnIdle DEF ReadEof, OwnInv
<1>9. CASE ReadStlsOk
  <2>1. PICK r \in NextReads : Reads(r) /\ r.line.kind = "ok"
    BY <1>9 DEF ReadStlsOk
  <2>2. trouble' = trouble /\ speaks' = speaks /\ call.at = "STLS"
    BY <1>9 DEF ReadStlsOk
  <2>3. CASE trouble
    BY <2>2, <2>3 DEF OwnInv
  <2>4. CASE ~trouble
    <3>1. buffer' = <<>> /\ wire' = <<>> /\ toServer = <<>> /\ speaks = "starting"
      BY <1>5, <2>1, <2>2, <2>4
    <3>2. stream' = "upgrading" /\ StartHandshake
      BY <1>9, <3>1 DEF ReadStlsOk
    <3>3. call'.at = "handshake" /\ (toServer' = <<>> \/ toServer' = <<Hello>>)
      BY <3>1, <3>2 DEF StartHandshake, Typed
    <3>4. \A i \in 1 .. Len(toServer') : toServer'[i].verb = "hello"
      BY <3>3, ShortAt DEF Hello
    <3> QED BY <2>2, <3>1, <3>2, <3>3, <3>4 DEF OwnInv, Idle, InHandshake
  <2> QED BY <2>3, <2>4
<1>10. CASE HandshakeDone
  <2>1. /\ call.at = "handshake" /\ buffer' = <<>> /\ stream' = "tls" /\ wire' = Tail(wire)
        /\ wire # <<>> /\ wire[1].kind = "hello"
    BY <1>10 DEF HandshakeDone, Layered
  <2>2. 1 \in 1 .. Len(wire) /\ Len(wire') = Len(wire) - 1
        /\ \A i \in 1 .. Len(wire') : i + 1 \in 1 .. Len(wire) /\ wire'[i] = wire[i + 1]
    BY <1>0, <2>1
  <2>3. toServer = <<>> /\ Len(wire) <= 2 /\ (stream # "none" => Len(wire) = 1)
    <3>1. toServer = <<>> /\ Len(wire) <= 1 + 1 /\ (Len(wire) = 1 + 1 => stream = "none")
      BY <2>1, <2>2 DEF HelloLast
    <3>2. Len(wire) \in Nat /\ Len(wire) >= 1
      BY <1>0, <2>1, OneAt
    <3>3. \A n \in Nat : n >= 1 /\ n <= 1 + 1 => n <= 2 /\ (n = 1 \/ n = 1 + 1)
      OBVIOUS
    <3> QED BY <3>1, <3>2, <3>3
  <2>4. CASE stream = "none"
    <3>1. call' = [call EXCEPT !.at = "greeting"] /\ toServer' = <<>>
      BY <1>10, <2>3, <2>4 DEF HandshakeDone
    <3>2. call'.at = "greeting" /\ call'.id = 0
      BY <2>4, <3>1 DEF Typed, Opened
    <3>3. Len(wire') <= 1 /\ \A i \in 1 .. Len(wire') : wire'[i].of = 0
      BY <2>2, <2>3, <2>4 DEF Opened
    <3>4. OneReply'
      <4>1. Len(wire') \in Nat
        BY <1>0, <2>1, <2>2
      <4> QED BY <2>1, <3>1, <3>2, <3>3, <4>1 DEF OneReply, Waiting
    <3> QED BY <1>3, <2>1, <3>2, <3>4 DEF Idle
  <2>5. CASE stream # "none"
    <3>1. wire' = <<>> /\ Continue("STLS", "tls")
      <4>1. Len(wire) = 1
        BY <2>3, <2>5
      <4>2. Tail(wire) = <<>>
        BY <1>0, <4>1, OneAt
      <4> QED BY <1>10, <2>1, <2>5, <4>2 DEF HandshakeDone
    <3> QED BY <1>3, <2>1, <2>3, <3>1, GoesOnAlone
  <2> QED BY <2>4, <2>5
<1>11. CASE HandshakeFails
  <2>1. Idle' /\ Quiet'
    BY <1>11, ReturnIdle DEF HandshakeFails, Layered, Quiet
  <2> QED BY <2>1 DEF OwnInv
<1>12. ASSUME NEW op \in Connects, Connect(op)
       PROVE  OwnInv'
  BY <1>2, <1>12 DEF Connect, Placed
<1>13. CASE TcpConnected
  <2>1. stream = "none" /\ Quiet /\ call.id = 0
    BY <1>13 DEF TcpConnected, Placed, Opened
  <2>2. CASE builder.mode = "Tls"
    BY <1>2, <1>13, <2>1, <2>2 DEF TcpConnected
  <2>3. CASE builder.mode # "Tls"
    <3>1. call'.at = "greeting" /\ call'.id = 0 /\ stream' = "plain" /\ toServer' = <<>> /\ buffer' = <<>>
      BY <1>13, <2>1, <2>3 DEF TcpConnected, Typed, Quiet
    <3>2. wire' = <<>> \/ \E kind : wire' = <<[of |-> 0, layer |-> "clear", kind |-> kind]>>
      BY <1>13 DEF TcpConnected
    <3>3. Len(wire') \in 0 .. 1 /\ \A i \in 1 .. Len(wire') : wire'[i].of = 0
      BY <3>2, ShortAt
    <3>4. OneReply'
      BY <3>1, <3>3 DEF OneReply, Waiting
    <3> QED BY <1>3, <3>1, <3>4 DEF Idle
  <2> QED BY <2>2, <2>3
<1>14. CASE TcpFails
  BY <1>2, <1>14 DEF TcpFails, Placed
<1>15. ASSUME NEW op \in Calls, Refuse(op)
       PROVE  OwnInv'
  BY <1>1, <1>15 DEF Refuse
<1>16. ASSUME NEW op \in Calls, Begin(op)
       PROVE  OwnInv'
  <2> DEFINE verb == IF op = "LOGIN" THEN "USER" ELSE op
             c == [id |-> nextId, verb |-> verb, layer |-> Layer]
  <2>1. /\ Idle /\ stream \notin {"none", "upgrading"} /\ call' = [op |-> op, at |-> verb, id |-> nextId]
        /\ UNCHANGED <<stream, buffer, wire, trouble>>
        /\ toServer' = toServer \/ toServer' = Append(toServer, c)
    BY <1>16 DEF Begin, Write, Refused, Placed
  <2>2. c \in Command /\ c.id = call'.id /\ c.verb = VerbOf(call'.at) /\ call'.at # "none"
    BY <2>1 DEF Command, Typed, Verbs, Calls, Layer, VerbOf
  <2>3. ~trouble => Quiet
    BY <2>1 DEF OwnInv
  <2> HIDE DEF c
  <2>4. ~trouble => OneReply'
    BY <2>1, <2>2, <2>3, AskedAlone DEF Quiet
  <2> QED BY <2>1, <2>2, <2>4 DEF OwnInv, Idle
<1>17. CASE Answers
  <2>1. /\ toServer # <<>> /\ Head(toServer) = toServer[1]
        /\ toServer' = Tail(toServer) \/ toServer' = <<>>
        /\ UNCHANGED <<stream, buffer, call>> /\ (loggedIn => loggedIn')
        /\ (speaks = "starting" => speaks' # "clear")
    BY <1>17, AnswerShape
  <2>2. PICK q \in Seq(LineOf({"clear", "tls"})) : wire' = wire \o q
    BY <1>17, AnswerShape
  <2>3. CASE trouble' \/ stream = "none"
    BY <2>1, <2>3 DEF OwnInv
  <2>4. CASE ~trouble' /\ stream # "none"
    <3>1. ~trouble /\ ~Idle
      BY <1>17, <2>1, <2>4 DEF Answers, AcceptHello, Accept, Reject, FieldTypes, OwnInv, Quiet
    <3>2. CASE stream = "upgrading"
      <4>1. /\ call.at = "handshake" /\ buffer = <<>> /\ speaks # "clear"
            /\ \A i \in 1 .. Len(wire) : wire[i].kind = "hello"
            /\ \A i \in 1 .. Len(toServer) : toServer[i].verb = "hello"
        BY <3>1, <3>2 DEF Placed, Reading, Idle, OwnInv, InHandshake
      <4>2. 1 \in 1 .. Len(toServer) /\ toServer[1] = Hello
        <5>1. 1 \in 1 .. Len(toServer)
          BY <1>0, <2>1
        <5> QED BY <4>1, <5>1 DEF Opened
      <4>3. ~Accept
        <5>1. ASSUME Accept
              PROVE  Hello.layer = speaks
          BY <2>1, <4>2, <5>1 DEF Accept, MayAccept
        <5> QED BY <5>1 DEF Hello, Typed
      <4>4. ~Reject
        <5>1. ASSUME Reject
              PROVE  speaks = "tls"
          BY <4>1, <5>1 DEF Reject, Typed
        <5>2. ~NoHello(toServer)
          BY <4>1, <4>2 DEF NoHello
        <5> QED BY <5>1, <5>2 DEF Layered
      <4>5. speaks' = "tls" /\ wire' = wire \o <<[of |-> 0, layer |-> "tls", kind |-> "hello"]>>
        <5> DEFINE h == [of |-> 0, layer |-> "tls", kind |-> "hello"]
        <5>1. EffectivePort # TlsPort /\ AcceptHello
          BY <1>17, <3>2, <4>3, <4>4 DEF Answers, Opened
        <5>2. speaks' = "tls" /\ wire' = wire \o <<h>> \o <<>>
          BY <5>1 DEF AcceptHello
        <5>3. h \in LineOf({"clear", "tls"})
          BY DEF LineOf, Lines
        <5> HIDE DEF h
        <5>4. wire' = wire \o <<h>>
          BY <1>0, <5>2, <5>3
        <5> QED BY <5>2, <5>4 DEF h
      <4>6. \A i \in 1 .. Len(wire') : wire'[i].kind = "hello"
        <5> DEFINE h == [of |-> 0, layer |-> "tls", kind |-> "hello"]
        <5>1. h \in LineOf({"clear", "tls"}) /\ h.kind = "hello"
          BY DEF LineOf, Lines
        <5> HIDE DEF h
        <5> QED BY <1>0, <4>1, <4>5, <5>1 DEF h
      <4>7. \A i \in 1 .. Len(toServer') : toServer'[i].verb = "hello"
        BY <1>0, <2>1, <4>1, LessAt
      <4> QED BY <2>1, <3>2, <4>1, <4>5, <4>6, <4>7 DEF OwnInv, InHandshake, Idle
    <3>3. CASE stream # "upgrading"
      <4>1. stream \in {"plain", "tls"} /\ OneReply /\ call.at # "handshake" /\ NoHello(toServer)
        BY <2>4, <3>1, <3>3 DEF Typed, OwnInv, Placed, Layered
      <4>2. /\ Len(toServer) = 1 /\ buffer = <<>> /\ wire = <<>> /\ toServer' = <<>>
            /\ toServer[1].id = call.id /\ toServer[1].verb = VerbOf(call.at)
        <5>1. Len(toServer) = 1 /\ Len(buffer) = 0 /\ Len(wire) = 0
          <6>1. /\ Len(toServer) >= 1 /\ Len(buffer) \in Nat /\ Len(wire) \in Nat
                /\ Len(toServer) \in Nat
            BY <1>0, <2>1, OneAt
          <6>2. Len(buffer) + Len(wire) + Len(toServer) <= 1
            BY <4>1 DEF OneReply
          <6> QED BY <6>1, <6>2, OneOfThree
        <5>2. Tail(toServer) = <<>> /\ buffer = <<>> /\ wire = <<>> /\ 1 \in 1 .. Len(toServer)
          BY <1>0, <5>1, OneAt
        <5> QED BY <2>1, <4>1, <5>1, <5>2 DEF OneReply
      <4>3. ~AcceptHello
        BY <2>1, <4>1, <4>2 DEF AcceptHello, NoHello
      <4>4. \E kind \in {"ok", "err"} :
              /\ wire' = <<Line(kind)>>
              /\ kind = "ok" => /\ call.at = "STLS" => speaks' = "starting"
                                /\ call.at \in {"PASS", "APOP"} => loggedIn'
        <5>1. CASE Reject
          BY <4>2, <5>1 DEF Reject
        <5>2. CASE Accept
          <6>1. wire' = <<Line("ok")>>
            BY <2>4, <4>2, <5>2 DEF Accept
          <6>2. call.at = "STLS" => speaks' = "starting"
            BY <2>1, <4>2, <5>2 DEF Accept, VerbOf
          <6>3. call.at \in {"PASS", "APOP"} => loggedIn'
            BY <2>1, <4>2, <5>2 DEF Accept, VerbOf
          <6> QED BY <6>1, <6>2, <6>3
        <5> QED BY <1>17, <4>3, <5>1, <5>2 DEF Answers
      <4>5. PICK kind \in {"ok", "err"} :
              /\ wire' = <<Line(kind)>>
              /\ kind = "ok" => /\ call.at = "STLS" => speaks' = "starting"
                                /\ call.at \in {"PASS", "APOP"} => loggedIn'
        BY <4>4
      <4>6. \A i \in 1 .. Len(wire') : wire'[i].of = call.id /\ wire'[i].kind = kind
        BY <2>1, <4>2, <4>5, ShortAt DEF Line
      <4>7. OneReply'
        BY <2>1, <4>2, <4>5, <4>6 DEF OneReply, Waiting
      <4> QED BY <1>3, <2>1, <2>4, <3>1, <3>3, <4>7 DEF Idle
    <3> QED BY <3>2, <3>3
  <2> QED BY <2>3, <2>4
<1>18. CASE Lose
  <2>1. /\ PickPrefix(wire, wire') /\ toServer' = <<>>
        /\ UNCHANGED <<call, stream, buffer, speaks, loggedIn, trouble>>
    BY <1>18 DEF Lose, PickPrefix
  <2>2. /\ wire' \in Seq(LineOf({"clear", "tls"})) /\ Len(wire') <= Len(wire)
        /\ \A i \in 1 .. Len(wire') : i \in 1 .. Len(wire) /\ wire'[i] = wire[i]
        /\ wire = <<>> => wire' = <<>>
    BY <1>0, <2>1, PrefixAt
  <2>3. OneReply => OneReply'
    <3>1. Len(wire') \in Nat /\ Len(wire) \in Nat /\ Len(buffer) \in Nat /\ Len(toServer) \in Nat /\ Len(toServer') = 0
      BY <1>0, <2>1, <2>2
    <3> QED BY <2>1, <2>2, <3>1 DEF OneReply, Waiting
  <2>4. InHandshake => InHandshake'
    BY <2>1, <2>2 DEF InHandshake
  <2> QED BY <2>1, <2>2, <2>3, <2>4 DEF OwnInv, Idle, Quiet
<1>19. ASSUME NEW m \in Modes, NEW a \in Auths, NEW p \in Ports,
              Configure([mode |-> m, auth |-> a, port |-> p])
       PROVE  OwnInv'
  BY <1>1, <1>19 DEF Configure
<1>20. CASE DropClient \/ Over \/ UNCHANGED vars
  BY <1>1, <1>20 DEF DropClient, Over, vars
<1> QED BY <1>4, <1>6, <1>7, <1>8, <1>9, <1>10, <1>11, <1>12, <1>13, <1>14, <1>15, <1>16, <1>17,
           <1>18, <1>19, <1>20 DEF Next, Read, Answers

(* In which order a connect writes its commands, and when it is done.      *)
LEMMA AfterOrder ==
  ASSUME NEW at \in {"greeting", "STLS", "USER", "PASS", "APOP", "probe"}
  PROVE  /\ After(at) \in {"STLS", "USER", "APOP", "PASS", "probe", "done"}
         /\ at \in {"greeting", "STLS"} => After(at) \in {"STLS", "USER", "APOP", "done"}
         /\ After(at) = "STLS" <=> at = "greeting" /\ builder.mode = "StartTls"
         /\ at = "USER" => After(at) = "PASS"
         /\ at \in {"PASS", "APOP"} => After(at) = "probe"
         /\ at = "probe" => After(at) \in {"USER", "APOP", "done"}
<1>1. CASE at = "USER"
  BY <1>1 DEF After
<1>2. CASE at \in {"PASS", "APOP"}
  BY <1>2 DEF After
<1>3. CASE at \in {"greeting", "STLS", "probe"}
  <2>1. \/ After(at) = "STLS" /\ at = "greeting" /\ builder.mode = "StartTls"
        \/ /\ After(at) = IF Configured(at) THEN IF builder.auth = "Apop" THEN "APOP" ELSE "USER"
                          ELSE IF CallerLogsIn(at) THEN "USER" ELSE "done"
           /\ ~(at = "greeting" /\ builder.mode = "StartTls")
    BY <1>3 DEF After
  <2> QED BY <1>3, <2>1
<1> QED BY <1>1, <1>2, <1>3

(* Whose connect is done without a login.                                  *)
LEMMA NoLoginLeft ==
  ASSUME Typed, Placed, FieldTypes, OpInv, ~Idle, NEW at \in {"greeting", "STLS"},
         call.at = at \/ (at = "STLS" /\ call.at = "handshake" /\ stream # "none"),
         After(at) = "done"
  PROVE  call.op \in Calls \/ (call.op \notin Wrapped /\ builder.auth = "None")
<1>1. ~Configured(at) /\ ~CallerLogsIn(at) /\ (builder.mode = "StartTls" => at = "STLS")
  BY DEF After
<1>2. CASE client = "open"
  BY <1>2 DEF Placed
<1>3. CASE client = "connecting"
  <2>1. call.op \in Connects /\ state = "Connected"
    BY <1>3 DEF Placed, OpInv
  <2>2. builder.auth = "None"
    BY <1>1, <2>1 DEF Configured
  <2>3. CASE at = "greeting" /\ builder.mode # "StartTls"
    <3>1. ConnectReturns(at)
      BY <2>2, <2>3 DEF ConnectReturns
    <3> QED BY <1>1, <2>1, <2>2, <3>1 DEF CallerLogsIn, Wrapped
  <2>4. CASE at = "STLS"
    <3>1. builder.mode = "StartTls"
      BY <1>3, <2>4 DEF OpInv
    <3>2. ConnectReturns(at)
      BY <2>2, <2>4, <3>1 DEF ConnectReturns
    <3> QED BY <1>1, <2>1, <2>2, <3>2 DEF CallerLogsIn, Wrapped
  <2> QED BY <1>1, <2>3, <2>4
<1> QED BY <1>2, <1>3 DEF Placed, Typed

(* An accepted PASS or APOP that is read without trouble was accepted.     *)
LEMMA ReadsTrueLogin ==
  ASSUME Typed, Placed, Layered, OwnInv, ~trouble, NEW r \in NextReads, Reads(r),
         r.line.kind = "ok", call.at \in {"PASS", "APOP"}
  PROVE  loggedIn
<1>1. OneReply
  BY DEF OwnInv, Reads, Reading, Placed, Idle
<1>2. \/ 1 \in 1 .. Len(buffer) /\ r.line = buffer[1]
      \/ 1 \in 1 .. Len(wire) /\ r.line = wire[1]
  BY <1>1, ReadsLast DEF OneReply
<1> QED BY <1>1, <1>2 DEF OneReply, Waiting

LEMMA OpStep ==
  ASSUME Typed, Placed, OnPlain, Layered, FieldTypes, Opened, OwnInv, OpInv, [Next]_vars
  PROVE  OpInv'
<1> USE DEF clientVars, streamVars, serverVars, history
<1>0. toServer \in Seq(Command)
  BY DEF Layered
<1>1. CASE UNCHANGED <<builder, call, client, ret, stream, trouble, state, loggedIn>>
  BY <1>1 DEF OpInv, Idle
<1>2. ASSUME NEW val, Return(val)
      PROVE  OpInv'
  <2>1. call'.at = "none" /\ client' \in {"open", "dropped"}
    BY <1>2 DEF Return, NoCall
  <2> QED BY <2>1 DEF OpInv
<1>3. CASE \/ TcpFails \/ ReadSimple \/ ReadErr \/ ReadEof \/ TimeOut \/ HandshakeFails \/ Cancel
  BY <1>2, <1>3, GivesUp DEF TcpFails, ReadSimple, ReadErr, HandshakeFails, Cancel
<1>4. ASSUME NEW at \in {"greeting", "STLS", "USER", "PASS", "APOP", "probe"}, NEW layer,
             Continue(at, layer), ~Idle, builder' = builder, client = "connecting" => ~trouble',
             at = "greeting" /\ client = "connecting" => state' = "Connected",
             at \in {"PASS", "APOP"} /\ client = "connecting" => state' = "Authenticated" /\ loggedIn'
      PROVE  OpInv'
  <2>1. CASE call' = NoCall /\ client' \in {"open", "dropped"}
    BY <2>1 DEF NoCall, OpInv
  <2>2. CASE /\ call'.at \in {"STLS", "USER", "APOP", "PASS", "probe"} /\ call'.at = After(at)
             /\ client' = client
    <3>1. /\ call'.at = "probe" => at \in {"PASS", "APOP"}
          /\ call'.at = "STLS" => at = "greeting" /\ builder.mode = "StartTls"
      BY <2>2, AfterOrder
    <3>2. client # "building"
      BY <1>4 DEF Placed
    <3> QED BY <1>4, <2>2, <3>1, <3>2 DEF OpInv, Idle
  <2> QED BY <1>4, <2>1, <2>2, ContinueShape
<1>5. CASE ReadGreeting
  <2>1. /\ call.at = "greeting" /\ ~Idle /\ Continue("greeting", Layer)
        /\ UNCHANGED <<builder, trouble, state>>
    BY <1>5 DEF ReadGreeting, Idle
  <2>2. client = "connecting" => ~trouble /\ state = "Connected"
    BY <2>1 DEF OpInv
  <2> QED BY <1>4, <2>1, <2>2
<1>6. CASE ReadLogin
  <2>1. /\ call.at \in {"USER", "PASS", "APOP", "probe"} /\ ~Idle /\ Continue(call.at, Layer)
        /\ UNCHANGED <<builder, trouble, loggedIn>>
    BY <1>6 DEF ReadLogin, Idle, Secrets
  <2>2. client = "connecting" => ~trouble
    BY <2>1 DEF OpInv
  <2>3. ASSUME call.at \in {"PASS", "APOP"}, client = "connecting"
        PROVE  state' = "Authenticated" /\ loggedIn
    <3>1. PICK r \in NextReads : Reads(r) /\ r.line.kind = "ok"
      BY <1>6, <2>3 DEF ReadLogin
    <3> QED BY <1>6, <2>2, <2>3, <3>1, ReadsTrueLogin DEF ReadLogin
  <2> QED BY <1>4, <2>1, <2>2, <2>3
<1>7. CASE HandshakeDone
  <2>1. call.at = "handshake" /\ ~Idle /\ trouble' = FALSE /\ UNCHANGED <<builder, state>>
    BY <1>7 DEF HandshakeDone, Idle
  <2>2. CASE stream = "none"
    <3>1. call'.at = "greeting" /\ client' = client /\ client # "building"
      BY <1>7, <2>1, <2>2 DEF HandshakeDone, Typed, Placed
    <3> QED BY <2>1, <3>1 DEF OpInv, Idle
  <2>3. CASE stream # "none"
    <3>1. Continue("STLS", "tls")
      BY <1>7, <2>3 DEF HandshakeDone
    <3> QED BY <1>4, <2>1, <3>1
  <2> QED BY <2>2, <2>3
<1>8. CASE ReadStlsOk
  <2>1. CASE StartHandshake
    <3>1. /\ call'.at = "handshake" /\ ~Idle /\ call.at = "STLS"
          /\ UNCHANGED <<client, state, builder>>
      BY <1>8, <2>1 DEF StartHandshake, Typed, ReadStlsOk, Idle
    <3> QED BY <3>1 DEF OpInv, Idle, Placed
  <2> QED BY <1>2, <1>8, <2>1 DEF ReadStlsOk
<1>9. ASSUME NEW op \in Connects, Connect(op)
      PROVE  OpInv'
  <2>1. /\ call'.at = "tcp" /\ trouble' = trouble /\ ~trouble /\ client' = "connecting"
        /\ state' = state /\ state = "Connected"
    BY <1>9 DEF Connect, NoCall, OpInv
  <2> QED BY <2>1 DEF OpInv, Idle
<1>10. CASE TcpConnected
  <2>1. /\ call'.at \in {"greeting", "handshake"} /\ call.at = "tcp"
        /\ UNCHANGED <<client, trouble, state>> /\ (call'.at = "handshake" => stream' = "none")
    BY <1>10 DEF TcpConnected, Typed, Placed
  <2>2. client = "connecting" /\ ~trouble /\ state = "Connected"
    BY <2>1 DEF Placed, Typed, Idle, OpInv
  <2> QED BY <2>1, <2>2 DEF OpInv, Idle
<1>11. ASSUME NEW op \in Calls, Refuse(op)
       PROVE  OpInv'
  <2>1. client' \in {"open", "dropped"} /\ call' = call /\ call.at = "none"
    BY <1>11 DEF Refuse, Idle
  <2> QED BY <2>1 DEF OpInv
<1>12. ASSUME NEW op \in Calls, Begin(op)
       PROVE  OpInv'
  <2>1. client' = "open" /\ call' = [op |-> op, at |-> IF op = "LOGIN" THEN "USER" ELSE op, id |-> nextId]
    BY <1>12 DEF Begin
  <2> QED BY <2>1 DEF OpInv
<1>13. CASE Answers
  <2>1. /\ toServer # <<>> /\ Head(toServer) = toServer[1]
        /\ UNCHANGED <<builder, call, client, ret, state, stream>>
        /\ loggedIn => loggedIn'
    BY <1>13, AnswerShape
  <2>2. ASSUME trouble' # trouble
        PROVE  Accept /\ toServer[1].verb = "STLS"
    BY <1>13, <2>1, <2>2 DEF Answers, AcceptHello, Accept, Reject
  <2>3. client # "building"
    BY <2>1 DEF Placed, Opened, Idle, Quiet
  <2>4. ASSUME client = "connecting", call.at \notin {"STLS", "handshake"}, trouble' # trouble
        PROVE  FALSE
    <3>1. ~trouble /\ ~Idle
      BY <2>4 DEF OpInv
    <3>2. stream # "none"
      BY <2>1, <2>4 DEF Opened, Quiet
    <3>3. stream \in {"plain", "tls"} /\ OneReply
      BY <2>4, <3>1, <3>2 DEF OwnInv, Placed, Reading, Idle
    <3>4. 1 \in 1 .. Len(toServer)
      BY <1>0, <2>1, OneAt
    <3>5. VerbOf(call.at) = "STLS"
      BY <2>2, <2>4, <3>3, <3>4 DEF OneReply
    <3> QED BY <2>4, <3>5 DEF VerbOf
  <2> QED BY <2>1, <2>3, <2>4 DEF OpInv, Idle, FieldTypes
<1>14. ASSUME NEW m \in Modes, NEW a \in Auths, NEW p \in Ports,
              Configure([mode |-> m, auth |-> a, port |-> p])
       PROVE  OpInv'
  <2>1. client' = "building" /\ call' = call /\ UNCHANGED <<ret, trouble, state>> /\ client = "building"
    BY <1>14 DEF Configure
  <2> QED BY <2>1 DEF OpInv, Placed, Idle
<1>15. CASE DropClient
  <2>1. client' = "dropped" /\ call' = call /\ call.at = "none"
    BY <1>15 DEF DropClient, Idle
  <2> QED BY <2>1 DEF OpInv
<1>16. CASE Lose \/ Over \/ UNCHANGED vars
  BY <1>1, <1>16 DEF Lose, Over, vars
<1> QED BY <1>3, <1>5, <1>6, <1>7, <1>8, <1>9, <1>10, <1>11, <1>12, <1>13, <1>14, <1>15,
           <1>16 DEF Next, Read, Answers

-----------------------------------------------------------------------------
(***************************************************************************)
(* What a connect returns.                                                 *)
(***************************************************************************)
LEMMA ContinueEnds ==
  ASSUME Typed, NEW at, NEW layer, Continue(at, layer)
  PROVE  \/ ret' = ret /\ client' = client
         \/ Return("ServerError")
         \/ After(at) \in {"USER", "APOP"} /\ state # "Connected" /\ Return("NotAuthenticated")
         \/ After(at) = "done" /\ Return("Ok")
BY AfterFacts DEF Continue, Go

LEMMA AuthStep ==
  ASSUME Typed, Placed, FieldTypes, OpInv, ConnectIsAuthenticated, [Next]_vars
  PROVE  ConnectIsAuthenticated'
<1> USE DEF clientVars, streamVars, serverVars, history
<1>0. Calls \cap Connects = {}
  BY DEF Calls, Connects, Wrapped
<1>1. ASSUME NEW val, Return(val), builder' = builder,
             val = "Ok" => \/ call.op \in Calls
                           \/ state' = "Authenticated" /\ loggedIn'
                           \/ call.op \notin Wrapped /\ builder.auth = "None"
      PROVE  ConnectIsAuthenticated'
  <2>1. ret' = [op |-> call.op, val |-> val]
    BY <1>1 DEF Return
  <2> QED BY <1>0, <1>1, <2>1 DEF ConnectIsAuthenticated
<1>2. ASSUME ret' = ret, client' = "open" => client = "open", builder' = builder,
             state' \in {state, "Authenticated"}, loggedIn => loggedIn'
      PROVE  ConnectIsAuthenticated'
  BY <1>2 DEF ConnectIsAuthenticated
<1>3. ASSUME call.at = "probe"
      PROVE  call.op \in Calls \/ (state = "Authenticated" /\ loggedIn)
  BY <1>3 DEF OpInv, Placed, Typed, Idle
<1>4. ASSUME NEW at, NEW layer, Continue(at, layer), ~Idle, UNCHANGED <<builder, loggedIn>>,
             state' \in {state, "Authenticated"}, at = "probe" => state' = state,
             \/ call.at = at /\ at \in {"greeting", "USER", "PASS", "APOP", "probe"}
             \/ call.at = "handshake" /\ stream # "none" /\ at = "STLS"
      PROVE  ConnectIsAuthenticated'
  <2>1. CASE Return("ServerError") \/ Return("NotAuthenticated")
    BY <1>1, <1>4, <2>1
  <2>2. CASE After(at) = "done" /\ Return("Ok")
    <3>1. at \in {"greeting", "STLS", "probe"}
      BY <1>4, <2>2, AfterOrder
    <3>2. CASE at = "probe"
      BY <1>1, <1>3, <1>4, <2>2, <3>2
    <3>3. CASE at # "probe"
      <4>1. call.op \in Calls \/ (call.op \notin Wrapped /\ builder.auth = "None")
        BY <1>4, <2>2, <3>1, <3>3, NoLoginLeft
      <4> QED BY <1>1, <1>4, <2>2, <4>1
    <3> QED BY <3>2, <3>3
  <2> QED BY <1>2, <1>4, <2>1, <2>2, ContinueEnds
<1>5. CASE ReadGreeting
  <2>1. /\ call.at = "greeting" /\ ~Idle /\ Continue("greeting", Layer)
        /\ UNCHANGED <<builder, state, loggedIn>>
    BY <1>5 DEF ReadGreeting, Idle
  <2> QED BY <1>4, <2>1
<1>6. CASE ReadLogin
  <2>1. /\ call.at \in {"USER", "PASS", "APOP", "probe"} /\ ~Idle /\ Continue(call.at, Layer)
        /\ state' \in {state, "Authenticated"} /\ UNCHANGED <<builder, loggedIn>>
        /\ call.at = "probe" => state' = state
    BY <1>6 DEF ReadLogin, Secrets, Idle
  <2> QED BY <1>4, <2>1
<1>7. CASE ReadSimple
  <2>1. call.op \in Calls /\ Return("Ok") /\ builder' = builder
    BY <1>7 DEF ReadSimple, OpInv, Calls
  <2> QED BY <1>1, <2>1
<1>8. CASE ReadErr
  <2>1. Return("AuthFailed") \/ Return("ServerError")
    BY <1>8 DEF ReadErr
  <2> QED BY <1>1, <1>8, <2>1 DEF ReadErr
<1>9. CASE ReadEof \/ TimeOut
  <2>1. UNCHANGED <<builder, state, loggedIn>>
    BY <1>9, GivesUp
  <2>2. PICK val : Return(val) /\ (call.at # "probe" => val \in {"Io", "Timeout"})
    BY <1>9, GivesUp
  <2> QED BY <1>1, <1>3, <2>1, <2>2
<1>10. CASE ReadStlsOk
  <2>1. UNCHANGED <<builder, state, loggedIn>>
    BY <1>10 DEF ReadStlsOk
  <2>2. Return("Io") \/ StartHandshake
    BY <1>10 DEF ReadStlsOk
  <2> QED BY <1>1, <1>2, <2>1, <2>2 DEF StartHandshake
<1>11. CASE HandshakeDone
  <2>1. call.at = "handshake" /\ ~Idle /\ UNCHANGED <<builder, state, loggedIn>>
    BY <1>11 DEF HandshakeDone, Idle
  <2>2. (ret' = ret /\ client' = client) \/ (stream # "none" /\ Continue("STLS", "tls"))
    BY <1>11 DEF HandshakeDone
  <2> QED BY <1>2, <1>4, <2>1, <2>2
<1>12. CASE HandshakeFails \/ Cancel \/ TcpFails
  <2>1. builder' = builder /\ \E val \in {"Tls", "Cancelled", "Io"} : Return(val)
    BY <1>12 DEF HandshakeFails, Cancel, TcpFails
  <2> QED BY <1>1, <2>1
<1>13. ASSUME NEW op \in Calls, Refuse(op) \/ Begin(op)
       PROVE  ConnectIsAuthenticated'
  <2>1. ret'.op = op
    BY <1>13 DEF Refuse, Begin
  <2> QED BY <1>0, <2>1 DEF ConnectIsAuthenticated
<1>14. ASSUME NEW m \in Modes, NEW a \in Auths, NEW p \in Ports,
              Configure([mode |-> m, auth |-> a, port |-> p])
       PROVE  ConnectIsAuthenticated'
  BY <1>14 DEF Configure, ConnectIsAuthenticated
<1>15. ASSUME NEW op \in Connects, Connect(op)
       PROVE  ConnectIsAuthenticated'
  BY <1>15 DEF Connect, ConnectIsAuthenticated
<1>16. CASE TcpConnected \/ DropClient \/ AcceptHello \/ Reject \/ Lose \/ Over \/ UNCHANGED vars
  <2>1. /\ ret' = ret /\ (client' = "open" => client = "open") /\ builder' = builder
        /\ state' = state /\ (loggedIn => loggedIn')
    BY <1>16 DEF TcpConnected, DropClient, AcceptHello, Reject, Lose, Over, vars
  <2> QED BY <1>2, <2>1
<1>17. CASE Accept
  <2>1. ret' = ret /\ client' = client /\ builder' = builder /\ state' = state
    BY <1>17 DEF Accept
  <2>2. loggedIn => loggedIn'
    BY <1>17 DEF Accept
  <2> QED BY <1>2, <2>1, <2>2
<1> QED BY <1>5, <1>6, <1>7, <1>8, <1>9, <1>10, <1>11, <1>12, <1>13, <1>14, <1>15, <1>16,
           <1>17 DEF Next, Read

LEMMA SecondStep ==
  ASSUME Typed, Placed, OpInv, NoSecondLogin, [Next]_vars
  PROVE  NoSecondLogin'
<1> USE DEF clientVars, streamVars, serverVars, history
<1>0. Calls \cap Connects = {}
  BY DEF Calls, Connects, Wrapped
<1>1. ASSUME ret' = ret, builder' = builder, loggedIn => loggedIn'
      PROVE  NoSecondLogin'
  BY <1>1 DEF NoSecondLogin
<1>2. ASSUME NEW val, Return(val), builder' = builder,
             val = "NotAuthenticated" /\ call.op \in Connects
               => call.op = "RECONNECT" /\ builder.auth # "None" /\ loggedIn'
      PROVE  NoSecondLogin'
  <2>1. ret' = [op |-> call.op, val |-> val]
    BY <1>2 DEF Return
  <2> QED BY <1>2, <2>1 DEF NoSecondLogin
<1>3. ASSUME ~Idle, call.op \in Connects
      PROVE  client = "connecting"
  BY <1>0, <1>3 DEF Placed, Typed
<1>4. ASSUME ~Idle, call.op \in Connects, call.at = "probe", After("probe") # "done"
      PROVE  call.op = "RECONNECT" /\ builder.auth # "None" /\ loggedIn
  <2>1. state = "Authenticated" /\ loggedIn
    BY <1>3, <1>4 DEF OpInv
  <2>2. CallerLogsIn("probe")
    BY <1>4 DEF After, Configured
  <2>3. call.op = "RECONNECT"
    BY <2>1, <2>2 DEF CallerLogsIn
  <2>4. builder.auth # "None"
    <3>1. \A at \in {"greeting", "STLS"} : at # "probe"
      OBVIOUS
    <3> QED BY <2>2, <3>1 DEF CallerLogsIn, ConnectReturns
  <2> QED BY <2>1, <2>3, <2>4
<1>5. ASSUME NEW at, NEW layer, Continue(at, layer), ~Idle, UNCHANGED <<builder, loggedIn>>,
             \/ call.at = at /\ at \in {"greeting", "USER", "PASS", "APOP", "probe"}
             \/ call.at = "handshake" /\ at = "STLS"
      PROVE  NoSecondLogin'
  <2>1. CASE Return("ServerError") \/ Return("Ok")
    BY <1>2, <1>5, <2>1
  <2>2. CASE After(at) \in {"USER", "APOP"} /\ state # "Connected" /\ Return("NotAuthenticated")
    <3>1. at \in {"greeting", "STLS", "probe"}
      BY <1>5, <2>2, AfterOrder
    <3>2. at # "probe" => client # "connecting"
      BY <1>5, <2>2, <3>1 DEF OpInv
    <3>3. at = "probe" => call.at = "probe" /\ After("probe") # "done"
      BY <1>5, <2>2
    <3> QED BY <1>2, <1>3, <1>4, <1>5, <2>2, <3>2, <3>3
  <2> QED BY <1>1, <1>5, <2>1, <2>2, ContinueEnds
<1>6. CASE ReadGreeting
  <2>1. call.at = "greeting" /\ ~Idle /\ Continue("greeting", Layer) /\ UNCHANGED <<builder, loggedIn>>
    BY <1>6 DEF ReadGreeting, Idle
  <2> QED BY <1>5, <2>1
<1>7. CASE ReadLogin
  <2>1. /\ call.at \in {"USER", "PASS", "APOP", "probe"} /\ ~Idle /\ Continue(call.at, Layer)
        /\ UNCHANGED <<builder, loggedIn>>
    BY <1>7 DEF ReadLogin, Secrets, Idle
  <2> QED BY <1>5, <2>1
<1>8. CASE ReadSimple \/ ReadErr \/ HandshakeFails \/ Cancel \/ TcpFails
  <2>1. /\ \E val \in {"Ok", "AuthFailed", "ServerError", "Tls", "Cancelled", "Io"} : Return(val)
        /\ builder' = builder
    BY <1>8 DEF ReadSimple, ReadErr, HandshakeFails, Cancel, TcpFails
  <2> QED BY <1>2, <2>1
<1>9. CASE ReadEof \/ TimeOut
  <2>1. Reading /\ ~Idle /\ ReadFails(IF TimeOut THEN "Timeout" ELSE "Io") /\ UNCHANGED <<builder, loggedIn>>
    BY <1>9, GivesUp DEF ReadEof, TimeOut, Reading, Idle
  <2>2. CASE call.at = "probe"
    BY <1>5, <2>1, <2>2 DEF ReadFails
  <2>3. CASE call.at # "probe"
    <3>1. PICK val : Return(val) /\ val \in {"Io", "Timeout"}
      BY <1>9, <2>3, GivesUp
    <3> QED BY <1>2, <2>1, <3>1
  <2> QED BY <2>2, <2>3
<1>10. CASE ReadStlsOk
  <2>1. (Return("Io") \/ ret' = ret) /\ UNCHANGED <<builder, loggedIn>>
    BY <1>10 DEF ReadStlsOk, StartHandshake
  <2> QED BY <1>1, <1>2, <2>1
<1>11. CASE HandshakeDone
  <2>1. /\ call.at = "handshake" /\ ~Idle /\ UNCHANGED <<builder, loggedIn>>
        /\ ret' = ret \/ Continue("STLS", "tls")
    BY <1>11 DEF HandshakeDone, Idle
  <2> QED BY <1>1, <1>5, <2>1
<1>12. ASSUME NEW op \in Calls, Refuse(op) \/ Begin(op)
       PROVE  NoSecondLogin'
  <2>1. ret'.op = op
    BY <1>12 DEF Refuse, Begin
  <2> QED BY <1>0, <2>1 DEF NoSecondLogin
<1>13. ASSUME NEW m \in Modes, NEW a \in Auths, NEW p \in Ports,
              Configure([mode |-> m, auth |-> a, port |-> p])
       PROVE  NoSecondLogin'
  <2>1. ret' = ret /\ ret.val = "none"
    BY <1>13 DEF Configure, OpInv
  <2> QED BY <2>1 DEF NoSecondLogin
<1>14. CASE \/ (\E op \in Connects : Connect(op)) \/ TcpConnected \/ DropClient
            \/ AcceptHello \/ Reject \/ Lose \/ Over \/ UNCHANGED vars
  <2>1. UNCHANGED <<ret, builder, loggedIn>>
    BY <1>14 DEF Connect, TcpConnected, DropClient, AcceptHello, Reject, Lose, Over, vars
  <2> QED BY <1>1, <2>1
<1>15. CASE Accept
  <2>1. UNCHANGED <<ret, builder>> /\ (loggedIn => loggedIn')
    BY <1>15 DEF Accept
  <2> QED BY <1>1, <2>1
<1> QED BY <1>6, <1>7, <1>8, <1>9, <1>10, <1>11, <1>12, <1>13, <1>14, <1>15 DEF Next, Read

-----------------------------------------------------------------------------
(***************************************************************************)
(* The numbers of commands.                                                *)
(***************************************************************************)
LEMMA BelowMore ==
  ASSUME NEW m \in Nat, NEW n \in Nat, m <= n, NEW q \in Seq(Below(m))
  PROVE  q \in Seq(Below(n))
<1>1. \A i \in 1 .. Len(q) : q[i] \in Below(m)
  OBVIOUS
<1>2. \A l \in Below(m) : l \in Below(n)
  BY DEF Below, LineOf, Lines
<1> QED BY <1>1, <1>2

(* A step that writes one command at most, and takes lines only off the    *)
(* queues.                                                                 *)
LEMMA IdKept ==
  ASSUME Typed, Layered, IdInv, nextId' \in {nextId, nextId + 1},
         nextId' <= MaxCommands + Allowed(call'.at), MaxCommands \in Nat,
         stream' = "none" => stream = "none" /\ nextId' = nextId,
         wire' \in Seq(Below(nextId)), buffer' \in Seq(Below(nextId)),
         \/ toServer' = toServer \/ toServer' = <<>>
         \/ \E c \in Command : c.id < nextId' /\ toServer' = Append(toServer, c)
  PROVE  IdInv'
<1>1. nextId \in Nat /\ nextId' \in Nat /\ nextId <= nextId' /\ nextId >= 1 /\ nextId' >= 1
      /\ toServer \in Seq(Command) /\ \A at : Allowed(at) \in 1 .. 5
  BY DEF Typed, IdInv, Layered, Allowed
<1>2. wire' \in Seq(Below(nextId')) /\ buffer' \in Seq(Below(nextId'))
  BY <1>1, BelowMore
<1>3. \A i \in 1 .. Len(toServer') : toServer'[i].id < nextId'
  <2>1. \A i \in 1 .. Len(toServer) : toServer[i].id < nextId /\ toServer[i].id \in Nat
    <3>1. \A i \in 1 .. Len(toServer) : toServer[i] \in Command
      BY <1>1
    <3> QED BY <3>1 DEF IdInv, Command
  <2>2. \A i \in 1 .. Len(toServer) : toServer[i].id < nextId'
    BY <1>1, <2>1
  <2>3. ASSUME NEW c \in Command, c.id < nextId', toServer' = Append(toServer, c)
        PROVE  \A i \in 1 .. Len(toServer') : toServer'[i].id < nextId'
    BY <1>1, <2>2, <2>3
  <2> QED BY <2>2, <2>3
<1>4. nextId' \in 1 .. MaxCommands + Allowed(call'.at)
  BY <1>1
<1> QED BY <1>2, <1>3, <1>4 DEF IdInv, Below, LineOf, Lines

LEMMA IdStep ==
  ASSUME Typed, Placed, OnPlain, Layered, Opened, IdInv, [Next]_vars
  PROVE  IdInv'
<1> USE DEF clientVars, streamVars, serverVars, history
<1>0. /\ wire \in Seq(Below(nextId)) /\ buffer \in Seq(Below(nextId)) /\ toServer \in Seq(Command)
      /\ nextId \in Nat /\ nextId >= 1 /\ nextId <= MaxCommands + Allowed(call.at)
      /\ MaxCommands \in Nat /\ \A at : Allowed(at) \in 1 .. 5
  BY BoundIsNat DEF IdInv, Layered, Typed, Allowed
<1>a. Allowed("none") = 5
  BY DEF Allowed
<1>1. ASSUME nextId' = nextId, Allowed(call.at) <= Allowed(call'.at), stream' = "none" => stream = "none",
             \/ UNCHANGED <<wire, buffer>>
             \/ \E r \in NextReads : Reads(r)
             \/ wire' = <<>> /\ buffer' = buffer,
             \/ toServer' = toServer \/ toServer' = <<>>
             \/ \E c \in Command : c.id < nextId /\ toServer' = Append(toServer, c)
      PROVE  IdInv'
  <2>1. wire' \in Seq(Below(nextId)) /\ buffer' \in Seq(Below(nextId))
    <3>1. ASSUME NEW r \in NextReads, Reads(r)
          PROVE  wire' \in Seq(Below(nextId)) /\ buffer' \in Seq(Below(nextId))
      <4>1. wire # <<>> \/ buffer # <<>>
        BY DEF NextReads
      <4> QED BY <1>0, <3>1, <4>1, ReadFacts DEF Reads
    <3>2. CASE wire' = <<>> /\ buffer' = buffer
      BY <1>0, <3>2, ShortSeqs
    <3>3. CASE UNCHANGED <<wire, buffer>>
      BY <1>0, <3>3
    <3> QED BY <1>1, <3>1, <3>2, <3>3
  <2>2. nextId' <= MaxCommands + Allowed(call'.at)
    <3>1. Allowed(call.at) \in Nat /\ Allowed(call'.at) \in Nat
      BY DEF Allowed
    <3> QED BY <1>0, <1>1, <3>1
  <2> QED BY <1>1, <2>1, <2>2, <1>0, IdKept
<1>2. ASSUME NEW at \in {"greeting", "STLS", "USER", "PASS", "APOP", "probe"}, NEW layer \in {"clear", "tls"},
             Continue(at, layer), Allowed(call.at) = Allowed(at), stream' # "none",
             at = "probe" => call.at = "probe",
             (UNCHANGED buffer /\ wire' = Tail(wire) /\ wire # <<>>) \/ \E r \in NextReads : Reads(r)
      PROVE  IdInv'
  <2>1. wire' \in Seq(Below(nextId)) /\ buffer' \in Seq(Below(nextId))
    <3>1. ASSUME NEW r \in NextReads, Reads(r)
          PROVE  wire' \in Seq(Below(nextId)) /\ buffer' \in Seq(Below(nextId))
      <4>1. wire # <<>> \/ buffer # <<>>
        BY DEF NextReads
      <4> QED BY <1>0, <3>1, <4>1, ReadFacts DEF Reads
    <3>2. wire # <<>> => Tail(wire) \in Seq(Below(nextId))
      BY <1>0
    <3> QED BY <1>0, <1>2, <3>1, <3>2
  <2>2. CASE call' = NoCall /\ nextId' = nextId /\ toServer' = toServer
    <3>1. call'.at = "none"
      BY <2>2 DEF NoCall
    <3>2. nextId' <= MaxCommands + Allowed(call'.at)
      BY <1>0, <1>a, <2>2, <3>1
    <3> QED BY <1>0, <1>2, <2>1, <2>2, <3>2, IdKept
  <2>3. CASE /\ call'.at \in {"STLS", "USER", "APOP", "PASS", "probe"} /\ call'.at = After(at)
             /\ nextId' = nextId + 1
             /\ \/ server = "gone" /\ toServer' = toServer
                \/ /\ server # "gone"
                   /\ toServer' = Append(toServer, [id |-> nextId, verb |-> VerbOf(call'.at), layer |-> layer])
    <3> DEFINE c == [id |-> nextId, verb |-> VerbOf(call'.at), layer |-> layer]
    <3>1. c \in Command /\ c.id < nextId'
      BY <1>0, <2>3 DEF Command, VerbOf, Verbs
    <3>2. toServer' = toServer \/ toServer' = Append(toServer, c)
      BY <2>3
    <3> HIDE DEF c
    <3>3. Allowed(at) + 1 <= Allowed(call'.at)
      <4>1. ASSUME at = "probe"
            PROVE  FALSE
        <5>1. state = "Authenticated"
          BY <1>2, <4>1 DEF Placed
        <5>2. call'.at = "none"
          BY <1>2, <4>1, <5>1, ProbeEnds DEF Return, NoCall
        <5> QED BY <2>3, <5>2
      <4> QED BY <2>3, <4>1, AfterOrder DEF Allowed
    <3>4. nextId' <= MaxCommands + Allowed(call'.at)
      <4>1. nextId <= MaxCommands + Allowed(at) /\ nextId' = nextId + 1
        BY <1>0, <1>2, <2>3
      <4> QED BY <1>0, <3>3, <4>1
    <3> QED BY <1>0, <1>2, <2>1, <2>3, <3>1, <3>2, <3>4, IdKept
  <2> QED BY <1>2, <2>2, <2>3, ContinueShape
<1>3. ASSUME NEW val, Return(val)
      PROVE  nextId' = nextId /\ Allowed(call.at) <= Allowed(call'.at)
  <2>1. nextId' = nextId /\ call'.at = "none"
    BY <1>3 DEF Return, NoCall
  <2>2. Allowed(call.at) \in 1 .. 5
    BY <1>0
  <2> QED BY <1>a, <2>1, <2>2
<1>4. CASE \/ ReadSimple \/ ReadErr \/ ReadEof \/ TimeOut \/ TcpFails
  <2>1. /\ \E val : Return(val)
        /\ UNCHANGED <<stream, toServer>>
        /\ UNCHANGED <<wire, buffer>> \/ \E r \in NextReads : Reads(r)
    BY <1>4, GivesUp DEF ReadSimple, ReadErr, TcpFails
  <2> QED BY <1>1, <1>3, <2>1
<1>5. CASE HandshakeFails \/ Cancel
  <2>1. /\ \E val : Return(val)
        /\ UNCHANGED <<stream, buffer>>
        /\ toServer' \in {toServer, <<>>} /\ wire' \in {wire, <<>>}
    BY <1>5 DEF HandshakeFails, Cancel
  <2> QED BY <1>1, <1>3, <2>1
<1>6. CASE ReadGreeting
  <2>1. /\ call.at = "greeting" /\ Continue("greeting", Layer) /\ stream' # "none"
        /\ \E r \in NextReads : Reads(r)
    BY <1>6 DEF ReadGreeting, Placed, Reads
  <2> QED BY <1>2, <2>1 DEF Layer
<1>7. CASE ReadLogin
  <2>1. /\ call.at \in {"USER", "PASS", "APOP", "probe"} /\ Continue(call.at, Layer) /\ stream' # "none"
        /\ \E r \in NextReads : Reads(r)
    BY <1>7 DEF ReadLogin, Placed, Reads, Secrets
  <2> QED BY <1>2, <2>1 DEF Layer
<1>8. CASE ReadStlsOk
  <2>1. call.at = "STLS" /\ stream' # "none" /\ \E r \in NextReads : Reads(r)
    BY <1>8 DEF ReadStlsOk, OnPlain
  <2>2. CASE Return("Io") /\ UNCHANGED <<stream, toServer, tried>>
    BY <1>1, <1>3, <2>1, <2>2
  <2>3. CASE StartHandshake
    <3>1. call'.at = "handshake" /\ nextId' = nextId /\ (toServer' = toServer \/ toServer' = Append(toServer, Hello))
      BY <2>3 DEF StartHandshake, Typed
    <3>2. Hello \in Command /\ Hello.id = 0 /\ 0 < nextId
      BY <1>0 DEF Hello, Command
    <3>3. Allowed("STLS") <= Allowed("handshake")
      BY DEF Allowed
    <3> QED BY <1>1, <2>1, <3>1, <3>2, <3>3
  <2> QED BY <1>8, <2>2, <2>3 DEF ReadStlsOk
<1>9. CASE HandshakeDone
  <2>1. call.at = "handshake" /\ stream' = "tls" /\ wire' = Tail(wire) /\ wire # <<>> /\ buffer' = buffer
    BY <1>9 DEF HandshakeDone
  <2>2. CASE stream = "none"
    <3>1. call'.at = "greeting" /\ nextId' = nextId /\ nextId = 1 /\ toServer' = toServer
      BY <1>9, <2>2 DEF HandshakeDone, Typed, IdInv
    <3>2. wire' \in Seq(Below(nextId))
      BY <1>0, <2>1
    <3>3. nextId' <= MaxCommands + Allowed(call'.at)
      BY <1>0, <3>1
    <3> QED BY <1>0, <2>1, <3>1, <3>2, <3>3, IdKept
  <2>3. CASE stream # "none"
    <3>1. Continue("STLS", "tls") /\ Allowed("handshake") = Allowed("STLS")
      BY <1>9, <2>3 DEF HandshakeDone, Allowed
    <3> QED BY <1>2, <2>1, <3>1
  <2> QED BY <2>2, <2>3
<1>10. ASSUME NEW op \in Connects, Connect(op)
       PROVE  IdInv'
  <2>1. call'.at = "tcp" /\ stream = "none" /\ nextId = 1 /\ UNCHANGED <<nextId, stream, wire, buffer, toServer>>
    BY <1>10 DEF Connect, NoCall, Placed, IdInv
  <2>2. nextId' <= MaxCommands + Allowed(call'.at)
    BY <1>0, <2>1
  <2> QED BY <1>0, <2>1, <2>2, IdKept
<1>11. CASE TcpConnected
  <2>1. /\ stream = "none" /\ nextId = 1 /\ toServer = <<>> /\ UNCHANGED <<nextId, buffer>>
        /\ toServer' \in {<<>>, <<Hello>>}
    BY <1>11 DEF TcpConnected, Placed, IdInv, Opened, Quiet
  <2>2. wire' \in Seq(Below(nextId))
    <3>1. \A kind \in {"ok", "err"} : [of |-> 0, layer |-> "clear", kind |-> kind] \in Below(nextId)
      BY <2>1 DEF Below, LineOf, Lines
    <3>2. PICK kind \in {"ok", "err"} :
             wire' = IF EffectivePort = TlsPort THEN <<>>
                     ELSE <<[of |-> 0, layer |-> "clear", kind |-> kind]>>
      BY <1>11 DEF TcpConnected
    <3> DEFINE l == [of |-> 0, layer |-> "clear", kind |-> kind]
    <3>3. l \in Below(nextId) /\ wire' \in {<<>>, <<l>>}
      BY <3>1, <3>2
    <3> HIDE DEF l
    <3> QED BY <3>3, ShortSeqs
  <2>3. nextId' <= MaxCommands + Allowed(call'.at)
    BY <1>0, <2>1
  <2>4. toServer' = toServer \/ \E c \in Command : c.id < nextId' /\ toServer' = Append(toServer, c)
    <3>1. Hello \in Command /\ Hello.id = 0 /\ <<Hello>> = Append(<<>>, Hello)
      BY DEF Hello, Command
    <3> QED BY <2>1, <3>1
  <2> QED BY <1>0, <2>1, <2>2, <2>3, <2>4, IdKept
<1>12. ASSUME NEW op \in Calls, Begin(op)
       PROVE  IdInv'
  <2> DEFINE verb == IF op = "LOGIN" THEN "USER" ELSE op
             c == [id |-> nextId, verb |-> verb, layer |-> Layer]
  <2>1. /\ nextId <= MaxCommands /\ nextId' = nextId + 1 /\ UNCHANGED <<stream, buffer, wire>>
        /\ toServer' = toServer \/ toServer' = Append(toServer, c)
        /\ stream # "none"
    BY <1>12 DEF Begin, Write, Placed
  <2>2. c \in Command /\ c.id < nextId'
    BY <1>0, <2>1 DEF Command, Verbs, Calls, Layer
  <2> HIDE DEF c
  <2>3. nextId' <= MaxCommands + Allowed(call'.at)
    BY <1>0, <2>1
  <2> QED BY <1>0, <2>1, <2>2, <2>3, IdKept
<1>13. CASE Answers
  <2>1. /\ toServer # <<>> /\ Head(toServer) = toServer[1] /\ UNCHANGED <<stream, buffer, call, nextId>>
        /\ toServer' = Tail(toServer) \/ toServer' = <<>>
    BY <1>13, AnswerShape
  <2>2. PICK q \in Seq(LineOf({"clear", "tls"})) :
          wire' = wire \o q /\ \A i \in 1 .. Len(q) : q[i].of \in {0, Head(toServer).id}
    BY <1>13, AnswerShape
  <2>3. Head(toServer).id < nextId
    <3>1. 1 \in 1 .. Len(toServer)
      BY <1>0, <2>1, OneAt
    <3> QED BY <2>1, <3>1 DEF IdInv
  <2>4. q \in Seq(Below(nextId))
    <3>1. \A i \in 1 .. Len(q) : q[i] \in Below(nextId)
      <4>1. 0 < nextId
        BY <1>0
      <4>2. \A i \in 1 .. Len(q) : q[i] \in LineOf({"clear", "tls"})
        OBVIOUS
      <4> QED BY <2>2, <2>3, <4>1, <4>2 DEF Below
    <3> QED BY <3>1
  <2>5. wire' \in Seq(Below(nextId))
    BY <1>0, <2>2, <2>4
  <2>6. \A i \in 1 .. Len(toServer') : toServer'[i].id < nextId
    <3>1. \A i \in 1 .. Len(toServer') : i + 1 \in 1 .. Len(toServer) /\ toServer'[i] = toServer[i + 1]
      <4>1. toServer' \in {Tail(toServer), <<>>} /\ toServer # <<>> /\ toServer \in Seq(Command)
        BY <1>0, <2>1
      <4> QED BY <4>1, LessAt
    <3>2. \A i \in 1 .. Len(toServer) : toServer[i].id < nextId
      BY DEF IdInv
    <3> QED BY <3>1, <3>2
  <2> QED BY <2>1, <2>5, <2>6 DEF IdInv, Below, LineOf, Lines
<1>14. CASE Lose
  <2>1. /\ PickPrefix(wire, wire') /\ toServer' = <<>> /\ UNCHANGED <<stream, buffer, call, nextId>>
    BY <1>14 DEF Lose, PickPrefix
  <2>2. wire' \in Seq(Below(nextId))
    BY <1>0, <2>1, PrefixAt
  <2> QED BY <1>0, <2>1, <2>2, IdKept
<1>15. CASE UNCHANGED <<nextId, call, stream, wire, buffer, toServer>>
  BY <1>15, <1>0, IdKept
<1>16. ASSUME NEW op \in Calls, Refuse(op)
       PROVE  IdInv'
  BY <1>15, <1>16 DEF Refuse
<1>17. ASSUME NEW m \in Modes, NEW a \in Auths, NEW p \in Ports,
              Configure([mode |-> m, auth |-> a, port |-> p])
       PROVE  IdInv'
  BY <1>15, <1>17 DEF Configure
<1>18. CASE DropClient \/ Over \/ UNCHANGED vars
  BY <1>15, <1>18 DEF DropClient, Over, vars
<1> QED BY <1>4, <1>5, <1>6, <1>7, <1>8, <1>9, <1>10, <1>11, <1>12, <1>13, <1>14, <1>16,
           <1>17, <1>18 DEF Next, Read, Answers

-----------------------------------------------------------------------------
ReplyInv ==
  /\ Typed /\ Placed /\ OnPlain /\ Layered /\ FieldTypes
  /\ Opened /\ HelloLast /\ OwnInv /\ OpInv /\ IdInv

LEMMA InitReplies == Init => ReplyInv /\ ConnectIsAuthenticated /\ NoSecondLogin
<1> SUFFICES ASSUME Init
             PROVE  ReplyInv /\ ConnectIsAuthenticated /\ NoSecondLogin
  OBVIOUS
<1>1. /\ call.at = "none" /\ call.op = "CONNECT" /\ stream = "none" /\ Quiet /\ nextId = 1 /\ ~trouble
      /\ client = "building" /\ encrypted = FALSE /\ ret.val = "none" /\ state = "Connected"
  BY DEF Init, NoCall, Quiet
<1>2. OnPlain /\ HelloLast /\ OwnInv /\ OpInv
  BY <1>1 DEF OnPlain, HelloLast, OwnInv, OpInv, Idle, Quiet
<1>3. IdInv
  <2>1. Allowed("none") = 5 /\ <<>> \in Seq(Below(nextId)) /\ 1 \in 1 .. MaxCommands + 5
    BY BoundIsNat, ShortSeqs DEF Allowed
  <2> QED BY <1>1, <2>1 DEF IdInv, Quiet
<1>4. ConnectIsAuthenticated /\ NoSecondLogin
  BY <1>1 DEF ConnectIsAuthenticated, NoSecondLogin
<1> QED BY <1>2, <1>3, <1>4, InitPlaced, InitLayered, InitOpened DEF ReplyInv

LEMMA RepliesAlways == Spec => []ReplyInv
<1>1. ReplyInv /\ [Next]_vars => ReplyInv'
  <2> SUFFICES ASSUME ReplyInv, [Next]_vars
               PROVE  ReplyInv'
    OBVIOUS
  <2>1. Typed' /\ Placed' /\ OnPlain' /\ Layered' /\ FieldTypes'
    BY TypeStep, PlaceStep, OnPlainStep, LayerStep, FieldStep DEF ReplyInv
  <2>2. Opened' /\ HelloLast' /\ OwnInv'
    BY OpenedStep, HelloLastStep, OwnStep DEF ReplyInv
  <2>3. OpInv' /\ IdInv'
    BY OpStep, IdStep DEF ReplyInv
  <2> QED BY <2>1, <2>2, <2>3 DEF ReplyInv
<1> QED BY <1>1, InitReplies, PTL DEF Spec

(* Every field keeps its type, for any number of commands; a client that is*)
(* not there yet is one whose connect() is under way, and is_encrypted()   *)
(* says what the stream is.                                                *)
THEOREM UpgradeTypes == Spec => []TypeOK
<1>1. ReplyInv => TypeOK
  <2> SUFFICES ASSUME ReplyInv
               PROVE  TypeOK
    OBVIOUS
  <2>1. /\ builder \in [mode : Modes, auth : Auths, port : Ports]
        /\ client \in ClientStates /\ stream \in {"none", "plain", "upgrading", "tls"}
        /\ state \in {"Connected", "Authenticated"}
        /\ {encrypted, isClosed, stamped, exposed, tried, carried, trouble} \subseteq BOOLEAN
        /\ {call.op, ret.op} \subseteq Connects \cup Calls
        /\ call.at \in Verbs \cup {"none", "tcp", "handshake", "greeting", "probe"}
        /\ server \in {"none", "auth", "user", "trans", "gone"}
        /\ speaks \in {"clear", "starting", "tls"}
    BY DEF ReplyInv, Typed, FieldTypes, ClientStates, Waits
  <2>2. client = "connecting" <=> ~Idle /\ call.op \in Connects
    <3>1. Calls \cap Connects = {}
      BY DEF Calls, Connects, Wrapped
    <3> QED BY <2>1, <3>1 DEF ReplyInv, OpInv, Placed, ClientStates
  <2>3. buffer \in Seq(InFlight) /\ wire \in Seq(InFlight)
    <3>1. nextId \in 1 .. MaxCommands + 5
      <4>1. Allowed(call.at) \in 1 .. 5 /\ MaxCommands \in Nat
        BY BoundIsNat DEF Allowed
      <4> QED BY <4>1 DEF ReplyInv, IdInv
    <3>2. Below(nextId) \subseteq InFlight
      BY <3>1, BoundIsNat DEF Below, LineOf, Lines, InFlight
    <3>3. \A q \in Seq(Below(nextId)) : q \in Seq(InFlight)
      BY <3>2
    <3> QED BY <3>3 DEF ReplyInv, IdInv
  <2>4. (client = "open" => stream # "none") /\ (encrypted <=> stream = "tls")
    BY DEF ReplyInv, Placed, OnPlain
  <2> QED BY <2>1, <2>2, <2>3, <2>4 DEF TypeOK
<1> QED BY <1>1, RepliesAlways, PTL

(* Since the connection or its upgrade began to be used, and until a call  *)
(* is given up or the server sends a line too many, a reply can only be    *)
(* read by the call that it answers, whatever was on its way before STLS.  *)
THEOREM UpgradeIsCleanStart == Spec => []RepliesAreOwn
<1>1. ReplyInv => RepliesAreOwn
  <2> SUFFICES ASSUME ReplyInv, ~trouble
               PROVE  /\ \A i \in 1 .. Len(buffer) : Own(buffer[i].of)
                      /\ \A i \in 1 .. Len(wire) : wire[i].kind # "hello" => Own(wire[i].of)
                      /\ \A i \in 1 .. Len(toServer) : toServer[i].verb # "hello" => Own(toServer[i].id)
    <3>1. DOMAIN buffer = 1 .. Len(buffer) /\ DOMAIN wire = 1 .. Len(wire) /\ DOMAIN toServer = 1 .. Len(toServer)
      BY DEF ReplyInv, Layered
    <3> QED BY <3>1 DEF RepliesAreOwn
  <2>1. CASE Quiet
    BY <2>1 DEF Quiet
  <2>2. CASE stream = "none" /\ ~Quiet
    <3>1. call.at = "handshake" /\ call.id = 0 /\ buffer = <<>>
      BY <2>2 DEF ReplyInv, Opened, Layered
    <3>2. /\ \A i \in 1 .. Len(wire) : wire[i].of = 0
          /\ \A i \in 1 .. Len(toServer) : toServer[i].id = 0
      BY <2>2 DEF ReplyInv, Opened
    <3> QED BY <3>1, <3>2 DEF Own, Idle
  <2>3. CASE stream \in {"plain", "tls"} /\ ~Idle
    <3>1. OneReply
      BY <2>3 DEF ReplyInv, OwnInv
    <3> QED BY <2>3, <3>1 DEF OneReply, Waiting, Own
  <2>4. CASE stream = "upgrading" /\ ~Idle
    BY <2>4 DEF ReplyInv, OwnInv, InHandshake
  <2>5. stream # "none" /\ Idle => Quiet
    BY DEF ReplyInv, OwnInv
  <2> QED BY <2>1, <2>2, <2>3, <2>4, <2>5 DEF ReplyInv, Typed
<1> QED BY <1>1, RepliesAlways, PTL

(* A client that connect() returns is logged in on both sides if a login   *)
(* was configured, and one of the pool's manager or of connect_and_auth    *)
(* always is, however its connection was made: the +OK that is believed is *)
(* the one to its own PASS or APOP.                                        *)
THEOREM ConnectLogsIn == Spec => []ConnectIsAuthenticated
<1>1. ReplyInv /\ ConnectIsAuthenticated /\ [Next]_vars => ConnectIsAuthenticated'
  BY AuthStep DEF ReplyInv
<1>2. Init => ConnectIsAuthenticated
  BY InitReplies
<1> QED BY <1>1, <1>2, RepliesAlways, PTL DEF Spec

(* The pool's manager can use any builder, and connect() never refuses its *)
(* own login: only connect_and_auth logs in a second time, and it is then  *)
(* refused by the client, though the server has accepted the first login.  *)
THEOREM OnlyReconnectLogsInTwice == Spec => []NoSecondLogin
<1>1. ReplyInv /\ NoSecondLogin /\ [Next]_vars => NoSecondLogin'
  BY SecondStep DEF ReplyInv
<1>2. Init => NoSecondLogin
  BY InitReplies
<1> QED BY <1>1, <1>2, RepliesAlways, PTL DEF Spec
=============================================================================
