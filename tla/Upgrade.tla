------------------------------ MODULE Upgrade -------------------------------
(***************************************************************************)
(* How a Pop3Client comes to be: Pop3ClientBuilder (builder.rs), the three *)
(* ways of connecting, the two callers that log in afterwards (the pool's  *)
(* manager and connect_and_auth of reconnect.rs), and the STLS upgrade of  *)
(* Pop3Client::stls and Transport::upgrade_in_place.                       *)
(*                                                                         *)
(* The connection is a FIFO each way.  What the server sends crosses the   *)
(* network (wire) and then the BufReader (buffer), which takes whatever    *)
(* has arrived when it is empty: that is what upgrade_in_place looks at.   *)
(* A reply is one line here, and names and passwords are free of CR and LF;*)
(* how calls read longer replies, lines that are cut or not UTF-8, refused *)
(* input and deletions are in Pop3Session.  The TLS library, the network   *)
(* and the server are external.                                            *)
(***************************************************************************)
EXTENDS Naturals, Sequences

CONSTANT MaxCommands   \* bound: no operation begins after this many commands
ASSUME BoundIsNat == MaxCommands \in Nat

VARIABLES
  builder,    \* Pop3ClientBuilder: tls_mode, auth, port
  client,     \* the client: "building", "connecting", "open", "dropped"
  stream,     \* InnerStream: "none", "plain", "upgrading", "tls"
  encrypted,  \* Transport.encrypted
  isClosed,   \* Transport.is_closed
  state,      \* Pop3Client.state
  stamped,    \* Pop3Client.greeting holds an APOP timestamp
  buffer,     \* lines in Transport.reader's buffer
  call,       \* the operation in progress
  ret,        \* what the last operation returned
  nextId,     \* number of the next command
  toServer, wire,
  server,     \* "none", "auth", "user", "trans", "gone"
  speaks,     \* "clear"; "starting": it waits for a ClientHello; "tls"
  \* history
  loggedIn,   \* the server has accepted PASS or APOP
  exposed,    \* a name or password was written in clear
  tried,      \* a TLS handshake was begun
  carried,    \* a line received in clear was read as one that was encrypted
  trouble     \* since the connection or its upgrade began to be used, a
              \* call was given up or the server sent a line too many

streamVars == <<stream, encrypted, buffer>>
clientVars == <<client, isClosed, state, stamped>>
serverVars == <<server, speaks, loggedIn>>
history    == <<exposed, tried, carried, trouble>>
vars == <<builder, clientVars, streamVars, call, ret, nextId, toServer, wire,
          serverVars, history>>

Modes == {"Plain", "Tls", "StartTls"}
Auths == {"None", "Login", "Apop"}
NoPort == 0
Ports  == {NoPort, 110, 995}
TlsPort == 995                \* where the server speaks TLS from the start

Verbs == {"STLS", "USER", "PASS", "APOP", "CAPA", "QUIT"}
Wrapped == {"MANAGER", "RECONNECT"}  \* Pop3ConnectionManager::connect, connect_and_auth
Connects == {"CONNECT"} \cup Wrapped
Calls == {"STLS", "LOGIN", "APOP", "CAPA", "QUIT"}
Secrets == {"USER", "PASS", "APOP"}

(* at: what the operation waits for: "tcp", "handshake", "greeting", or    *)
(* the reply to a command; "probe" is the CAPA that ends a login.          *)
NoCall == [op |-> "CONNECT", at |-> "none", id |-> 0]
Idle   == call.at = "none"

Layer == IF stream = "tls" THEN "tls" ELSE "clear"

Init ==
  /\ builder = [mode |-> "Plain", auth |-> "None", port |-> NoPort]
  /\ client = "building" /\ stream = "none" /\ encrypted = FALSE /\ isClosed = FALSE
  /\ state = "Connected" /\ stamped = FALSE /\ buffer = <<>>
  /\ call = NoCall /\ ret = [op |-> "CONNECT", val |-> "none"] /\ nextId = 1
  /\ toServer = <<>> /\ wire = <<>>
  /\ server = "none" /\ speaks = "clear" /\ loggedIn = FALSE
  /\ exposed = FALSE /\ tried = FALSE /\ carried = FALSE /\ trouble = FALSE

-----------------------------------------------------------------------------
(***************************************************************************)
(* The builder.  Of tls() and starttls(), and of credentials() and apop(), *)
(* the last call wins.                                                     *)
(***************************************************************************)
Configure(b) ==
  /\ client = "building"
  /\ builder' = b
  /\ UNCHANGED <<clientVars, streamVars, call, ret, nextId, toServer, wire,
                 serverVars, history>>

EffectivePort == IF builder.port # NoPort THEN builder.port
                 ELSE IF builder.mode = "Tls" THEN 995 ELSE 110

Connect(op) ==
  /\ client = "building"
  /\ client' = "connecting"
  /\ call' = [NoCall EXCEPT !.op = op, !.at = "tcp"]
  /\ UNCHANGED <<builder, isClosed, state, stamped, streamVars, ret, nextId,
                 toServer, wire, serverVars, history>>

-----------------------------------------------------------------------------
(***************************************************************************)
(* Steps of an operation.                                                  *)
(***************************************************************************)

(* Mutant: connect() returns the client although its login failed.         *)
ReturnOpen(val) ==
  /\ call' = NoCall
  /\ ret' = [op |-> call.op, val |-> val]
  /\ client' = IF call.op = "QUIT" THEN "dropped" ELSE "open"
  /\ UNCHANGED <<nextId, exposed>>

(* The operation returns.  A connect that fails, and quit, leave no client.*)
Return(val) ==
  /\ call' = NoCall
  /\ ret' = [op |-> call.op, val |-> val]
  /\ client' = IF call.op = "QUIT" \/ (call.op \in Connects /\ val # "Ok")
               THEN "dropped" ELSE "open"
  /\ UNCHANGED <<nextId, exposed>>

(* It writes a command, on the stream it has by then.                      *)
Write(verb, layer) ==
  /\ toServer' = IF server = "gone" THEN toServer
                 ELSE Append(toServer, [id |-> nextId, verb |-> verb, layer |-> layer])
  /\ nextId' = nextId + 1
  /\ exposed' = (exposed \/ (verb \in Secrets /\ layer = "clear"))

Go(verb, layer) ==
  /\ Write(IF verb = "probe" THEN "CAPA" ELSE verb, layer)
  /\ call' = [call EXCEPT !.at = verb, !.id = nextId]
  /\ UNCHANGED <<client, ret>>

(* The end of connect(): it logs in if asked to, and returns.              *)
Configured(at) == at \in {"greeting", "STLS"} /\ call.op \in Connects /\ builder.auth # "None"
ConnectReturns(at) ==
  at = CASE builder.auth # "None"      -> "probe"
         [] builder.mode = "StartTls" -> "STLS"
         [] OTHER                     -> "greeting"

(* Mutant: the manager calls login whatever the state is.                  *)
CallerAlwaysLogsIn(at) == ConnectReturns(at) /\ call.op \in Wrapped

(* Then connect_and_auth calls login, and the manager does so unless the   *)
(* client is logged in.                                                    *)
CallerLogsIn(at) ==
  /\ ConnectReturns(at)
  /\ call.op = "RECONNECT" \/ (call.op = "MANAGER" /\ state # "Authenticated")

(* What follows "greeting", "STLS" (the upgrade made), or the reply to a   *)
(* command: for connect(), STLS if asked for and then the login asked for. *)
After(at) ==
  CASE at = "greeting" /\ builder.mode = "StartTls" -> "STLS"
    [] at = "USER" -> "PASS"
    [] at \in {"PASS", "APOP"} -> "probe"
    [] OTHER -> IF Configured(at) THEN IF builder.auth = "Apop" THEN "APOP" ELSE "USER"
                ELSE IF CallerLogsIn(at) THEN "USER" ELSE "done"

Hello == [id |-> 0, verb |-> "hello", layer |-> "hello"]
StartHandshake ==
  /\ toServer' = IF server = "gone" THEN toServer ELSE Append(toServer, Hello)
  /\ call' = [call EXCEPT !.at = "handshake"]
  /\ tried' = TRUE
  /\ UNCHANGED <<client, ret, nextId, exposed>>

(* The operation goes on after `at', on a stream of that layer.  login and *)
(* apop refuse a client that is logged in; apop needs the timestamp of the *)
(* greeting, of the one before the upgrade too.                            *)
Continue(at, layer) ==
  IF After(at) = "done" THEN Return("Ok") /\ UNCHANGED toServer
  ELSE IF After(at) \in {"USER", "APOP"} /\ state # "Connected"
       THEN Return("NotAuthenticated") /\ UNCHANGED toServer
  ELSE IF After(at) = "APOP" /\ ~stamped' THEN Return("ServerError") /\ UNCHANGED toServer
  ELSE Go(After(at), layer)

(* TcpStream::connect.  It has no timer of its own.  A host name that is no*)
(* DNS name, and the trust store, fail a TLS connect before it.            *)
TcpConnected ==
  /\ call.at = "tcp"
  /\ server' = "auth"
  /\ speaks' = IF EffectivePort = TlsPort THEN "starting" ELSE "clear"
  /\ \E kind \in {"ok", "err"} :
       wire' = IF EffectivePort = TlsPort THEN <<>>
               ELSE <<[of |-> 0, layer |-> "clear", kind |-> kind]>>
  /\ IF builder.mode = "Tls"
     THEN /\ call' = [call EXCEPT !.at = "handshake"]
          /\ toServer' = <<Hello>> /\ tried' = TRUE
          /\ UNCHANGED stream
     ELSE /\ call' = [call EXCEPT !.at = "greeting"]
          /\ stream' = "plain" /\ UNCHANGED <<toServer, tried>>
  /\ UNCHANGED <<builder, clientVars, encrypted, buffer, ret, nextId, loggedIn,
                 exposed, carried, trouble>>

TcpFails ==
  /\ call.at = "tcp"
  /\ \E val \in {"Io"} \cup (IF builder.mode = "Tls" THEN {"Tls"} ELSE {}) : Return(val)
  /\ UNCHANGED <<builder, isClosed, state, stamped, streamVars, toServer, wire,
                 serverVars, tried, carried, trouble>>

-----------------------------------------------------------------------------
(***************************************************************************)
(* Transport.read_line: the next line, from the buffer or else from the    *)
(* network, with whatever else has arrived.                                *)
(***************************************************************************)
NextReads ==
  IF buffer # <<>> THEN {[line |-> Head(buffer), rest |-> Tail(buffer), wire |-> wire]}
  ELSE {[line |-> wire[1], rest |-> SubSeq(wire, 2, n), wire |-> SubSeq(wire, n + 1, Len(wire))] :
          n \in 1 .. Len(wire)}

Reading == call.at \notin {"none", "tcp", "handshake"}

Reads(r) ==
  /\ Reading /\ r \in NextReads
  /\ wire' = r.wire /\ buffer' = r.rest
  /\ carried' = (carried \/ r.line.layer # Layer)

ReadGreeting ==
  /\ call.at = "greeting"
  /\ \E r \in NextReads :
       /\ Reads(r) /\ r.line.kind = "ok"
       /\ stamped' \in BOOLEAN
       /\ Continue("greeting", Layer)
  /\ UNCHANGED <<builder, isClosed, state, stream, encrypted, serverVars, tried, trouble>>

(* Mutant: login does not wait for the reply to its probe.                 *)
ReadLoginEarly ==
  /\ call.at \in Secrets \cup {"probe"}
  /\ \E r \in NextReads :
       /\ Reads(r) /\ (r.line.kind = "ok" \/ call.at = "probe")
       /\ UNCHANGED stamped
       /\ IF call.at \in {"PASS", "APOP"}
          THEN /\ Write("CAPA", Layer) /\ call' = NoCall
               /\ client' = "open" /\ ret' = [op |-> call.op, val |-> "Ok"]
          ELSE Continue(call.at, Layer)
  /\ state' = IF call.at \in {"PASS", "APOP"} THEN "Authenticated" ELSE state
  /\ UNCHANGED <<builder, isClosed, stream, encrypted, serverVars, tried, trouble>>

(* +OK to USER, PASS, APOP, or the reply, whatever it is, to the probe.    *)
ReadLogin ==
  /\ call.at \in Secrets \cup {"probe"}
  /\ \E r \in NextReads :
       /\ Reads(r) /\ (r.line.kind = "ok" \/ call.at = "probe")
       /\ UNCHANGED stamped
       /\ Continue(call.at, Layer)
  /\ state' = IF call.at \in {"PASS", "APOP"} THEN "Authenticated" ELSE state
  /\ UNCHANGED <<builder, isClosed, stream, encrypted, serverVars, tried, trouble>>

ReadSimple ==
  /\ call.at \in {"CAPA", "QUIT"}
  /\ \E r \in NextReads : Reads(r) /\ r.line.kind = "ok"
  /\ Return("Ok")
  /\ isClosed' = (isClosed \/ call.op = "QUIT")
  /\ UNCHANGED <<builder, state, stamped, stream, encrypted, toServer, serverVars, tried, trouble>>

(* Mutant: connect() drops the error of login().                           *)
ReadErrDropped ==
  /\ call.at # "probe"
  /\ \E r \in NextReads : Reads(r) /\ r.line.kind = "err"
  /\ Return(IF call.at \notin Secrets THEN "ServerError"
            ELSE IF call.op \in Connects THEN "Ok" ELSE "AuthFailed")
  /\ UNCHANGED <<builder, isClosed, state, stamped, stream, encrypted, toServer,
                 serverVars, tried, trouble>>

ReadErr ==
  /\ call.at # "probe"
  /\ \E r \in NextReads : Reads(r) /\ r.line.kind = "err"
  /\ Return(IF call.at \in Secrets THEN "AuthFailed" ELSE "ServerError")
  /\ UNCHANGED <<builder, isClosed, state, stamped, stream, encrypted, toServer,
                 serverVars, tried, trouble>>

(* The probe of a login may fail; any other read ends the operation.       *)
ReadFails(val) ==
  /\ UNCHANGED stamped
  /\ IF call.at = "probe" THEN Continue("probe", Layer)
     ELSE Return(val) /\ UNCHANGED toServer

(* EOF, which is remembered, or a reset.                                   *)
ReadEof ==
  /\ Reading /\ server = "gone" /\ wire = <<>> /\ buffer = <<>>
  /\ isClosed' \in {isClosed, TRUE}
  /\ ReadFails("Io")
  /\ UNCHANGED <<builder, state, streamVars, wire, serverVars, tried, carried, trouble>>

(* Mutant: the greeting is read without a timer.                           *)
TimeOutLater ==
  /\ Reading /\ call.at # "greeting"
  /\ ReadFails("Timeout")
  /\ trouble' = TRUE
  /\ UNCHANGED <<builder, isClosed, state, streamVars, wire, serverVars, tried, carried>>

TimeOut ==
  /\ Reading
  /\ ReadFails("Timeout")
  /\ trouble' = TRUE
  /\ UNCHANGED <<builder, isClosed, state, streamVars, wire, serverVars, tried, carried>>

-----------------------------------------------------------------------------
(***************************************************************************)
(* Transport.upgrade_in_place.                                             *)
(***************************************************************************)

(* Mutant: the check of the buffer is dropped, and the new BufReader is    *)
(* made with what is in the old one.                                       *)
ReadStlsOkUnchecked ==
  /\ call.at = "STLS"
  /\ \E r \in NextReads : Reads(r) /\ r.line.kind = "ok"
  /\ stream' = "upgrading" /\ StartHandshake
  /\ UNCHANGED <<builder, isClosed, state, stamped, encrypted, serverVars, trouble>>

(* +OK to STLS.  If anything else has arrived the upgrade is refused and   *)
(* the stream stays plain; else the halves are replaced by a placeholder,  *)
(* and the handshake begins on the TCP stream that was in them.            *)
ReadStlsOk ==
  /\ call.at = "STLS"
  /\ \E r \in NextReads : Reads(r) /\ r.line.kind = "ok"
  /\ \/ /\ buffer' # <<>>
        /\ Return("Io") /\ UNCHANGED <<stream, toServer, tried>>
     \/ /\ buffer' = <<>>
        /\ stream' = "upgrading" /\ StartHandshake
  /\ UNCHANGED <<builder, isClosed, state, stamped, encrypted, serverVars, trouble>>

(* The handshake ends well if nothing but TLS comes from the server.  It   *)
(* has no timer.  A TLS connect then reads its greeting; an upgrade is     *)
(* done, and connect() goes on with the login.                             *)
HandshakeDone ==
  /\ call.at = "handshake" /\ wire # <<>> /\ wire[1].kind = "hello"
  /\ wire' = Tail(wire)
  /\ stream' = "tls" /\ encrypted' = TRUE /\ buffer' = buffer
  /\ trouble' = FALSE
  /\ UNCHANGED stamped
  /\ IF stream = "none"
     THEN call' = [call EXCEPT !.at = "greeting"]
          /\ UNCHANGED <<client, ret, nextId, toServer, exposed>>
     ELSE Continue("STLS", "tls")
  /\ UNCHANGED <<builder, isClosed, state, serverVars, tried, carried>>

(* Mutant: connect() drops the error of stls().                            *)
HandshakeFailsUnnoticed ==
  /\ call.at = "handshake"
  /\ UNCHANGED stamped
  /\ IF call.op \in Connects /\ stream = "upgrading"
     THEN Continue("STLS", "clear")
     ELSE Return("Tls") /\ UNCHANGED toServer
  /\ server' = "gone" /\ wire' = <<>>
  /\ UNCHANGED <<builder, isClosed, state, streamVars, speaks, loggedIn,
                 tried, carried, trouble>>

(* Mutant: the halves are kept, and put back when the handshake fails.     *)
HandshakeFailsRestored ==
  /\ call.at = "handshake"
  /\ Return("Tls")
  /\ stream' = IF stream = "upgrading" THEN "plain" ELSE stream
  /\ UNCHANGED <<builder, isClosed, state, stamped, encrypted, buffer, toServer,
                 wire, serverVars, tried, carried, trouble>>

(* It fails for any other line, at the end of the connection, or because   *)
(* of a name or a certificate.  The TCP stream is closed with it, and the  *)
(* placeholder stays.                                                      *)
HandshakeFails ==
  /\ call.at = "handshake"
  /\ Return("Tls")
  /\ server' = "gone" /\ toServer' = <<>> /\ wire' = <<>>
  /\ UNCHANGED <<builder, isClosed, state, stamped, streamVars, speaks,
                 loggedIn, tried, carried, trouble>>

-----------------------------------------------------------------------------
(***************************************************************************)
(* The caller of an open client.                                           *)
(***************************************************************************)

(* Early returns; on the placeholder, writing fails with BrokenPipe.       *)
Refused(op) ==
  IF op \in {"LOGIN", "APOP"} /\ state # "Connected" THEN "NotAuthenticated"
  ELSE IF (op = "APOP" /\ ~stamped) \/ (op = "STLS" /\ (state = "Authenticated" \/ encrypted))
       THEN "ServerError"
  ELSE IF stream = "upgrading" THEN "Io"
  ELSE "Ok"

Refuse(op) ==
  /\ client = "open" /\ Idle /\ Refused(op) # "Ok"
  /\ ret' = [op |-> op, val |-> Refused(op)]
  /\ client' = IF op = "QUIT" THEN "dropped" ELSE client
  /\ UNCHANGED <<builder, isClosed, state, stamped, streamVars, call, nextId,
                 toServer, wire, serverVars, history>>

Begin(op) ==
  /\ client = "open" /\ Idle /\ nextId <= MaxCommands /\ Refused(op) = "Ok"
  /\ LET verb == IF op = "LOGIN" THEN "USER" ELSE op IN
     /\ Write(verb, Layer)
     /\ call' = [op |-> op, at |-> verb, id |-> nextId]
  /\ ret' = [op |-> op, val |-> "none"]
  /\ UNCHANGED <<builder, clientVars, streamVars, wire, serverVars, tried, carried, trouble>>

(* The future is dropped.  In a handshake, the TCP stream goes with it.    *)
Cancel ==
  /\ ~Idle
  /\ Return("Cancelled")
  /\ trouble' = TRUE
  /\ IF call.at = "handshake"
     THEN server' = "gone" /\ toServer' = <<>> /\ wire' = <<>>
     ELSE UNCHANGED <<server, toServer, wire>>
  /\ UNCHANGED <<builder, isClosed, state, stamped, streamVars, speaks,
                 loggedIn, tried, carried>>

DropClient ==
  /\ client = "open" /\ Idle
  /\ client' = "dropped"
  /\ UNCHANGED <<builder, isClosed, state, stamped, streamVars, call, ret, nextId,
                 toServer, wire, serverVars, history>>

-----------------------------------------------------------------------------
(***************************************************************************)
(* The server and the network (external).                                  *)
(***************************************************************************)
Live == server \notin {"none", "gone"} /\ toServer # <<>>
Line(kind) == [of |-> Head(toServer).id, layer |-> speaks, kind |-> kind]

(* A ClientHello where one is expected.  The first thing a TLS server says *)
(* after the handshake of a new connection is its greeting.                *)
AcceptHello ==
  /\ Live /\ Head(toServer).verb = "hello" /\ speaks = "starting"
  /\ speaks' = "tls" /\ toServer' = Tail(toServer)
  /\ \E kind \in {"ok", "err"} :
       wire' = wire \o <<[of |-> 0, layer |-> "tls", kind |-> "hello"]>> \o
                 IF EffectivePort = TlsPort
                 THEN <<[of |-> 0, layer |-> "tls", kind |-> kind]>> ELSE <<>>
  /\ UNCHANGED <<builder, clientVars, streamVars, call, ret, nextId, server,
                 loggedIn, history>>

MayAccept(c) ==
  /\ c.layer = speaks
  /\ CASE c.verb \in {"USER", "APOP"} -> server \in {"auth", "user"}
       [] c.verb = "PASS" -> server = "user"
       [] c.verb = "STLS" -> server \in {"auth", "user"} /\ speaks = "clear"
       [] OTHER -> TRUE

(* With the +OK to STLS more text may come: a line too many.               *)
Accept ==
  /\ Live
  /\ LET c == Head(toServer) IN
     /\ MayAccept(c)
     /\ \/ wire' = Append(wire, Line("ok")) /\ UNCHANGED trouble
        \/ /\ c.verb = "STLS"
           /\ wire' = wire \o <<Line("ok"), [Line("ok") EXCEPT !.of = 0]>>
           /\ trouble' = TRUE
     /\ toServer' = IF c.verb = "QUIT" THEN <<>> ELSE Tail(toServer)
     /\ server' = CASE c.verb = "USER" -> "user"
                    [] c.verb \in {"PASS", "APOP"} -> "trans"
                    [] c.verb = "STLS" -> "auth"
                    [] c.verb = "QUIT" -> "gone"
                    [] OTHER -> server
     /\ speaks' = IF c.verb = "STLS" THEN "starting" ELSE speaks
     /\ loggedIn' = (loggedIn \/ c.verb \in {"PASS", "APOP"})
  /\ UNCHANGED <<builder, clientVars, streamVars, call, ret, nextId, exposed, tried, carried>>

(* -ERR, to a ClientHello that comes as a line too.                        *)
Reject ==
  /\ Live /\ speaks # "starting"
  /\ wire' = Append(wire, Line("err"))
  /\ toServer' = Tail(toServer)
  /\ UNCHANGED <<builder, clientVars, streamVars, call, ret, nextId, serverVars, history>>

(* The connection ends, with some of what was on its way.                  *)
Lose ==
  /\ server \notin {"none", "gone"}
  /\ server' = "gone" /\ toServer' = <<>>
  /\ \E n \in 0 .. Len(wire) : wire' = SubSeq(wire, 1, n)
  /\ UNCHANGED <<builder, clientVars, streamVars, call, ret, nextId, speaks,
                 loggedIn, history>>

Over == client = "dropped" /\ UNCHANGED vars

-----------------------------------------------------------------------------
Read == \/ ReadGreeting \/ ReadLogin \/ ReadSimple \/ ReadErr \/ ReadEof
        \/ ReadStlsOk \/ TimeOut

Next ==
  \/ \E m \in Modes, a \in Auths, p \in Ports : Configure([mode |-> m, auth |-> a, port |-> p])
  \/ (\E op \in Connects : Connect(op)) \/ TcpConnected \/ TcpFails
  \/ Read \/ HandshakeDone \/ HandshakeFails
  \/ \E op \in Calls : Refuse(op) \/ Begin(op)
  \/ Cancel \/ DropClient
  \/ AcceptHello \/ Accept \/ Reject \/ Lose
  \/ Over

Spec == Init /\ [][Next]_vars

(* Every read_line has a timer.  Nothing is assumed of the server, nor of  *)
(* the connection and the handshake, which have none.                      *)
FairSpec == Spec /\ WF_vars(Read)
-----------------------------------------------------------------------------
(* Type invariant.  is_encrypted() is true only once a handshake was       *)
(* completed, and then everything goes through TLS.                        *)
ClientStates == {"building", "connecting", "open", "dropped"}
InFlight == [of : 0 .. MaxCommands + 4, layer : {"clear", "tls"}, kind : {"ok", "err", "hello"}]
TypeOK ==
  /\ builder \in [mode : Modes, auth : Auths, port : Ports]
  /\ client \in ClientStates /\ stream \in {"none", "plain", "upgrading", "tls"}
  /\ state \in {"Connected", "Authenticated"}
  /\ {encrypted, isClosed, stamped, exposed, tried, carried, trouble} \subseteq BOOLEAN
  /\ buffer \in Seq(InFlight) /\ wire \in Seq(InFlight)
  /\ {call.op, ret.op} \subseteq Connects \cup Calls
  /\ call.at \in Verbs \cup {"none", "tcp", "handshake", "greeting", "probe"}
  /\ client = "connecting" <=> ~Idle /\ call.op \in Connects
  /\ client = "open" => stream # "none"
  /\ encrypted <=> stream = "tls"
  /\ server \in {"none", "auth", "user", "trans", "gone"}
  /\ speaks \in {"clear", "starting", "tls"}

(* No name and no password is ever written in clear by a client that was   *)
(* to be encrypted: one built with tls() or starttls(), whatever the server*)
(* says and however the upgrade fails, or one whose upgrade has begun.     *)
SecretsStayPrivate ==
  [][exposed' # exposed => builder.mode = "Plain" /\ ~tried]_vars

(* What the server, or anybody else, sent in clear with the +OK of STLS is *)
(* never taken for a reply that came through TLS.                          *)
NothingCarriedOver == ~carried

(* The upgrade is a clean start: whatever replies were late or too many    *)
(* before it, once it is made every reply belongs to the call that reads   *)
(* it, and an idle client has none to come, until a call is given up.      *)
Own(id) == ~Idle /\ id = call.id
RepliesAreOwn ==
  ~trouble => /\ \A i \in DOMAIN buffer : Own(buffer[i].of)
              /\ \A i \in DOMAIN wire : wire[i].kind # "hello" => Own(wire[i].of)
              /\ \A i \in DOMAIN toServer : toServer[i].verb # "hello" => Own(toServer[i].id)

(* A handshake that failed or was cancelled is final: the client never     *)
(* gets an answer in clear again.                                          *)
FailedUpgradeIsFinal ==
  [][tried /\ ret' # ret /\ ret'.val = "Ok" => stream' = "tls"]_vars

(* A client that connect() returns is logged in if a login was configured, *)
(* one of the manager or of connect_and_auth always, and the server agrees.*)
ConnectIsAuthenticated ==
  (/\ client = "open" /\ ret.op \in Connects /\ ret.val = "Ok"
   /\ ret.op \in Wrapped \/ builder.auth # "None")
    => state = "Authenticated" /\ loggedIn

(* A connection is thrown away as logged in already by connect_and_auth    *)
(* alone, which logs in again: given a builder with credentials, and when  *)
(* the server has accepted them.  connect(), and the manager of a pool with*)
(* any builder, never fail so.                                             *)
NoSecondLogin ==
  ret.op \in Connects /\ ret.val = "NotAuthenticated"
    => ret.op = "RECONNECT" /\ builder.auth # "None" /\ loggedIn

(* Every operation returns, whatever the server does, unless it waits for  *)
(* the TCP connection or for the TLS handshake, which have no timer.       *)
CallReturns == ~Idle ~> Idle \/ call.at \in {"tcp", "handshake"}
=============================================================================
