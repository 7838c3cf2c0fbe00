----------------------------- MODULE Reconnect ------------------------------
(***************************************************************************)
(* ReconnectingClient (reconnect.rs): a Pop3Client that is replaced when a *)
(* call fails with a transient error.  The call is then made once more, in *)
(* a new session, and the caller learns of it through Outcome.             *)
(*                                                                         *)
(* One attempt of a call on a connection is one step here; Pop3Session     *)
(* models what happens inside it.  Of a connection three things matter:    *)
(* "up" (in step with the server), "late" (a reply is still to come, after *)
(* a timeout or a line that is not UTF-8) and "down".                      *)
(*                                                                         *)
(* The server is external.  It lets one session at a time into the         *)
(* maildrop, numbers the messages at login and removes the marked ones at  *)
(* QUIT.  Another program may use the maildrop between two sessions.       *)
(***************************************************************************)
EXTENDS MessageNumbers

CONSTANTS
  FirstMail,    \* the maildrop at the start: arrival numbers of messages
  Batches,      \* the arguments of dele_many: sets of message numbers
  MaxRetries,   \* ReconnectingClientBuilder.max_retries
  MaxCalls      \* bound on the number of calls

ASSUME MailIsFinite == FirstMail \subseteq Nat /\ IsFiniteSet(FirstMail)
ASSUME BatchesAreNumbers == \A ns \in Batches : ns \subseteq Nat
ASSUME BoundsAreNat == MaxRetries \in Nat /\ MaxCalls \in Nat

VARIABLES
  mail,       \* the messages in the maildrop
  holder,     \* the server session that holds the maildrop, 0 if none
  marks,      \* the messages it has marked
  cur,        \* the session `client' is logged in to, 0 before connect
  drop,       \* the maildrop as that session numbers it
  link,       \* the connection of `client': "up", "late", "down", "closed"
  call,       \* the call in progress
  ret,        \* what the last call returned
  nextSess, calls, logins,
  \* history
  known,      \* the session the caller was last told of
  view,       \* the maildrop as that session numbers it
  denied,     \* the server has refused a login of this call
  intended,   \* messages the caller asked to delete
  confirmed,  \* messages that are marked, by what calls have returned
  attempted,  \* of this session: messages a dele was sent for, since rset
  removed     \* messages removed by QUIT

serverVars  == <<mail, holder, marks, removed>>
clientVars  == <<cur, drop, link, nextSess>>
historyVars == <<known, view, denied, intended, confirmed, attempted>>
vars == <<serverVars, clientVars, call, ret, calls, logins, historyVars>>

Ops     == {"QUERY", "RETRMANY", "DELE", "DELEMANY", "RSET"}
Many    == {"RETRMANY", "DELEMANY"}   \* return a result for each item
Deletes == {"DELE", "DELEMANY"}
NoCall  == [op |-> "QUERY", ns |-> {}, at |-> "none", from |-> 0]
NoReturn == [val |-> "none", out |-> "Err"]

(* reconnect.rs is_retryable.                                              *)
Transient == {"Io", "ConnectionClosed", "Timeout"}
Retryable == Transient \cup {"SysTemp"}
(* Mutant: authentication failures are retried.                            *)
IsRetryableAuth(val) == val \in Retryable \cup {"AuthFailed"}
IsRetryable(val) == val \in Retryable

(* ReconnectingClientBuilder::connect logs in with the same retry loop.    *)
Init ==
  /\ mail = FirstMail /\ holder = 0 /\ marks = {} /\ removed = {}
  /\ cur = 0 /\ drop = {} /\ link = "down" /\ nextSess = 1
  /\ call = [op |-> "CONNECT", ns |-> {}, at |-> "dial", from |-> 0]
  /\ ret = NoReturn /\ calls = 0 /\ logins = 0
  /\ known = 0 /\ view = {} /\ denied = FALSE
  /\ intended = {} /\ confirmed = {} /\ attempted = {}

-----------------------------------------------------------------------------
(***************************************************************************)
(* The caller.                                                             *)
(***************************************************************************)
Usable == call.at = "none" /\ link # "closed"

(* Numbers are taken from the listing of the session the caller knows; it  *)
(* is told of every new one it has to list again by Reconnected.           *)
Begin(op, ns) ==
  /\ Usable /\ calls < MaxCalls
  /\ call' = [op |-> op, ns |-> ns, at |-> "first", from |-> cur]
  /\ ret' = NoReturn
  /\ calls' = calls + 1 /\ logins' = 0 /\ denied' = FALSE
  /\ UNCHANGED <<serverVars, clientVars, known, view, confirmed, attempted>>

Query == \E op \in {"QUERY", "RETRMANY"} : Begin(op, {}) /\ UNCHANGED intended
Rset  == Begin("RSET", {}) /\ UNCHANGED intended
Quit  == Begin("QUIT", {}) /\ UNCHANGED intended
Delete(op, ns) == /\ ns \subseteq Numbers(view)
                  /\ Begin(op, ns)
                  /\ intended' = intended \cup Named(view, ns)
Dele     == \E n \in Numbers(view) : Delete("DELE", {n})
DeleMany == \E ns \in Batches : Delete("DELEMANY", ns)

-----------------------------------------------------------------------------
(* The call returns.  quit(self) and a failed connect leave no client.  Of *)
(* a deletion that returns Ok, `done' are the numbers whose result is Ok.  *)
Return(val, out, done) ==
  /\ call' = NoCall
  /\ ret' = [val |-> val, out |-> out]
  /\ IF out = "Reconnected" \/ (call.op = "CONNECT" /\ val = "Ok")
     THEN known' = cur' /\ view' = drop'
     ELSE UNCHANGED <<known, view>>
  /\ confirmed' = (IF out = "Reconnected" \/ (val = "Ok" /\ call.op = "RSET")
                   THEN {} ELSE confirmed)
                  \cup (IF val = "Ok" /\ call.op \in Deletes THEN Named(drop', done) ELSE {})

(* The first transient error leads to do_reconnect.                        *)
Retry(val) == call.at = "first" /\ IsRetryable(val)

(* Mutant: a retried call passes for a fresh one.                          *)
SettleFresh(val, done) ==
  \/ /\ ~Retry(val) /\ (val = "Ok" \/ call.op \in Many)
     /\ Return("Ok", "Fresh", done)
  \/ /\ ~Retry(val) /\ val # "Ok" /\ call.op \notin Many
     /\ Return(val, "Err", {})
  \/ /\ Retry(val)
     /\ call' = [call EXCEPT !.at = "dial"]
     /\ UNCHANGED <<ret, known, view, confirmed>>

(* What stat, list, dele, retr_many, ... do with the result of an attempt. *)
(* `val' is Ok, the error, or for a batch the transient error of an item   *)
(* (Ok if there is none).  A batch that is not run again returns whatever  *)
(* its items are.                                                          *)
Settle(val, done) ==
  \/ /\ ~Retry(val) /\ (val = "Ok" \/ call.op \in Many)
     /\ Return("Ok", IF call.at = "first" THEN "Fresh" ELSE "Reconnected", done)
  \/ /\ ~Retry(val) /\ val # "Ok" /\ call.op \notin Many
     /\ Return(val, "Err", {})
  \/ /\ Retry(val)
     /\ call' = [call EXCEPT !.at = "dial"]
     /\ UNCHANGED <<ret, known, view, confirmed>>

Attempting == call.at \in {"first", "second"} /\ call.op \in Ops

(* The numbers the session would mark, and the marks once it has served    *)
(* these and answered +OK.                                                 *)
Valid == {n \in call.ns \cap Numbers(drop) : Nth(drop, n) \notin marks}
Served(ns) == (IF call.op = "RSET" THEN {} ELSE marks) \cup Named(drop, ns)
NoteAttempt == attempted' = attempted \cup Named(drop, call.ns)

(* The session serves none, some or all of what the call asks for, and the *)
(* client has read the +OK of some of that; on a connection that is late   *)
(* it may have taken any reply for one.                                    *)
Reached == holder = cur /\ link # "down"
ServedInPart(done) ==
  /\ \E ns \in SUBSET Valid :
       /\ ns # {} => Reached
       /\ marks' \in {marks \cup Named(drop, ns)} \cup (IF Reached THEN {Served(ns)} ELSE {})
       /\ done \subseteq CASE link = "up" -> ns [] link = "late" -> call.ns [] OTHER -> {}
  /\ NoteAttempt

(* All is answered: done, or refused, item by item.                        *)
Answer ==
  /\ Attempting /\ link = "up"
  /\ UNCHANGED <<mail, holder, removed, clientVars, calls, logins, denied, intended>>
  /\ \/ \E done \in SUBSET Valid :
          /\ call.op = "DELE" => done # {}
          /\ marks' = Served(done)
          /\ attempted' = (IF call.op = "RSET" THEN {} ELSE attempted) \cup Named(drop, call.ns)
          /\ Settle("Ok", done)
     \/ /\ call.op \notin Many
        /\ marks' = marks /\ NoteAttempt /\ Settle("ServerError", {})

(* What may be done of a deletion of which an item failed.                 *)
Unfinished == {done \in SUBSET call.ns : call.op \in Deletes => done # call.ns}

(* -ERR [SYS/TEMP]: the session goes on.  In a batch one is enough.        *)
AnswerSysTemp ==
  /\ Attempting /\ link = "up"
  /\ UNCHANGED <<mail, holder, removed, clientVars, calls, logins, denied, intended>>
  /\ \E done \in Unfinished \cap SUBSET Valid :
       marks' = marks \cup Named(drop, done) /\ Settle("SysTemp", done)
  /\ NoteAttempt

(* The connection breaks, before or after the server acted.                *)
Break ==
  /\ Attempting
  /\ UNCHANGED <<mail, holder, removed, cur, drop, nextSess, calls, logins, denied, intended>>
  /\ link' = "down"
  /\ \E val \in {"Io", "ConnectionClosed"}, done \in Unfinished :
       ServedInPart(done) /\ Settle(val, done)

(* A timeout (or, alike but for its name, a body that is not UTF-8): the   *)
(* reply is left unread.                                                   *)
Delay ==
  /\ Attempting /\ link \in {"up", "late"}
  /\ UNCHANGED <<mail, holder, removed, cur, drop, nextSess, calls, logins, denied, intended>>
  /\ link' = "late"
  /\ \E done \in Unfinished : ServedInPart(done) /\ Settle("Timeout", done)

(* The replies to earlier commands are taken for the answers.              *)
AnswerStale ==
  /\ Attempting /\ link = "late"
  /\ UNCHANGED <<mail, holder, removed, clientVars, calls, logins, denied, intended>>
  /\ \E val \in {"Ok", "ServerError", "SysTemp"}, done \in SUBSET call.ns :
       /\ call.op \in Many => val # "ServerError"
       /\ call.op = "DELE" /\ val = "Ok" => done = call.ns
       /\ ServedInPart(done) /\ Settle(val, done)

-----------------------------------------------------------------------------
(* ReconnectingClient::quit does not reconnect: every error is returned.   *)
Quitting == call.at = "first" /\ call.op = "QUIT"

Commit(gone) == /\ mail' = mail \ gone /\ removed' = removed \cup gone
                /\ holder' = 0 /\ marks' = {}

QuitReturn(val) ==
  /\ UNCHANGED <<cur, drop, nextSess, calls, logins, denied, intended, attempted>>
  /\ link' = "closed" /\ Return(val, IF val = "Ok" THEN "Fresh" ELSE "Err", {})

QuitAnswer ==
  /\ Quitting /\ link = "up"
  /\ \/ Commit(marks) /\ QuitReturn("Ok")
     \/ \E gone \in SUBSET marks, val \in {"ServerError", "SysTemp"} :
          Commit(gone) /\ QuitReturn(val)

(* The reply is lost, late, or an earlier one: QUIT may have been served.  *)
QuitUnanswered ==
  /\ Quitting
  /\ \/ UNCHANGED serverVars
     \/ Reached /\ Commit(marks)
  /\ \E val \in Transient \cup (IF link = "late" THEN {"Ok", "ServerError", "SysTemp"} ELSE {}) :
       QuitReturn(val)

-----------------------------------------------------------------------------
(***************************************************************************)
(* do_reconnect: connect_and_auth under backon's retry loop.  The old      *)
(* client is dropped only when the new one takes its place.  An attempt    *)
(* dials (TCP and TLS: neither has a timer), then waits for the replies to *)
(* its commands (each with a timer); between two attempts is a pause.      *)
(***************************************************************************)
LoggingIn == call.at \in {"dial", "login", "pause"}

Dialled ==
  /\ call.at = "dial"
  /\ call' = [call EXCEPT !.at = "login"]
  /\ UNCHANGED <<serverVars, clientVars, ret, calls, logins, historyVars>>

PauseEnds ==
  /\ call.at = "pause"
  /\ call' = [call EXCEPT !.at = "dial"]
  /\ UNCHANGED <<serverVars, clientVars, ret, calls, logins, historyVars>>

(* login returns Ok whatever becomes of its CAPA: the reply may be late,   *)
(* or the connection closed.                                               *)
Enter ==
  /\ call.at = "login" /\ holder = 0
  /\ logins' = logins + 1
  /\ holder' = nextSess /\ nextSess' = nextSess + 1 /\ marks' = {}
  /\ cur' = nextSess /\ drop' = mail /\ link' \in {"up", "late", "down"}
  /\ attempted' = {}
  /\ UNCHANGED <<mail, removed, calls, denied, intended>>

(* Mutant: the new session is taken for granted and the command not sent.  *)
LoginSucceedsUnsent ==
  /\ Enter
  /\ Return("Ok", IF call.op = "CONNECT" THEN "Fresh" ELSE "Reconnected", call.ns)

LoginSucceeds ==
  /\ Enter
  /\ IF call.op = "CONNECT"
     THEN Return("Ok", "Fresh", {})
     ELSE /\ call' = [call EXCEPT !.at = "second"]
          /\ UNCHANGED <<ret, known, view, confirmed>>

(* The retry loop ends with this error, or waits and tries again.          *)
GiveUpLogin(val) ==
  /\ UNCHANGED <<cur, drop>>
  /\ link' = IF call.op = "CONNECT" THEN "closed" ELSE link
  /\ Return(val, "Err", {})
RetryLogin ==
  /\ call' = [call EXCEPT !.at = "pause"]
  /\ UNCHANGED <<cur, drop, link, ret, known, view, confirmed>>

(* Mutant: a loop that tries once more than max_retries allows.            *)
LoginErrorOnceMore(val) ==
  /\ logins' = logins + 1
  /\ IF IsRetryable(val) /\ logins <= MaxRetries THEN RetryLogin ELSE GiveUpLogin(val)

(* Mutant: a counter of attempts that starts over.                         *)
LoginErrorForever(val) ==
  /\ logins' = (logins + 1) % (MaxRetries + 1)
  /\ IF IsRetryable(val) THEN RetryLogin ELSE GiveUpLogin(val)

LoginError(val) ==
  /\ logins' = logins + 1
  /\ IF IsRetryable(val) /\ logins < MaxRetries THEN RetryLogin ELSE GiveUpLogin(val)

(* The server cannot be reached, or the handshake fails (not retried).     *)
DialFails ==
  /\ call.at = "dial"
  /\ \E val \in {"Io", "Tls"} : LoginError(val)
  /\ UNCHANGED <<serverVars, nextSess, calls, denied, intended, attempted>>

(* The server refuses: the credentials (or, alike, a login too soon), or a *)
(* maildrop that another session holds, perhaps the client's own last one. *)
LoginRefused ==
  /\ call.at = "login"
  /\ \E val \in {"AuthFailed"} \cup (IF holder # 0 THEN {"MailboxInUse"} ELSE {}) :
       LoginError(val)
  /\ denied' = TRUE
  /\ UNCHANGED <<serverVars, nextSess, calls, intended, attempted>>

(* A login given up on the way may have let the server begin a session.    *)
MaybeLeftOver ==
  \/ UNCHANGED <<holder, marks, nextSess>>
  \/ holder = 0 /\ holder' = nextSess /\ nextSess' = nextSess + 1 /\ marks' = {}

LoginBreaks ==
  /\ call.at = "login"
  /\ \E val \in Retryable : LoginError(val)
  /\ MaybeLeftOver
  /\ UNCHANGED <<mail, removed, calls, denied, intended, attempted>>

-----------------------------------------------------------------------------
(* The caller drops the future of a call, wherever it is.  A command that  *)
(* is on its way is served or not.                                         *)
Cancel ==
  /\ call.at # "none"
  /\ UNCHANGED <<cur, drop, calls, logins, denied, intended>>
  /\ Return("Cancelled", "Err", {})
  /\ \/ /\ call.at = "login" /\ MaybeLeftOver
        /\ UNCHANGED <<mail, removed, attempted>>
     \/ /\ call.at \in {"dial", "pause"}
        /\ UNCHANGED <<serverVars, nextSess, attempted>>
     \/ /\ call.at \in {"first", "second"} /\ ServedInPart({})
        /\ UNCHANGED <<mail, removed, holder, nextSess>>
     \/ /\ call.op = "QUIT" /\ Reached /\ Commit(marks)
        /\ UNCHANGED <<nextSess, attempted>>
  /\ link' = IF call.op \in {"CONNECT", "QUIT"} THEN "closed"
             ELSE IF ~LoggingIn /\ link = "up" THEN "late"
             ELSE link

(* The server ends a session whose connection the client has closed or     *)
(* lost, or any session (autologout, restart).                             *)
EndSession ==
  /\ holder # 0
  /\ holder' = 0 /\ marks' = {}
  /\ link' \in CASE holder = cur /\ link = "up" -> {"down"}
                [] holder = cur /\ link = "late" -> {"late", "down"}
                [] OTHER -> {link}
  /\ UNCHANGED <<mail, removed, cur, drop, nextSess, call, ret, calls, logins, historyVars>>

(* Another program removes a message between two sessions.                 *)
OtherReader ==
  /\ holder = 0
  /\ \E u \in mail : mail' = mail \ {u}
  /\ UNCHANGED <<holder, marks, removed, clientVars, call, ret, calls, logins, historyVars>>

Done == call.at = "none" /\ (link = "closed" \/ calls = MaxCalls) /\ UNCHANGED vars

-----------------------------------------------------------------------------
Next ==
  \/ Query \/ Rset \/ Quit \/ Dele \/ DeleMany
  \/ Answer \/ AnswerSysTemp \/ Break \/ Delay \/ AnswerStale
  \/ QuitAnswer \/ QuitUnanswered
  \/ Dialled \/ PauseEnds \/ DialFails
  \/ LoginSucceeds \/ LoginRefused \/ LoginBreaks
  \/ Cancel \/ EndSession \/ OtherReader
  \/ Done

Spec == Init /\ [][Next]_vars

(* What is under way ends: every read has a timer (Pop3Session's           *)
(* CallReturns), and so has every pause.  Dialling has none, and nothing   *)
(* is assumed of server or caller.                                         *)
Progress == \/ Answer \/ AnswerSysTemp \/ Break \/ Delay \/ AnswerStale
            \/ QuitAnswer \/ QuitUnanswered
            \/ PauseEnds \/ LoginSucceeds \/ LoginRefused \/ LoginBreaks
FairSpec == Spec /\ WF_vars(Progress)

-----------------------------------------------------------------------------
Values == {"none", "Ok", "ServerError", "AuthFailed", "MailboxInUse",
           "Tls", "Cancelled"} \cup Retryable

(* Type invariant.  The maildrop only shrinks; marks, numbers and history  *)
(* are about messages of the original maildrop.  The retry loop of one     *)
(* call makes at most one attempt and max_retries retries.  A client that  *)
(* quit has consumed makes no call.                                        *)
TypeOK ==
  /\ mail \subseteq FirstMail /\ drop \subseteq FirstMail /\ view \subseteq FirstMail
  /\ marks \subseteq FirstMail /\ removed \subseteq FirstMail \ mail
  /\ intended \subseteq FirstMail /\ confirmed \subseteq FirstMail
  /\ attempted \subseteq FirstMail
  /\ cur \in 0 .. nextSess - 1 /\ holder \in 0 .. nextSess - 1 /\ known \in 0 .. cur
  /\ nextSess \in Nat /\ calls \in 0 .. MaxCalls /\ logins \in 0 .. MaxRetries + 1
  /\ link \in {"up", "late", "down", "closed"} /\ denied \in BOOLEAN
  /\ link = "closed" => call.at = "none"
  /\ call \in [op : Ops \cup {"CONNECT", "QUIT"}, ns : SUBSET Nat,
              at : {"none", "first", "dial", "login", "pause", "second"}, from : Nat]
  /\ ret \in [val : Values, out : {"Fresh", "Reconnected", "Err"}]

(* Outcome.  A call that returns Fresh used the session it began with.  A  *)
(* call that returns Reconnected, a batch of which items have failed       *)
(* included, leaves a new one, in which nothing is marked but what this    *)
(* very call marked.                                                       *)
OutcomeIsTruthful ==
  [][call.op # "CONNECT" /\ ret' # ret =>
       /\ ret'.out = "Fresh" => cur' = call.from
       /\ ret'.out = "Reconnected" =>
            /\ cur' > call.from
            /\ holder' = cur' => marks' \subseteq Named(drop', call.ns)]_vars

(* Deletion.  quit returning Ok on a connection that is in step, in the    *)
(* session the caller knows of, removes every message it was told is       *)
(* marked and none the session was not asked to delete, through any number *)
(* of reconnections before.                                                *)
QuitRemovesConfirmed ==
  [][call.op = "QUIT" /\ link = "up" /\ known = cur /\ ret' # ret /\ ret'.val = "Ok" =>
       /\ confirmed \subseteq removed'
       /\ removed' \subseteq attempted]_vars

(* "AuthFailed is never retried": the first refusal of a login ends the    *)
(* call, whatever was tried before it.                                     *)
RefusalIsFinal == [][logins' > logins => ~denied]_vars

(* Every call returns, although the network and the server may fail every  *)
(* attempt, unless it dials for ever.                                      *)
CallsEnd == []<>(call.at = "none") \/ <>[](call.at = "dial")

-----------------------------------------------------------------------------
(***************************************************************************)
(* Statements of the repository that the code does not keep.               *)
(***************************************************************************)

(* "Fresh(T): the existing connection was used; no state was lost": when a *)
(* call returns Fresh, the messages the caller was told are marked still   *)
(* are.                                                                    *)
FreshMeansNoLoss ==
  ret.out = "Fresh" /\ call.at = "none" /\ link = "up" => confirmed \subseteq marks

(* "DELE is idempotent": running a deletion again in the new session marks *)
(* the messages it was asked for, so that quit removes no other.           *)
RerunDeletesTheSame == removed \subseteq intended
=============================================================================
