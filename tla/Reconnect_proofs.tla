-------------------------- MODULE Reconnect_proofs --------------------------
(***************************************************************************)
(* Proofs about Reconnect, for any maildrop, any deletions and any number  *)
(* of retries and calls.                                                   *)
(***************************************************************************)
EXTENDS Reconnect, MessageNumbers_proofs

(***************************************************************************)
(* The call in progress.  connect has nothing but its login, quit nothing  *)
(* but its first attempt; until the login has succeeded the client is the  *)
(* one the call began with, and the server has not refused.                *)
(***************************************************************************)
CallInv ==
  /\ call.op = "CONNECT" => LoggingIn /\ confirmed = {}
  /\ call.op = "QUIT" => call.at = "first"
  /\ call.op \notin Deletes => call.ns = {}
  /\ call.at = "first" => logins = 0
  /\ LoggingIn => logins <= MaxRetries
  /\ call.at = "first" \/ LoggingIn => ~denied
  /\ (call.at = "first" \/ LoggingIn) /\ call.op # "CONNECT" => call.from = cur

(* The second attempt is made in a new session, of which the caller has    *)
(* not been told, and in which nothing is marked yet.                      *)
SecondInv ==
  call.at = "second" => call.from < cur /\ known < cur /\ marks = {}

(***************************************************************************)
(* The session.  A connection that is in step is that of the session that  *)
(* holds the maildrop; what is marked there was attempted there, and what  *)
(* the caller was told is marked in the session it knows is marked.        *)
(***************************************************************************)
SessionInv ==
  /\ link = "up" => /\ holder = cur /\ cur > 0
                    /\ marks \subseteq attempted
                    /\ known = cur => confirmed \subseteq marks
  /\ link # "closed" => removed = {}

-----------------------------------------------------------------------------
(***************************************************************************)
(* Numbers name messages of the maildrop they are taken from.              *)
(***************************************************************************)
LEMMA NamedInMail ==
  ASSUME NEW S \in SUBSET FirstMail, NEW ns
  PROVE  Named(S, ns) \in SUBSET S
<1>1. S \in SUBSET Nat /\ IsFiniteSet(S)
  BY MailIsFinite, FS_Subset
<1> QED BY <1>1, NamedIsSubset

LEMMA NamedIsMonotone ==
  ASSUME NEW S, NEW ns, NEW ms \in SUBSET ns
  PROVE  Named(S, ms) \subseteq Named(S, ns)
BY DEF Named

(* The numbers of a call that deletes nothing are none.                    *)
LEMMA NothingNamed ==
  ASSUME CallInv, call.op \notin Deletes
  PROVE  call.ns = {} /\ Valid = {} /\ Named(drop, {}) = {}
BY DEF CallInv, Valid, Named

(* A command may mark what it names, and nothing else; only rset releases. *)
LEMMA ServedMarks ==
  ASSUME NEW ns \in SUBSET Valid
  PROVE  /\ Named(drop, ns) \subseteq Named(drop, call.ns)
         /\ Served(ns) \subseteq marks \cup Named(drop, ns)
         /\ call.op # "RSET" => Served(ns) = marks \cup Named(drop, ns)
<1>1. ns \in SUBSET call.ns
  BY DEF Valid
<1> QED BY <1>1, NamedIsMonotone DEF Served

LEMMA PartMarks ==
  ASSUME NEW done, ServedInPart(done)
  PROVE  /\ marks' \subseteq marks \cup Named(drop, call.ns)
         /\ attempted' = attempted \cup Named(drop, call.ns)
<1>1. PICK ns \in SUBSET Valid : marks' \in {marks \cup Named(drop, ns), Served(ns)}
  BY DEF ServedInPart
<1>2. marks' \subseteq marks \cup Named(drop, ns) /\ Named(drop, ns) \subseteq Named(drop, call.ns)
  BY <1>1, ServedMarks
<1> QED BY <1>2 DEF ServedInPart, NoteAttempt

(* What all attempts have in common.                                       *)
Attempt == Answer \/ AnswerSysTemp \/ Break \/ Delay \/ AnswerStale

LEMMA AttemptSummary ==
  ASSUME TypeOK, Attempt
  PROVE  /\ Attempting
         /\ UNCHANGED <<mail, holder, removed, cur, drop, nextSess, calls, logins, denied, intended>>
         /\ marks' \subseteq marks \cup Named(drop, call.ns)
         /\ attempted' \subseteq attempted \cup Named(drop, call.ns)
         /\ link' \in {link, "late", "down"}
         /\ \E done : \E val \in {"Ok", "ServerError"} \cup Retryable : Settle(val, done)
<1>1. CASE Answer
  <2>1. PICK val, done : val \in {"Ok", "ServerError"} /\ Settle(val, done)
    BY <1>1 DEF Answer
  <2>2. marks' = marks \/ \E ns \in SUBSET Valid : marks' = Served(ns)
    BY <1>1 DEF Answer
  <2>3. marks' \subseteq marks \cup Named(drop, call.ns)
    BY <2>2, ServedMarks
  <2>4. attempted' \subseteq attempted \cup Named(drop, call.ns)
    BY <1>1 DEF Answer, NoteAttempt
  <2> QED BY <1>1, <2>1, <2>3, <2>4 DEF Answer, clientVars
<1>2. CASE AnswerSysTemp
  <2>1. PICK done \in SUBSET Valid : marks' = marks \cup Named(drop, done) /\ Settle("SysTemp", done)
    BY <1>2 DEF AnswerSysTemp
  <2>2. marks' \subseteq marks \cup Named(drop, call.ns)
    BY <2>1, ServedMarks
  <2> QED BY <1>2, <2>1, <2>2 DEF AnswerSysTemp, NoteAttempt, clientVars, Retryable
<1>3. CASE Break
  <2>1. PICK done : \E val \in {"Io", "ConnectionClosed"} : ServedInPart(done) /\ Settle(val, done)
    BY <1>3 DEF Break
  <2> QED BY <1>3, <2>1, PartMarks DEF Break, Retryable, Transient
<1>4. CASE Delay
  <2>1. PICK done : ServedInPart(done) /\ Settle("Timeout", done)
    BY <1>4 DEF Delay
  <2> QED BY <1>4, <2>1, PartMarks DEF Delay, Retryable, Transient
<1>5. CASE AnswerStale
  <2>1. PICK done : \E val \in {"Ok", "ServerError", "SysTemp"} : ServedInPart(done) /\ Settle(val, done)
    BY <1>5 DEF AnswerStale
  <2> QED BY <1>5, <2>1, PartMarks DEF AnswerStale, clientVars, Retryable
<1> QED BY <1>1, <1>2, <1>3, <1>4, <1>5 DEF Attempt

-----------------------------------------------------------------------------
(***************************************************************************)
(* Type correctness, in three parts.                                       *)
(***************************************************************************)
MailTypes ==
  /\ mail \subseteq FirstMail /\ drop \subseteq FirstMail
  /\ marks \subseteq FirstMail /\ removed \subseteq FirstMail \ mail
  /\ intended \subseteq FirstMail /\ attempted \subseteq FirstMail

SessionTypes ==
  /\ cur \in 0 .. nextSess - 1 /\ holder \in 0 .. nextSess - 1
  /\ nextSess \in Nat /\ calls \in 0 .. MaxCalls /\ logins \in 0 .. MaxRetries + 1
  /\ link \in {"up", "late", "down", "closed"} /\ denied \in BOOLEAN

AllOps == Ops \cup {"CONNECT", "QUIT"}
Stages == {"none", "first", "dial", "login", "pause", "second"}
CallTypes ==
  /\ known \in 0 .. cur /\ view \subseteq FirstMail /\ confirmed \subseteq FirstMail
  /\ call \in [op : AllOps, ns : SUBSET Nat, at : Stages, from : Nat]
  /\ ret \in [val : Values, out : {"Fresh", "Reconnected", "Err"}]

LEMMA TypeParts ==
  TypeOK <=> /\ MailTypes /\ SessionTypes /\ CallTypes
             /\ link = "closed" => call.at = "none"
BY DEF TypeOK, MailTypes, SessionTypes, CallTypes, AllOps, Stages

LEMMA ReturnTypes ==
  ASSUME TypeOK, NEW val \in Values, NEW out \in {"Fresh", "Reconnected", "Err"}, NEW done,
         Return(val, out, done), cur' \in Nat, cur <= cur', drop' \in SUBSET FirstMail
  PROVE  CallTypes' /\ call'.at = "none"
<1>1. /\ known \in 0 .. cur /\ view \subseteq FirstMail /\ confirmed \subseteq FirstMail
      /\ call.op \in AllOps /\ cur \in Nat
  BY DEF TypeOK, AllOps
<1>2. known' \in 0 .. cur' /\ view' \subseteq FirstMail
  BY <1>1 DEF Return
<1>3. confirmed' \subseteq FirstMail
  <2>1. Named(drop', done) \subseteq FirstMail
    BY NamedInMail
  <2> QED BY <1>1, <2>1 DEF Return
<1>4. /\ call' = NoCall /\ ret' = [val |-> val, out |-> out]
  BY DEF Return
<1> QED BY <1>1, <1>2, <1>3, <1>4 DEF CallTypes, NoCall, AllOps, Ops, Stages

LEMMA SettleTypes ==
  ASSUME TypeOK, NEW val \in {"Ok", "ServerError"} \cup Retryable, NEW done, Settle(val, done),
         cur' = cur, drop' = drop
  PROVE  CallTypes' /\ call'.at \in {"none", "dial"}
<1>1. val \in Values /\ "Ok" \in Values /\ cur' \in Nat /\ cur <= cur' /\ drop' \in SUBSET FirstMail
  BY DEF TypeOK, Values
<1>2. CASE \E d : \E v \in Values : \E out \in {"Fresh", "Reconnected", "Err"} : Return(v, out, d)
  BY <1>1, <1>2, ReturnTypes
<1>3. CASE call' = [call EXCEPT !.at = "dial"] /\ UNCHANGED <<ret, known, view, confirmed>>
  BY <1>3, TypeParts DEF CallTypes, Stages
<1> QED BY <1>1, <1>2, <1>3 DEF Settle

LEMMA LoginErrorTypes ==
  ASSUME TypeOK, CallInv, LoggingIn, NEW val \in Values, LoginError(val)
  PROVE  /\ CallTypes' /\ cur' = cur /\ drop' = drop
         /\ logins' \in 0 .. MaxRetries + 1
         /\ link' \in {"up", "late", "down", "closed"}
         /\ link' = "closed" => call'.at = "none"
<1>1. logins \in Nat /\ logins <= MaxRetries /\ MaxRetries \in Nat /\ link # "closed"
  BY BoundsAreNat DEF TypeOK, CallInv, LoggingIn
<1>2. logins' \in 0 .. MaxRetries + 1
  BY <1>1 DEF LoginError
<1>3. CASE RetryLogin
  BY <1>1, <1>2, <1>3, TypeParts DEF RetryLogin, CallTypes, SessionTypes, Stages
<1>4. CASE GiveUpLogin(val)
  <2>1. cur' = cur /\ drop' = drop /\ Return(val, "Err", {}) /\ link' \in {link, "closed"}
    BY <1>4 DEF GiveUpLogin
  <2>2. CallTypes' /\ call'.at = "none"
    <3>1. cur' \in Nat /\ cur <= cur' /\ drop' \in SUBSET FirstMail
      BY <2>1 DEF TypeOK
    <3> QED BY <2>1, <3>1, ReturnTypes
  <2> QED BY <1>2, <2>1, <2>2 DEF TypeOK
<1> QED BY <1>3, <1>4 DEF LoginError

LEMMA TypeInductive ==
  ASSUME TypeOK, CallInv, [Next]_vars
  PROVE  TypeOK'
<1>0. /\ MailTypes /\ SessionTypes /\ CallTypes /\ (link = "closed" => call.at = "none")
      /\ cur \in Nat /\ nextSess \in Nat /\ nextSess >= 1 /\ MaxRetries \in Nat /\ MaxCalls \in Nat
  BY TypeParts, BoundsAreNat DEF SessionTypes
<1> DEFINE Closed == link = "closed" => call.at = "none"
<1> SUFFICES MailTypes' /\ SessionTypes' /\ CallTypes' /\ Closed'
  BY DEF MailTypes, SessionTypes, CallTypes, TypeOK, AllOps, Stages
<1>1. ASSUME NEW op \in AllOps, NEW ns \in SUBSET Nat, Begin(op, ns), intended' \in SUBSET FirstMail
      PROVE  MailTypes' /\ SessionTypes' /\ CallTypes' /\ Closed'
  <2>1. MailTypes'
    BY <1>0, <1>1 DEF Begin, MailTypes, serverVars, clientVars
  <2>2. SessionTypes'
    <3>1. calls' \in 0 .. MaxCalls /\ logins' \in 0 .. MaxRetries + 1
      BY <1>0, <1>1 DEF Begin, SessionTypes
    <3> QED BY <1>0, <1>1, <3>1 DEF Begin, SessionTypes, serverVars, clientVars
  <2>3. CallTypes'
    <3>1. call' = [op |-> op, ns |-> ns, at |-> "first", from |-> cur] /\ op \in AllOps
      BY <1>1 DEF Begin, AllOps, Ops
    <3>2. NoReturn \in [val : Values, out : {"Fresh", "Reconnected", "Err"}]
      BY DEF NoReturn, Values
    <3> QED BY <1>0, <1>1, <3>1, <3>2 DEF Begin, CallTypes, clientVars, Stages
  <2>4. Closed'
    BY <1>1 DEF Begin, Usable, clientVars
  <2> QED BY <2>1, <2>2, <2>3, <2>4
<1>2. CASE Query \/ Rset \/ Quit
  <2>1. intended' \in SUBSET FirstMail
    BY <1>0, <1>2 DEF Query, Rset, Quit, MailTypes
  <2>2. PICK op \in AllOps : Begin(op, {})
    BY <1>2 DEF Query, Rset, Quit, AllOps, Ops
  <2> QED BY <1>1, <2>1, <2>2
<1>3. CASE Dele \/ DeleMany
  <2>1. PICK op \in Deletes, ns \in SUBSET Nat : Delete(op, ns)
    <3>1. CASE Dele
      <4>1. PICK n \in Numbers(view) : Delete("DELE", {n})
        BY <3>1 DEF Dele
      <4>2. {n} \in SUBSET Nat
        BY DEF Numbers
      <4> QED BY <4>1, <4>2 DEF Deletes
    <3>2. CASE DeleMany
      <4>1. PICK ns \in Batches : Delete("DELEMANY", ns)
        BY <3>2 DEF DeleMany
      <4> QED BY <4>1, BatchesAreNumbers DEF Deletes
    <3> QED BY <1>3, <3>1, <3>2
  <2>2. view \in SUBSET FirstMail
    BY <1>0 DEF CallTypes
  <2>3. Named(view, ns) \subseteq FirstMail
    BY <2>2, NamedInMail
  <2>4. intended' \in SUBSET FirstMail
    BY <1>0, <2>1, <2>3 DEF Delete, MailTypes
  <2> QED BY <1>1, <2>1, <2>4 DEF Delete, Deletes, AllOps, Ops
<1>4. CASE Attempt
  <2>1. /\ Attempting
        /\ UNCHANGED <<mail, holder, removed, cur, drop, nextSess, calls, logins, denied, intended>>
        /\ marks' \subseteq marks \cup Named(drop, call.ns)
        /\ attempted' \subseteq attempted \cup Named(drop, call.ns)
        /\ link' \in {link, "late", "down"}
    BY <1>4, AttemptSummary
  <2>2. PICK val, done : val \in {"Ok", "ServerError"} \cup Retryable /\ Settle(val, done)
    BY <1>4, AttemptSummary
  <2>3. CallTypes'
    BY <2>1, <2>2, SettleTypes
  <2>4. Named(drop, call.ns) \subseteq FirstMail
    <3>1. drop \in SUBSET FirstMail
      BY <1>0 DEF MailTypes
    <3> QED BY <3>1, NamedInMail
  <2>5. MailTypes'
    BY <1>0, <2>1, <2>4 DEF MailTypes
  <2>6. SessionTypes'
    BY <1>0, <2>1 DEF SessionTypes
  <2>7. Closed'
    BY <1>0, <2>1 DEF Attempting
  <2> QED BY <2>3, <2>5, <2>6, <2>7
<1>5. CASE QuitAnswer \/ QuitUnanswered
  <2>1. PICK val \in Values : QuitReturn(val)
    BY <1>5 DEF QuitAnswer, QuitUnanswered, Values, Retryable
  <2>2. /\ UNCHANGED <<cur, drop, nextSess, calls, logins, denied, intended, attempted>>
        /\ \E out \in {"Fresh", "Reconnected", "Err"} : Return(val, out, {})
        /\ link' = "closed"
    BY <2>1 DEF QuitReturn
  <2>3. CallTypes' /\ Closed'
    <3>1. cur' \in Nat /\ cur <= cur' /\ drop' \in SUBSET FirstMail
      BY <1>0, <2>2 DEF MailTypes
    <3> QED BY <2>2, <3>1, ReturnTypes
  <2>4. UNCHANGED serverVars \/ \E gone \in SUBSET marks : Commit(gone)
    BY <1>5 DEF QuitAnswer, QuitUnanswered
  <2>5. MailTypes'
    BY <1>0, <2>2, <2>4 DEF MailTypes, Commit, serverVars
  <2>6. SessionTypes'
    BY <1>0, <2>2, <2>4 DEF SessionTypes, Commit, serverVars
  <2> QED BY <2>3, <2>5, <2>6
<1>6. CASE LoginSucceeds
  <2>1. LoggingIn /\ logins \in Nat /\ logins <= MaxRetries
    BY <1>0, <1>6 DEF LoginSucceeds, Enter, LoggingIn, CallInv, SessionTypes
  <2>2. MailTypes'
    BY <1>0, <1>6 DEF LoginSucceeds, Enter, MailTypes
  <2>3. SessionTypes'
    <3>1. logins' \in 0 .. MaxRetries + 1
      BY <1>0, <1>6, <2>1 DEF LoginSucceeds, Enter
    <3>2. /\ cur' = nextSess /\ holder' = nextSess /\ nextSess' = nextSess + 1
          /\ link' \in {"up", "late", "down"} /\ UNCHANGED <<calls, denied>>
      BY <1>6 DEF LoginSucceeds, Enter
    <3> QED BY <1>0, <3>1, <3>2 DEF SessionTypes
  <2>4. cur' \in Nat /\ cur <= cur' /\ drop' \in SUBSET FirstMail /\ link' # "closed"
    BY <1>0, <1>6 DEF LoginSucceeds, Enter, SessionTypes, MailTypes
  <2>5. CASE Return("Ok", "Fresh", {})
    BY <2>2, <2>3, <2>4, <2>5, ReturnTypes DEF Values
  <2>6. CASE call' = [call EXCEPT !.at = "second"] /\ UNCHANGED <<ret, known, view, confirmed>>
    <3>1. CallTypes'
      BY <1>0, <2>4, <2>6 DEF CallTypes, Stages
    <3> QED BY <2>2, <2>3, <2>4, <3>1
  <2> QED BY <1>6, <2>5, <2>6 DEF LoginSucceeds
<1>7. CASE DialFails \/ LoginRefused \/ LoginBreaks
  <2>1. LoggingIn
    BY <1>7 DEF DialFails, LoginRefused, LoginBreaks, LoggingIn
  <2>2. PICK val \in Values : LoginError(val)
    BY <1>7 DEF DialFails, LoginRefused, LoginBreaks, Values, Retryable, Transient
  <2>3. /\ CallTypes' /\ cur' = cur /\ drop' = drop
        /\ logins' \in 0 .. MaxRetries + 1
        /\ link' \in {"up", "late", "down", "closed"}
        /\ Closed'
    BY <2>1, <2>2, LoginErrorTypes
  <2>4. /\ UNCHANGED <<mail, removed, calls, intended, attempted>>
        /\ denied' \in {TRUE, denied}
        /\ UNCHANGED <<holder, marks, nextSess>> \/ MaybeLeftOver
    BY <1>7 DEF DialFails, LoginRefused, LoginBreaks, serverVars
  <2>5. MailTypes'
    BY <1>0, <2>3, <2>4 DEF MailTypes, MaybeLeftOver
  <2>6. SessionTypes'
    <3>1. \/ holder' = holder /\ nextSess' = nextSess
          \/ holder' = nextSess /\ nextSess' = nextSess + 1
      BY <2>4 DEF MaybeLeftOver
    <3>2. cur' \in 0 .. nextSess' - 1 /\ holder' \in 0 .. nextSess' - 1 /\ nextSess' \in Nat
      BY <1>0, <2>3, <3>1 DEF SessionTypes
    <3>3. denied' \in BOOLEAN /\ calls' \in 0 .. MaxCalls
      BY <1>0, <2>4 DEF SessionTypes
    <3> QED BY <2>3, <3>2, <3>3 DEF SessionTypes
  <2> QED BY <2>3, <2>5, <2>6
<1>8. CASE Cancel
  <2>1. /\ UNCHANGED <<cur, drop, calls, logins, denied, intended>>
        /\ Return("Cancelled", "Err", {})
        /\ link' \in {link, "late", "closed"}
    BY <1>8 DEF Cancel
  <2>2. CallTypes' /\ Closed'
    <3>1. cur' \in Nat /\ cur <= cur' /\ drop' \in SUBSET FirstMail /\ "Cancelled" \in Values
      BY <1>0, <2>1 DEF MailTypes, Values
    <3> QED BY <2>1, <3>1, ReturnTypes
  <2>3. Named(drop, call.ns) \subseteq FirstMail
    <3>1. drop \in SUBSET FirstMail
      BY <1>0 DEF MailTypes
    <3> QED BY <3>1, NamedInMail
  <2>4. \/ MaybeLeftOver /\ UNCHANGED <<mail, removed, attempted>>
        \/ UNCHANGED <<serverVars, nextSess, attempted>>
        \/ /\ marks' \subseteq marks \cup Named(drop, call.ns)
           /\ attempted' \subseteq attempted \cup Named(drop, call.ns)
           /\ UNCHANGED <<mail, removed, holder, nextSess>>
        \/ Commit(marks) /\ UNCHANGED <<nextSess, attempted>>
    BY <1>8, PartMarks DEF Cancel
  <2>5. MailTypes'
    BY <1>0, <2>1, <2>3, <2>4 DEF MailTypes, MaybeLeftOver, Commit, serverVars
  <2>6. SessionTypes'
    BY <1>0, <2>1, <2>4 DEF SessionTypes, MaybeLeftOver, Commit, serverVars
  <2> QED BY <2>2, <2>5, <2>6
<1>9. CASE EndSession
  <2>1. /\ holder' = 0 /\ marks' = {} /\ link' \in {link, "down", "late"} /\ (link' = "closed" => link = "closed")
        /\ UNCHANGED <<mail, removed, cur, drop, nextSess, call, ret, calls, logins, historyVars>>
    BY <1>9 DEF EndSession
  <2> QED BY <1>0, <2>1 DEF MailTypes, SessionTypes, CallTypes, historyVars
<1>10. CASE OtherReader
  <2>1. /\ mail' \subseteq mail
        /\ UNCHANGED <<holder, marks, removed, clientVars, call, ret, calls, logins, historyVars>>
    BY <1>10 DEF OtherReader
  <2> QED BY <1>0, <2>1 DEF MailTypes, SessionTypes, CallTypes, clientVars, historyVars
<1>11. CASE UNCHANGED vars
  BY <1>0, <1>11 DEF MailTypes, SessionTypes, CallTypes, vars, serverVars, clientVars, historyVars
<1>12. CASE Dialled \/ PauseEnds
  <2>1. /\ UNCHANGED <<serverVars, clientVars, ret, calls, logins, historyVars>>
        /\ \E at \in {"login", "dial"} : call' = [call EXCEPT !.at = at]
        /\ call.at # "none"
    BY <1>12 DEF Dialled, PauseEnds
  <2> QED BY <1>0, <2>1 DEF MailTypes, SessionTypes, CallTypes, Stages, serverVars, clientVars, historyVars
<1> QED BY <1>2, <1>3, <1>4, <1>5, <1>6, <1>7, <1>8, <1>9, <1>10, <1>11, <1>12 DEF Next, Attempt, Done

-----------------------------------------------------------------------------
(***************************************************************************)
(* The call in progress.                                                   *)
(***************************************************************************)
LEMMA NothingInProgress ==
  ASSUME NEW val, NEW out, NEW done, Return(val, out, done)
  PROVE  CallInv' /\ SecondInv'
BY DEF Return, NoCall, CallInv, SecondInv, LoggingIn

LEMMA CallInductive ==
  ASSUME TypeOK, CallInv, SecondInv, [Next]_vars
  PROVE  CallInv' /\ SecondInv'
<1>0. /\ MaxRetries \in Nat /\ logins \in Nat /\ cur \in Nat /\ nextSess \in Nat
      /\ known <= cur /\ cur < nextSess /\ known \in Nat
      /\ call \in [op : AllOps, ns : SUBSET Nat, at : Stages, from : Nat]
  BY BoundsAreNat DEF TypeOK, AllOps, Stages
<1>1. ASSUME NEW op \in Ops \cup {"QUIT"}, NEW ns, Begin(op, ns), op \notin Deletes => ns = {}
      PROVE  CallInv' /\ SecondInv'
  BY <1>1 DEF Begin, CallInv, SecondInv, clientVars, LoggingIn, Ops
<1>2. CASE Query \/ Rset \/ Quit \/ Dele \/ DeleMany
  BY <1>1, <1>2 DEF Query, Rset, Quit, Dele, DeleMany, Delete, Deletes, Ops
<1>3. CASE Attempt
  <2>1. Attempting /\ UNCHANGED <<cur, logins, denied>>
    BY <1>3, AttemptSummary
  <2>2. PICK val, done : Settle(val, done)
    BY <1>3, AttemptSummary
  <2>3. CASE \E v, out, d : Return(v, out, d)
    BY <2>3, NothingInProgress
  <2>4. CASE /\ call.at = "first" /\ call' = [call EXCEPT !.at = "dial"]
             /\ UNCHANGED <<ret, known, view, confirmed>>
    <3>1. call'.at = "dial" /\ call'.op = call.op /\ call'.ns = call.ns /\ call'.from = call.from
      BY <1>0, <2>4
    <3>2. call.op \notin {"CONNECT", "QUIT"}
      BY <2>1 DEF Attempting, Ops
    <3> QED BY <1>0, <2>1, <2>4, <3>1, <3>2 DEF CallInv, SecondInv, LoggingIn
  <2> QED BY <2>2, <2>3, <2>4 DEF Settle, Retry
<1>4. CASE QuitAnswer \/ QuitUnanswered \/ Cancel
  BY <1>4, NothingInProgress DEF QuitAnswer, QuitUnanswered, QuitReturn, Cancel
<1>5. CASE LoginSucceeds
  <2>1. CASE Return("Ok", "Fresh", {})
    BY <2>1, NothingInProgress
  <2>2. CASE /\ call.op # "CONNECT" /\ call' = [call EXCEPT !.at = "second"]
             /\ UNCHANGED <<ret, known, view, confirmed>>
    <3>1. call'.at = "second" /\ call'.op = call.op /\ call'.ns = call.ns /\ call'.from = call.from
      BY <1>0, <2>2
    <3>2. call.from = cur /\ call.at = "login" /\ cur' = nextSess /\ marks' = {} /\ known' = known
      BY <1>5, <2>2 DEF LoginSucceeds, Enter, LoggingIn, CallInv
    <3>3. call'.from < cur' /\ known' < cur'
      BY <1>0, <3>1, <3>2
    <3> QED BY <2>2, <3>1, <3>2, <3>3 DEF CallInv, SecondInv, LoggingIn
  <2> QED BY <1>5, <2>1, <2>2 DEF LoginSucceeds
<1>6. CASE DialFails \/ LoginRefused \/ LoginBreaks
  <2>1. /\ logins' = logins + 1 /\ LoggingIn /\ cur' = cur
        /\ \/ RetryLogin /\ logins < MaxRetries /\ (DialFails \/ LoginBreaks)
           \/ \E val : Return(val, "Err", {})
    BY <1>6 DEF DialFails, LoginRefused, LoginBreaks, LoginError, LoggingIn, GiveUpLogin, RetryLogin,
                IsRetryable, Retryable, Transient
  <2>2. CASE RetryLogin /\ logins < MaxRetries /\ (DialFails \/ LoginBreaks)
    <3>1. logins' <= MaxRetries /\ denied' = denied /\ confirmed' = confirmed
      BY <1>0, <2>1, <2>2 DEF RetryLogin, DialFails, LoginBreaks
    <3>2. call'.at = "pause" /\ call'.op = call.op /\ call'.ns = call.ns /\ call'.from = call.from
      BY <1>0, <2>2 DEF RetryLogin
    <3> QED BY <2>1, <3>1, <3>2 DEF CallInv, SecondInv, LoggingIn
  <2> QED BY <2>1, <2>2, NothingInProgress
<1>7. CASE EndSession
  BY <1>7 DEF EndSession, CallInv, SecondInv, LoggingIn, historyVars
<1>8. CASE OtherReader
  BY <1>8 DEF OtherReader, CallInv, SecondInv, LoggingIn, clientVars, historyVars
<1>9. CASE UNCHANGED vars
  BY <1>9 DEF CallInv, SecondInv, LoggingIn, vars, serverVars, clientVars, historyVars
<1>10. CASE Dialled \/ PauseEnds
  <2>1. /\ UNCHANGED <<serverVars, clientVars, ret, calls, logins, historyVars>> /\ LoggingIn
        /\ \E at \in {"login", "dial"} : call' = [call EXCEPT !.at = at]
    BY <1>10 DEF Dialled, PauseEnds, LoggingIn
  <2>2. /\ call'.at \in {"login", "dial"}
        /\ call'.op = call.op /\ call'.ns = call.ns /\ call'.from = call.from
    BY <1>0, <2>1
  <2> QED BY <2>1, <2>2 DEF CallInv, SecondInv, LoggingIn, clientVars, historyVars
<1> QED BY <1>2, <1>3, <1>4, <1>5, <1>6, <1>7, <1>8, <1>9, <1>10 DEF Next, Attempt, Done

-----------------------------------------------------------------------------
(***************************************************************************)
(* The session.                                                            *)
(***************************************************************************)
(* What an attempt adds to what the caller was told is marked.             *)
LEMMA SettleConfirms ==
  ASSUME SecondInv, Attempting, NEW val, NEW done, Settle(val, done), UNCHANGED <<cur, drop>>,
         known' = cur'
  PROVE  /\ confirmed' \subseteq (IF known = cur THEN confirmed ELSE {})
                                \cup (IF call.op \in Deletes THEN Named(drop, done) ELSE {})
         /\ call.op = "RSET" /\ val = "Ok" => confirmed' = {}
<1>1. CASE Retry(val)
  BY <1>1 DEF Settle, Retry, IsRetryable, Retryable, Transient
<1>2. CASE Return("Ok", IF call.at = "first" THEN "Fresh" ELSE "Reconnected", done)
  <2>1. known = cur \/ call.at # "first"
    BY <1>2 DEF Return, Attempting, Ops
  <2>2. confirmed' = (IF call.at # "first" \/ call.op = "RSET" THEN {} ELSE confirmed)
                     \cup (IF call.op \in Deletes THEN Named(drop, done) ELSE {})
    BY <1>2 DEF Return, Attempting
  <2> QED BY <2>1, <2>2 DEF Deletes
<1>3. CASE ~Retry(val) /\ val # "Ok" /\ call.op \notin Many /\ Return(val, "Err", {})
  <2>1. known = cur /\ confirmed' = confirmed
    BY <1>3 DEF Return, Attempting, Ops
  <2> QED BY <1>3, <2>1
<1> QED BY <1>1, <1>2, <1>3 DEF Settle

LEMMA SessionInductive ==
  ASSUME TypeOK, CallInv, SecondInv, SessionInv, [Next]_vars
  PROVE  SessionInv'
<1>0. /\ cur \in Nat /\ nextSess \in Nat /\ known <= cur /\ cur < nextSess /\ known \in Nat
      /\ call \in [op : AllOps, ns : SUBSET Nat, at : Stages, from : Nat]
      /\ link = "closed" => call.at = "none"
  BY DEF TypeOK, AllOps, Stages
<1>1. CASE Query \/ Rset \/ Quit \/ Dele \/ DeleMany
  <2>1. UNCHANGED <<serverVars, clientVars, known, confirmed, attempted>>
    BY <1>1 DEF Query, Rset, Quit, Dele, DeleMany, Delete, Begin
  <2> QED BY <2>1 DEF SessionInv, serverVars, clientVars
<1>2. CASE Attempt
  <2>1. /\ Attempting
        /\ UNCHANGED <<mail, holder, removed, cur, drop, nextSess, calls, logins, denied, intended>>
    BY <1>2, AttemptSummary
  <2>2. link' # "closed" => removed' = {}
    BY <1>0, <2>1 DEF Attempting, SessionInv
  <2>3. ASSUME link' = "up"
        PROVE  /\ holder' = cur' /\ cur' > 0
               /\ marks' \subseteq attempted'
               /\ known' = cur' => confirmed' \subseteq marks'
    <3>1. (Answer \/ AnswerSysTemp) /\ link = "up"
      BY <1>2, <2>3 DEF Attempt, Break, Delay, Answer, AnswerSysTemp, AnswerStale, clientVars
    <3>2. /\ holder = cur /\ cur > 0 /\ marks \subseteq attempted
          /\ known = cur => confirmed \subseteq marks
      BY <3>1 DEF SessionInv
    (* What is marked is what it was, with what was answered +OK, or none. *)
    <3>3. PICK done \in SUBSET Valid : \E val :
            /\ Settle(val, done)
            /\ (call.op = "RSET" /\ val = "Ok") \/ marks' = marks \cup Named(drop, done)
      <4>1. CASE Answer
        <5>1. CASE \E d \in SUBSET Valid : marks' = Served(d) /\ Settle("Ok", d)
          BY <5>1, ServedMarks
        <5>2. CASE marks' = marks /\ Settle("ServerError", {})
          BY <5>2 DEF Named
        <5> QED BY <4>1, <5>1, <5>2 DEF Answer
      <4>2. CASE AnswerSysTemp
        BY <4>2 DEF AnswerSysTemp
      <4> QED BY <3>1, <4>1, <4>2
    <3>4. Attempting /\ UNCHANGED <<cur, drop>>
      BY <2>1
    <3>5. marks' \subseteq attempted'
      <4>1. CASE call.op = "RSET"
        <5>1. Valid = {} /\ Named(drop, {}) = {}
          BY <4>1, NothingNamed DEF Deletes
        <5>2. \A ns \in SUBSET Valid : Served(ns) = {}
          BY <4>1, <5>1 DEF Served
        <5> QED BY <3>1, <3>2, <5>1, <5>2 DEF Answer, AnswerSysTemp, NoteAttempt
      <4>2. CASE call.op # "RSET"
        <5>1. attempted' = attempted \cup Named(drop, call.ns)
          BY <3>1, <4>2 DEF Answer, AnswerSysTemp, NoteAttempt
        <5>2. marks' \subseteq marks \cup Named(drop, call.ns)
          BY <1>2, AttemptSummary
        <5> QED BY <3>2, <5>1, <5>2
      <4> QED BY <4>1, <4>2
    <3>6. known' = cur' => confirmed' \subseteq marks'
      BY <3>2, <3>3, <3>4, SettleConfirms
    <3> QED BY <2>1, <3>2, <3>5, <3>6
  <2> QED BY <2>2, <2>3 DEF SessionInv
<1>3. CASE QuitAnswer \/ QuitUnanswered
  <2>1. link' = "closed"
    BY <1>3 DEF QuitAnswer, QuitUnanswered, QuitReturn
  <2> QED BY <2>1 DEF SessionInv
<1>4. CASE LoginSucceeds
  <2>1. /\ holder' = nextSess /\ cur' = nextSess /\ marks' = {} /\ removed' = removed
        /\ call.at = "login"
        /\ link' # "closed"
    BY <1>4 DEF LoginSucceeds, Enter
  <2>2. removed = {}
    BY <1>0, <2>1 DEF SessionInv
  (* The caller is told of the session when connect returns, with nothing  *)
  (* marked, or not before the second attempt is over.                     *)
  <2>3. known' = cur' => confirmed' = {}
    <3>1. CASE call.op = "CONNECT"
      BY <1>4, <3>1 DEF LoginSucceeds, Enter, Return, CallInv, Deletes
    <3>2. CASE call.op # "CONNECT"
      BY <1>0, <1>4, <2>1, <3>2 DEF LoginSucceeds, Enter
    <3> QED BY <3>1, <3>2
  <2> QED BY <1>0, <2>1, <2>2, <2>3 DEF SessionInv
<1>5. CASE DialFails \/ LoginRefused \/ LoginBreaks \/ (Cancel /\ LoggingIn)
  <2>1. /\ UNCHANGED <<cur, removed, attempted, known, confirmed>>
        /\ UNCHANGED <<holder, marks>> \/ holder = 0
        /\ link' \in {link, "closed"} /\ call.at # "none"
    BY <1>5 DEF DialFails, LoginRefused, LoginBreaks, LoginError, GiveUpLogin, RetryLogin, LoggingIn, Return, serverVars,
                IsRetryable, Retryable, Transient, MaybeLeftOver, Cancel, CallInv
  <2> QED BY <1>0, <2>1 DEF SessionInv
<1>6. CASE Cancel /\ ~LoggingIn
  <2>1. call.at # "none" /\ link' # "up"
    BY <1>6 DEF Cancel
  <2>2. link' # "closed" => removed' = {}
    BY <1>0, <1>6, <2>1 DEF Cancel, SessionInv, LoggingIn
  <2> QED BY <2>1, <2>2 DEF SessionInv
<1>7. CASE EndSession
  <2>1. /\ link' = "up" => link = "up" /\ holder # cur
        /\ link' # "closed" => link # "closed"
        /\ removed' = removed
    BY <1>7 DEF EndSession
  <2> QED BY <2>1 DEF SessionInv
<1>8. CASE OtherReader
  BY <1>8 DEF OtherReader, SessionInv, clientVars, historyVars
<1>9. CASE UNCHANGED vars
  BY <1>9 DEF SessionInv, vars, serverVars, clientVars, historyVars
<1>10. CASE Dialled \/ PauseEnds
  BY <1>10 DEF Dialled, PauseEnds, SessionInv, serverVars, clientVars, historyVars
<1> QED BY <1>1, <1>2, <1>3, <1>4, <1>5, <1>6, <1>7, <1>8, <1>9, <1>10 DEF Next, Attempt, Done

(* The invariants of a ReconnectingClient, for any number of retries.      *)
THEOREM ClientIsSound == Spec => [](TypeOK /\ CallInv /\ SecondInv /\ SessionInv)
<1>1. Init => TypeOK /\ CallInv /\ SecondInv /\ SessionInv
  <2> SUFFICES ASSUME Init PROVE TypeOK /\ CallInv /\ SecondInv /\ SessionInv
    OBVIOUS
  <2>1. MailTypes
    BY DEF Init, MailTypes
  <2>2. SessionTypes
    <3>1. 0 \in 0 .. 1 - 1 /\ 0 \in 0 .. MaxCalls /\ 0 \in 0 .. MaxRetries + 1
      BY BoundsAreNat
    <3> QED BY <3>1 DEF Init, SessionTypes
  <2>3. CallTypes
    BY DEF Init, CallTypes, AllOps, Stages, NoReturn, Values
  <2>4. CallInv /\ SecondInv /\ SessionInv /\ link # "closed"
    BY BoundsAreNat DEF Init, CallInv, SecondInv, SessionInv, LoggingIn
  <2> QED BY <2>1, <2>2, <2>3, <2>4, TypeParts
<1> QED BY <1>1, TypeInductive, CallInductive, SessionInductive, PTL DEF Spec

-----------------------------------------------------------------------------
(* Outcome (reconnect.rs Outcome::Fresh, Outcome::Reconnected): a call that *)
(* returns Fresh used the session it began with; one that returns           *)
(* Reconnected, a batch that has failed in part included, leaves a later    *)
(* one, in which nothing is marked but what this very call marked.          *)
THEOREM OutcomeHolds == Spec => OutcomeIsTruthful
<1> DEFINE Tells ==
      call.op # "CONNECT" /\ ret' # ret =>
        /\ ret'.out = "Fresh" => cur' = call.from
        /\ ret'.out = "Reconnected" =>
             /\ cur' > call.from
             /\ holder' = cur' => marks' \subseteq Named(drop', call.ns)
<1>1. ASSUME TypeOK, CallInv, SecondInv, [Next]_vars PROVE Tells
  <2>1. CASE Query \/ Rset \/ Quit \/ Dele \/ DeleMany
    <3>1. ret' = NoReturn
      BY <2>1 DEF Query, Rset, Quit, Dele, DeleMany, Delete, Begin
    <3> QED BY <3>1 DEF NoReturn
  <2>2. CASE Attempt
    <3>1. /\ Attempting /\ cur' = cur /\ drop' = drop
          /\ marks' \subseteq marks \cup Named(drop, call.ns)
      BY <1>1, <2>2, AttemptSummary
    <3>2. PICK val, done : Settle(val, done)
      BY <1>1, <2>2, AttemptSummary
    <3>3. CASE Return("Ok", IF call.at = "first" THEN "Fresh" ELSE "Reconnected", done)
      <4>1. CASE call.at = "first"
        BY <1>1, <3>1, <3>3, <4>1 DEF Return, CallInv, Attempting, Ops
      <4>2. CASE call.at = "second"
        <5>1. call.from < cur /\ marks = {} /\ call.from \in Nat /\ cur \in Nat
          BY <1>1, <4>2 DEF SecondInv, TypeOK
        <5> QED BY <3>1, <3>3, <4>2, <5>1 DEF Return
      <4> QED BY <3>1, <4>1, <4>2 DEF Attempting
    <3>4. CASE Return(val, "Err", {}) \/ ret' = ret
      BY <3>4 DEF Return
    <3> QED BY <3>2, <3>3, <3>4 DEF Settle
  <2>3. CASE QuitAnswer \/ QuitUnanswered
    <3>0. PICK val : QuitReturn(val)
      BY <2>3 DEF QuitAnswer, QuitUnanswered
    <3>1. /\ cur' = cur /\ call.at = "first" /\ call.op = "QUIT"
          /\ \E out \in {"Fresh", "Err"} : Return(val, out, {})
      BY <2>3, <3>0 DEF QuitAnswer, QuitUnanswered, QuitReturn, Quitting
    <3>2. call.from = cur
      BY <1>1, <3>1 DEF CallInv
    <3> QED BY <3>1, <3>2 DEF Return
  <2>4. CASE LoginSucceeds
    BY <2>4 DEF LoginSucceeds, Return
  <2>5. CASE DialFails \/ LoginRefused \/ LoginBreaks \/ Cancel
    BY <2>5 DEF DialFails, LoginRefused, LoginBreaks, LoginError, GiveUpLogin, RetryLogin, Return, Cancel
  <2>6. CASE Dialled \/ PauseEnds \/ EndSession \/ OtherReader \/ UNCHANGED vars
    BY <2>6 DEF Dialled, PauseEnds, EndSession, OtherReader, vars
  <2> QED BY <1>1, <2>1, <2>2, <2>3, <2>4, <2>5, <2>6 DEF Next, Attempt, Done
<1>2. TypeOK /\ CallInv /\ SecondInv /\ [Next]_vars => [Tells]_vars
  BY <1>1
<1> QED BY <1>2, ClientIsSound, PTL DEF Spec, OutcomeIsTruthful

(* Deletion (ReconnectingClient::quit): QUIT answered Ok, in the session    *)
(* the caller knows of, removes every message the caller was told is        *)
(* marked, and none the session was not asked to delete, through any number *)
(* of reconnections before.                                                 *)
THEOREM QuitRemoves == Spec => QuitRemovesConfirmed
<1> DEFINE Removes ==
      call.op = "QUIT" /\ link = "up" /\ known = cur /\ ret' # ret /\ ret'.val = "Ok" =>
        /\ confirmed \subseteq removed'
        /\ removed' \subseteq attempted
<1>1. ASSUME CallInv, SessionInv, [Next]_vars,
             call.op = "QUIT", link = "up", known = cur, ret' # ret, ret'.val = "Ok"
      PROVE  confirmed \subseteq removed' /\ removed' \subseteq attempted
  <2>1. call.at = "first"
    BY <1>1 DEF CallInv
  <2>2. confirmed \subseteq marks /\ marks \subseteq attempted /\ removed = {}
    BY <1>1 DEF SessionInv
  (* No other action has QUIT return, and with Ok. *)
  <2>3. QuitAnswer \/ QuitUnanswered
    <3>1. /\ ~(Query \/ Rset \/ Quit \/ Dele \/ DeleMany) /\ ~Dialled /\ ~PauseEnds
          /\ ~DialFails /\ ~LoginSucceeds /\ ~LoginRefused /\ ~LoginBreaks
      BY <2>1 DEF Query, Rset, Quit, Dele, DeleMany, Delete, Begin, Usable, Dialled, PauseEnds,
                  DialFails, LoginSucceeds, Enter, LoginRefused, LoginBreaks
    <3>2. ~Attempt
      BY <1>1 DEF Attempt, Answer, AnswerSysTemp, Break, Delay, AnswerStale, Attempting, Ops
    <3>3. ~Cancel /\ ~EndSession /\ ~OtherReader /\ ~UNCHANGED vars
      BY <1>1 DEF Cancel, Return, EndSession, OtherReader, vars
    <3> QED BY <1>1, <3>1, <3>2, <3>3 DEF Next, Attempt, Done
  <2>4. removed' = removed \cup marks
    <3>1. CASE QuitAnswer
      BY <1>1, <3>1 DEF QuitAnswer, QuitReturn, Return, Commit
    <3>2. CASE QuitUnanswered
      BY <1>1, <3>2 DEF QuitUnanswered, QuitReturn, Return, Transient
    <3> QED BY <2>3, <3>1, <3>2
  <2> QED BY <2>2, <2>4
<1>2. CallInv /\ SessionInv /\ [Next]_vars => [Removes]_vars
  BY <1>1
<1> QED BY <1>2, ClientIsSound, PTL DEF Spec, QuitRemovesConfirmed

(* "AuthFailed is never retried" (reconnect.rs is_retryable): no attempt to *)
(* log in follows one that the server has refused.                          *)
THEOREM RefusalEnds == Spec => RefusalIsFinal
<1>1. ASSUME TypeOK, CallInv, [Next]_vars, logins' > logins PROVE ~denied
  <2>1. LoggingIn
    <3>1. DialFails \/ LoginSucceeds \/ LoginRefused \/ LoginBreaks
      <4>1. CASE Query \/ Rset \/ Quit \/ Dele \/ DeleMany
        <5>1. logins' = 0
          BY <4>1 DEF Query, Rset, Quit, Dele, DeleMany, Delete, Begin
        <5> QED BY <1>1, <5>1 DEF TypeOK
      <4>2. CASE Attempt
        BY <1>1, <4>2, AttemptSummary DEF TypeOK
      <4>3. CASE \/ QuitAnswer \/ QuitUnanswered \/ Dialled \/ PauseEnds \/ Cancel
                 \/ EndSession \/ OtherReader \/ UNCHANGED vars
        BY <1>1, <4>3 DEF QuitAnswer, QuitUnanswered, QuitReturn, Dialled, PauseEnds, Cancel,
                          EndSession, OtherReader, vars, TypeOK
      <4> QED BY <1>1, <4>1, <4>2, <4>3 DEF Next, Attempt, Done
    <3> QED BY <3>1 DEF DialFails, LoginSucceeds, Enter, LoginRefused, LoginBreaks, LoggingIn
  <2> QED BY <1>1, <2>1 DEF CallInv
<1>2. TypeOK /\ CallInv /\ [Next]_vars => [logins' > logins => ~denied]_vars
  BY <1>1
<1> QED BY <1>2, ClientIsSound, PTL DEF Spec, RefusalIsFinal
=============================================================================
