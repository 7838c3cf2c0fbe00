---------------------------- MODULE Sync_proofs -----------------------------
(***************************************************************************)
(* Proofs about Sync, for any number of messages.                          *)
(***************************************************************************)
EXTENDS Sync, MessageNumbers_proofs

(* UIDL's listing names each message of the session by its number.         *)
Good(l) == \A i \in DOMAIN l : l[i].n \in Numbers(drop) /\ l[i].uid = Nth(drop, l[i].n)

LEMMA ListingIsGood ==
  ASSUME TypeOK
  PROVE  /\ Listing \in Seq(Entry) /\ Good(Listing) /\ Listed(Listing) = drop
         /\ \A n \in Numbers(drop) : Nth(drop, n) \in drop
<1>1. arrived \in Nat /\ arrived <= MaxMail /\ drop \in SUBSET (1 .. arrived) /\ MaxMail \in Nat
  BY MailIsNat DEF TypeOK
<1>2. /\ drop \in SUBSET Nat /\ IsFiniteSet(drop)
      /\ Cardinality(drop) \in Nat /\ Cardinality(drop) <= arrived
  BY <1>1, BoundedMaildrop
<1>3. /\ \A n \in Numbers(drop) : Nth(drop, n) \in drop
      /\ \A u \in drop : Rank(drop, u) \in Numbers(drop) /\ Nth(drop, Rank(drop, u)) = u
  BY <1>2, Numbering
<1>4. \A n \in Numbers(drop) : n \in Messages /\ Nth(drop, n) \in Messages
  <2>1. \A u \in drop : u \in 1 .. MaxMail
    BY <1>1
  <2>2. \A n \in 1 .. Cardinality(drop) : n \in 1 .. MaxMail
    BY <1>1, <1>2
  <2> QED BY <1>3, <2>1, <2>2 DEF Numbers, Messages
<1>5. Listing \in [1 .. Cardinality(drop) -> Entry]
  BY <1>4 DEF Listing, Entry, Numbers
<1>6. Listing \in Seq(Entry)
  BY <1>2, <1>5, SeqDef
<1>7. DOMAIN Listing = Numbers(drop)
      /\ \A i \in Numbers(drop) : Listing[i].n = i /\ Listing[i].uid = Nth(drop, i)
  BY DEF Listing
<1>8. Good(Listing)
  BY <1>7 DEF Good
<1>9. Listed(Listing) = drop
  BY <1>3, <1>7 DEF Listed
<1> QED BY <1>3, <1>6, <1>8, <1>9

(* Of a listing, unseen_uids keeps some entries as they are.               *)
LEMMA UnseenIsGood ==
  ASSUME NEW l \in Seq(Entry)
  PROVE  Unseen(l) \in Seq(Entry) /\ (Good(l) => Good(Unseen(l)))
<1> DEFINE new == {i \in DOMAIN l : l[i].uid \notin seen}
<1>1. new \in SUBSET (DOMAIN l) /\ Unseen(l) = EntriesAt(l, new)
  BY DEF Unseen
<1> HIDE DEF new
<1>2. /\ Unseen(l) \in Seq(Entry)
      /\ \A k \in DOMAIN Unseen(l) : \E i \in new : Unseen(l)[k] = l[i]
  BY <1>1, EntriesAtPositions
<1> QED BY <1>1, <1>2 DEF Good

-----------------------------------------------------------------------------
(***************************************************************************)
(* Type correctness.  The caller has recorded what it was given before it  *)
(* calls again; a retr_many has entries to retrieve, and keeps them while  *)
(* it runs.                                                                *)
(***************************************************************************)
CallInv ==
  /\ ~Idle => hand = {}
  /\ Idle => call = NoCall
  /\ (~Idle /\ call.op = "retr_many") => call.at # "uidl" /\ entries # <<>>

(* The part of both that is about the call in progress.                    *)
CallTypes ==
  /\ call \in [op : Ops, at : {"none", "uidl", "retr", "login"}, again : BOOLEAN]
  /\ call.at = "login" => wrapped /\ ~call.again
  /\ call.at = "retr" => todo # <<>>
  /\ Idle => todo = <<>> /\ got = {}
  /\ todo \in Seq(Entry) /\ entries \in Seq(Entry) /\ got \subseteq Pair
  /\ hand \cup rerun \subseteq Pair
  /\ ret \in {"none", "Fresh", "Reconnected", "Err"}
  /\ processed \subseteq Messages
  /\ CallInv

LEMMA ReturnType ==
  ASSUME NEW out \in {"Fresh", "Reconnected", "Err"}, NEW listed \in Seq(Entry),
         entries \in Seq(Entry), Return(out, listed), hand' \cup rerun' \subseteq Pair,
         processed' \subseteq Messages
  PROVE  CallTypes'
BY DEF Return, CallTypes, CallInv, Idle, NoCall, Ops

LEMMA FreshType == Fresh \in {"Fresh", "Reconnected"}
BY DEF Fresh

LEMMA StepType ==
  ASSUME CallTypes, ~Idle, NEW rest \in Seq(Entry), NEW pairs \in SUBSET Pair,
         call.op # "retr_many" \/ call.at = "retr", Step(rest, pairs),
         wrapped' = wrapped
  PROVE  CallTypes'
<1>1. CASE rest = <<>>
  <2>1. Return(Fresh, <<>>) /\ HandOver(pairs)
    BY <1>1 DEF Step
  <2>2. hand' \cup rerun' \subseteq Pair /\ processed' \subseteq Messages
    BY <2>1 DEF HandOver, Renumbered, CallTypes, Pair
  <2>3. <<>> \in Seq(Entry) /\ entries \in Seq(Entry)
    BY DEF CallTypes
  <2> QED BY <2>1, <2>2, <2>3, FreshType, ReturnType
<1>2. CASE rest # <<>>
  <2>1. /\ call' = [call EXCEPT !.at = "retr"] /\ todo' = rest /\ got' = pairs
        /\ UNCHANGED <<hand, processed, rerun, ret, entries>>
    BY <1>2 DEF Step, Nothing
  <2>2. call'.at = "retr" /\ call'.op = call.op /\ call'.again = call.again
    BY <2>1 DEF CallTypes
  <2>3. ~Idle' /\ call' \in [op : Ops, at : {"none", "uidl", "retr", "login"}, again : BOOLEAN]
    BY <2>1, <2>2 DEF CallTypes, Idle
  <2> QED BY <1>2, <2>1, <2>2, <2>3 DEF CallTypes, CallInv
<1> QED BY <1>1, <1>2

LEMMA NothingCalled ==
  ASSUME CallTypes, UNCHANGED <<wrapped, callVars, ret, entries, hand, processed, rerun>>
  PROVE  CallTypes'
BY DEF CallTypes, CallInv, callVars, Idle

LEMMA CallTypesOf ==
  ASSUME TypeOK, CallInv
  PROVE  CallTypes
BY DEF TypeOK, CallTypes

LEMMA TypeInductive ==
  ASSUME TypeOK, CallInv, [Next]_vars
  PROVE  TypeOK' /\ CallInv'
<1> DEFINE Rest ==
      /\ arrived \in 0 .. MaxMail /\ mail \subseteq 1 .. arrived /\ drop \subseteq 1 .. arrived
      /\ {session, wrapped, muddled} \subseteq BOOLEAN
      /\ link \in {"none", "up", "late", "down"} /\ (link = "up" => session)
      /\ seen \cup saved \cup forgotten \subseteq Messages
<1>1. Rest /\ CallTypes
  BY CallTypesOf DEF TypeOK
<1> SUFFICES Rest' /\ CallTypes'
  BY DEF TypeOK, CallTypes
<1>2. CASE Arrive
  <2>1. Rest'
    BY <1>1, <1>2, MailIsNat DEF Arrive, serverVars, callerVars
  <2> QED BY <1>1, <1>2, <2>1, NothingCalled DEF Arrive, callerVars
<1>3. ASSUME NEW u \in mail, Remove(u) PROVE Rest' /\ CallTypes'
  BY <1>1, <1>3, NothingCalled DEF Remove, serverVars, callerVars
<1>4. CASE EndSession
  BY <1>1, <1>4, NothingCalled DEF EndSession, mailVars, callerVars
<1>5. CASE Connect
  BY <1>1, <1>5, NothingCalled DEF Connect, Enter, mailVars, callerVars
<1>6. CASE DropClient
  <2>1. CallTypes'
    BY <1>1, <1>6 DEF DropClient, CallTypes, CallInv, Idle, callVars
  <2> QED BY <1>1, <1>6, <2>1 DEF DropClient, mailVars, serverVars
<1>7. ASSUME NEW op \in Ops, Begin(op) PROVE Rest' /\ CallTypes'
  <2>1. CallTypes'
    BY <1>1, <1>7 DEF Begin, Start, CallTypes, CallInv, Idle, callerVars
  <2> QED BY <1>1, <1>7, <2>1 DEF Begin, mailVars, serverVars, callerVars
<1>8. CASE Record
  <2>1. CallTypes'
    BY <1>1, <1>8 DEF Record, CallTypes, CallInv, Idle, callVars
  <2>2. Ids(hand) \subseteq Messages
    BY <1>1 DEF CallTypes, Ids, Pair
  <2> QED BY <1>1, <1>8, <2>1, <2>2 DEF Record, mailVars, serverVars
<1>9. CASE Save
  BY <1>1, <1>9, NothingCalled DEF Save, mailVars, serverVars
<1>10. CASE Crash
  <2>1. CallTypes'
    BY <1>1, <1>10 DEF Crash, CallTypes, CallInv, Idle, NoCall, Ops
  <2>2. Ids(hand) \subseteq Messages
    BY <1>1 DEF CallTypes, Ids, Pair
  <2> QED BY <1>1, <1>10, <2>1, <2>2 DEF Crash, mailVars, serverVars
<1>11. CASE AnswerUidl
  <2>1. PICK l \in {Listing} \cup (IF link = "late" THEN {<<>>} ELSE {}) :
          CASE call.op = "prune"  -> seen' = Pruned(l) /\ Return(Fresh, <<>>) /\ Nothing
            [] call.op = "unseen" -> Return(Fresh, Unseen(l)) /\ Nothing /\ UNCHANGED seen
            [] OTHER              -> Step(Unseen(l), {}) /\ UNCHANGED seen
    BY <1>11 DEF AnswerUidl
  <2>2. l \in Seq(Entry) /\ Unseen(l) \in Seq(Entry) /\ <<>> \in Seq(Entry)
    <3>1. l = Listing \/ l = <<>>
      OBVIOUS
    <3>2. <<>> \in Seq(Entry) /\ Listing \in Seq(Entry)
      BY ListingIsGood
    <3>3. l \in Seq(Entry)
      BY <3>1, <3>2
    <3> QED BY <3>2, <3>3, UnseenIsGood
  <2>3. ~Idle /\ call.op # "retr_many" /\ wrapped' = wrapped
    BY <1>1, <1>11 DEF AnswerUidl, Idle, CallTypes, CallInv
  <2>4. CASE call.op \in {"prune", "unseen"}
    <3>1. /\ \E listed \in Seq(Entry) : Return(Fresh, listed)
          /\ Nothing /\ (seen' = seen \/ seen' = Pruned(l))
      BY <2>1, <2>2, <2>4
    <3>2. hand' \cup rerun' \subseteq Pair /\ processed' \subseteq Messages /\ entries \in Seq(Entry)
      BY <1>1, <3>1 DEF Nothing, CallTypes
    <3>3. CallTypes'
      BY <3>1, <3>2, FreshType, ReturnType
    <3> QED BY <1>1, <1>11, <3>1, <3>3 DEF AnswerUidl, Pruned, mailVars, serverVars
  <2>5. CASE call.op \notin {"prune", "unseen"}
    <3>1. Step(Unseen(l), {}) /\ UNCHANGED seen
      BY <2>1, <2>5
    <3>2. CallTypes'
      BY <1>1, <2>2, <2>3, <3>1, StepType
    <3> QED BY <1>1, <1>11, <3>1, <3>2 DEF AnswerUidl, mailVars, serverVars
  <2> QED BY <2>4, <2>5
<1>12. CASE AnswerRetr
  <2>1. PICK m \in IF link = "late" THEN drop
                   ELSE {Nth(drop, n) : n \in {todo[1].n} \cap Numbers(drop)} :
          Step(Tail(todo), got \cup {[uid |-> todo[1].uid, msg |-> m]})
    BY <1>12 DEF AnswerRetr
  <2>2. m \in drop /\ m \in Messages
    <3>1. m \in drop
      BY ListingIsGood
    <3> QED BY <1>1, <3>1, MailIsNat DEF Messages
  <2>3. /\ todo \in Seq(Entry) /\ todo # <<>> /\ Tail(todo) \in Seq(Entry)
        /\ todo[1] \in Entry /\ call.at = "retr" /\ ~Idle /\ wrapped' = wrapped
    BY <1>1, <1>12 DEF AnswerRetr, CallTypes, Idle
  <2>4. got \cup {[uid |-> todo[1].uid, msg |-> m]} \in SUBSET Pair
    BY <1>1, <2>2, <2>3 DEF CallTypes, Pair, Entry
  <2>5. CallTypes'
    BY <1>1, <2>1, <2>3, <2>4, StepType
  <2> QED BY <1>1, <1>12, <2>5 DEF AnswerRetr, mailVars, serverVars
<1>13. CASE Refuse
  <2>1. Rest'
    BY <1>1, <1>13 DEF Refuse, mailVars, serverVars
  <2>2. ~Idle /\ wrapped' = wrapped
    BY <1>13 DEF Refuse, Idle
  <2>3. CASE call.op = "retr_many"
    <3>1. call.at = "retr" /\ todo \in Seq(Entry) /\ todo # <<>> /\ got \in SUBSET Pair
      BY <1>1, <1>13, <2>2, <2>3 DEF Refuse, CallTypes, CallInv
    <3>2. Step(Tail(todo), got) /\ Tail(todo) \in Seq(Entry)
      BY <1>13, <2>3, <3>1 DEF Refuse
    <3> QED BY <1>1, <2>1, <2>2, <3>1, <3>2, StepType
  <2>4. CASE call.op # "retr_many"
    <3>1. Return("Err", <<>>) /\ Nothing
      BY <1>13, <2>4 DEF Refuse
    <3>2. /\ hand' \cup rerun' \subseteq Pair /\ processed' \subseteq Messages
          /\ entries \in Seq(Entry) /\ <<>> \in Seq(Entry)
      BY <1>1, <3>1 DEF Nothing, CallTypes
    <3> QED BY <2>1, <3>1, <3>2, ReturnType
  <2> QED BY <2>3, <2>4
<1>14. CASE Break
  <2>1. Rest'
    BY <1>1, <1>14 DEF Break, mailVars, serverVars
  <2>2. CASE wrapped /\ ~call.again
    <3>1. call' = [call EXCEPT !.at = "login"] /\ UNCHANGED <<todo, got, ret, entries, hand, processed, rerun>>
      BY <1>14, <2>2 DEF Break, Nothing
    <3>2. /\ call'.at = "login" /\ call'.op = call.op /\ call'.again = call.again /\ ~Idle /\ ~Idle'
          /\ call' \in [op : Ops, at : {"none", "uidl", "retr", "login"}, again : BOOLEAN]
      BY <1>1, <1>14, <3>1 DEF CallTypes, Break, Idle
    <3> QED BY <1>1, <1>14, <2>1, <2>2, <3>1, <3>2 DEF CallTypes, CallInv, Break
  <2>3. CASE ~(wrapped /\ ~call.again)
    <3>1. \/ Return(Fresh, <<>>) /\ HandOver(got)
          \/ Return("Err", <<>>) /\ Nothing
      BY <1>14, <2>3 DEF Break
    <3>2. /\ entries \in Seq(Entry) /\ <<>> \in Seq(Entry)
          /\ hand' \cup rerun' \subseteq Pair /\ processed' \subseteq Messages
      BY <1>1, <3>1 DEF CallTypes, HandOver, Renumbered, Nothing, Pair
    <3> QED BY <2>1, <3>1, <3>2, FreshType, ReturnType
  <2> QED BY <2>2, <2>3
<1>15. CASE LogIn
  <2>1. CallTypes'
    BY <1>1, <1>15 DEF LogIn, Start, CallTypes, CallInv, Idle, callerVars
  <2> QED BY <1>1, <1>15, <2>1 DEF LogIn, Enter, mailVars, callerVars
<1>16. CASE LogInFails \/ Cancel
  <2>1. Return("Err", <<>>) /\ Nothing
    BY <1>16 DEF LogInFails, Cancel
  <2>2. CallTypes'
    <3>1. /\ hand' \cup rerun' \subseteq Pair /\ processed' \subseteq Messages
          /\ entries \in Seq(Entry) /\ <<>> \in Seq(Entry)
      BY <1>1, <2>1 DEF Nothing, CallTypes
    <3> QED BY <2>1, <3>1, ReturnType
  <2> QED BY <1>1, <1>16, <2>2 DEF LogInFails, Cancel, mailVars, serverVars
<1>17. CASE UNCHANGED vars
  BY <1>1, <1>17, NothingCalled DEF vars, mailVars, serverVars, callVars, callerVars
<1> QED BY <1>2, <1>3, <1>4, <1>5, <1>6, <1>7, <1>8, <1>9, <1>10, <1>11, <1>12, <1>13, <1>14,
           <1>15, <1>16, <1>17 DEF Next

(* The data of calls, listings and callers have their types, and a call    *)
(* starts with the caller's hands empty.                                   *)
THEOREM TypeCorrect == Spec => [](TypeOK /\ CallInv)
<1>1. Init => TypeOK /\ CallInv
  <2> SUFFICES ASSUME Init PROVE TypeOK /\ CallInv
    OBVIOUS
  <2>1. /\ call \in [op : Ops, at : {"none", "uidl", "retr", "login"}, again : BOOLEAN]
        /\ Idle /\ call.at = "none"
    BY DEF Init, NoCall, Ops, Idle
  <2>2. todo \in Seq(Entry) /\ entries \in Seq(Entry)
    BY DEF Init
  <2>3. arrived \in 0 .. MaxMail /\ mail \subseteq 1 .. arrived /\ drop \subseteq 1 .. arrived
    BY MailIsNat DEF Init
  <2>4. {session, wrapped, muddled} \subseteq BOOLEAN /\ link = "none"
    BY DEF Init
  <2>5. /\ todo = <<>> /\ got = {} /\ hand = {} /\ ret = "none"
        /\ seen \cup saved \cup processed \cup forgotten = {} /\ call = NoCall /\ rerun = {}
    BY DEF Init
  <2> QED BY <2>1, <2>2, <2>3, <2>4, <2>5 DEF TypeOK, CallInv
<1> QED BY <1>1, TypeInductive, PTL DEF Spec

-----------------------------------------------------------------------------
(***************************************************************************)
(* The maildrop.  What was handed over is in the listing of the session as *)
(* long as it is in the maildrop; the caller has no numbers without a      *)
(* connection.                                                             *)
(***************************************************************************)
MaildropInv ==
  /\ session => drop \subseteq mail
  /\ processed \subseteq 1 .. arrived /\ processed \cap mail \subseteq drop
  /\ \A p \in got : p.msg \in drop
  /\ link = "none" => entries = <<>>

(* Numbers.  A listing is good as long as each of its numbers names, in    *)
(* the last session, the message of its unique id.  The caller's entries   *)
(* and what the call still has to retrieve are good until a new session    *)
(* begins; the call then remembers that it is made again.                  *)
True(pairs) == \A p \in pairs : p.uid = p.msg

NumbersInv ==
  /\ ~call.again => Good(entries)
  /\ ~(call.op = "retr_many" /\ call.again) => Good(todo) /\ True(got)

(* Books.  What the caller holds as seen was handed over, and what was     *)
(* handed over is held as seen, in its hands or forgotten in a crash;      *)
(* except the pairs of two messages that a retr_many made again returned.  *)
BooksInv ==
  /\ (seen \cup saved) \ Ids(rerun) \subseteq processed
  /\ True(hand \ rerun) /\ Ids(hand) \subseteq processed \cup Ids(rerun)
  /\ processed \cap mail \subseteq seen \cup forgotten \cup Ids(hand) \cup {p.msg : p \in rerun}

SyncInv == ~muddled => NumbersInv /\ BooksInv

LEMMA HandOverMaildrop ==
  ASSUME MaildropInv, NEW pairs, \A p \in pairs : p.msg \in drop, drop \subseteq 1 .. arrived,
         Nothing \/ HandOver(pairs)
  PROVE  \A u \in processed' : u \in processed \/ u \in drop
BY DEF Nothing, HandOver

LEMMA MaildropInductive ==
  ASSUME TypeOK, CallInv, MaildropInv, [Next]_vars
  PROVE  MaildropInv'
<1>0. /\ arrived \in Nat /\ drop \in SUBSET (1 .. arrived) /\ mail \in SUBSET (1 .. arrived)
      /\ (Idle => got = {})
  BY DEF TypeOK
<1>1. CASE Arrive
  <2>1. arrived + 1 \notin processed /\ 1 .. arrived \subseteq 1 .. arrived + 1
    BY <1>0 DEF MaildropInv
  <2> QED BY <1>1, <2>1 DEF Arrive, MaildropInv, serverVars, callVars, callerVars
<1>2. ASSUME NEW u \in mail, Remove(u) PROVE MaildropInv'
  BY <1>2 DEF Remove, MaildropInv, serverVars, callVars, callerVars
<1>3. CASE EndSession
  BY <1>3 DEF EndSession, MaildropInv, mailVars, callVars, callerVars
<1>4. CASE Connect
  BY <1>0, <1>4 DEF Connect, Enter, MaildropInv, mailVars, callVars, callerVars
<1>5. CASE DropClient
  BY <1>5 DEF DropClient, MaildropInv, mailVars, serverVars, callVars
<1>6. ASSUME NEW op \in Ops, Begin(op) PROVE MaildropInv'
  BY <1>6 DEF Begin, Start, MaildropInv, mailVars, serverVars, callerVars
<1>7. CASE Record \/ Save
  <2>1. UNCHANGED <<mail, arrived, session, drop, link, got, processed, entries>>
    BY <1>7 DEF Record, Save, mailVars, serverVars, callVars
  <2> QED BY <2>1 DEF MaildropInv
<1>8. CASE Crash
  BY <1>8 DEF Crash, MaildropInv, mailVars, serverVars
<1>9. CASE LogIn
  BY <1>0, <1>9 DEF LogIn, Start, Enter, MaildropInv, mailVars, callerVars
<1>10. CASE AnswerUidl \/ AnswerRetr \/ Refuse \/ Break \/ LogInFails \/ Cancel
  (* Until the call returns, got has messages of the session; then it is   *)
  (* empty, and the caller's entries are kept, replaced or emptied.        *)
  <2>1. PICK pairs :
          /\ \A p \in pairs : p.msg \in drop
          /\ Nothing \/ HandOver(pairs)
          /\ got' = {} \/ got' = pairs
          /\ link' = "none" => entries' = <<>>
    <3>1. CASE AnswerUidl
      <4>1. PICK l :
              CASE call.op = "prune"  -> seen' = Pruned(l) /\ Return(Fresh, <<>>) /\ Nothing
                [] call.op = "unseen" -> Return(Fresh, Unseen(l)) /\ Nothing /\ UNCHANGED seen
                [] OTHER              -> Step(Unseen(l), {}) /\ UNCHANGED seen
        BY <3>1 DEF AnswerUidl
      <4>2. link' # "none"
        BY <3>1 DEF AnswerUidl, Answerable
      <4>3. (Nothing \/ HandOver({})) /\ got' = {}
        BY <4>1 DEF Step, Return
      <4> WITNESS {}
      <4> QED BY <4>2, <4>3
    <3>2. CASE AnswerRetr
      <4>1. PICK m \in IF link = "late" THEN drop
                       ELSE {Nth(drop, n) : n \in {todo[1].n} \cap Numbers(drop)} :
              Step(Tail(todo), got \cup {[uid |-> todo[1].uid, msg |-> m]})
        BY <3>2 DEF AnswerRetr
      <4>2. m \in drop /\ link' # "none"
        BY <3>2, ListingIsGood DEF AnswerRetr, Answerable
      <4> DEFINE more == got \cup {[uid |-> todo[1].uid, msg |-> m]}
      <4>3. \A p \in more : p.msg \in drop
        BY <4>2 DEF MaildropInv
      <4> HIDE DEF more
      <4>4. (Nothing \/ HandOver(more)) /\ (got' = {} \/ got' = more)
        BY <4>1 DEF Step, Return, more
      <4> QED BY <4>2, <4>3, <4>4
    <3>3. CASE Refuse
      BY <3>3 DEF Refuse, Step, Return, Answerable, MaildropInv
    <3>4. CASE Break
      <4>1. /\ link' = link \/ link' # "none"
            /\ Nothing \/ HandOver(got)
            /\ got' = {} \/ got' = got
            /\ entries' = entries \/ entries' = <<>>
        BY <3>4 DEF Break, Return
      <4> QED BY <4>1 DEF MaildropInv
    <3>5. CASE LogInFails \/ Cancel
      <4>1. /\ link' = link \/ link' # "none"
            /\ Nothing /\ got' = {}
            /\ entries' = entries \/ entries' = <<>>
        BY <3>5 DEF LogInFails, Cancel, Return
      <4> QED BY <4>1 DEF MaildropInv
    <3> QED BY <1>10, <3>1, <3>2, <3>3, <3>4, <3>5
  <2>2. \A u \in processed' : u \in processed \/ u \in drop
    BY <1>0, <2>1, HandOverMaildrop
  <2>3. UNCHANGED <<mail, arrived, session, drop>>
    BY <1>10 DEF AnswerUidl, AnswerRetr, Refuse, Break, LogInFails, Cancel, mailVars, serverVars
  <2> QED BY <1>0, <2>1, <2>2, <2>3 DEF MaildropInv
<1>11. CASE UNCHANGED vars
  BY <1>11 DEF vars, MaildropInv, mailVars, serverVars, callVars, callerVars
<1> QED BY <1>1, <1>2, <1>3, <1>4, <1>5, <1>6, <1>7, <1>8, <1>9, <1>10, <1>11 DEF Next

-----------------------------------------------------------------------------
(***************************************************************************)
(* Numbers stay good: a new session makes those of the session before      *)
(* worthless, and then the call is known to be made again.                 *)
(***************************************************************************)
LEMMA NothingListed == Good(<<>>) /\ True({})
BY DEF Good, True

LEMMA TailIsGood ==
  ASSUME NEW l \in Seq(Entry), l # <<>>, Good(l)
  PROVE  Good(Tail(l))
<1>1. \A i \in DOMAIN Tail(l) : i + 1 \in DOMAIN l /\ Tail(l)[i] = l[i + 1]
  OBVIOUS
<1> QED BY <1>1 DEF Good

LEMMA ReturnNumbers ==
  ASSUME NEW out \in {"Fresh", "Reconnected", "Err"}, NEW listed, Good(listed),
         NumbersInv, out = "Fresh" => ~call.again, Return(out, listed), drop' = drop
  PROVE  NumbersInv'
<1>1. Good(<<>>) /\ True({})
  BY NothingListed
<1>2. Good(entries')
  BY <1>1 DEF Return, NumbersInv
<1>3. todo' = <<>> /\ got' = {}
  BY DEF Return
<1> QED BY <1>1, <1>2, <1>3 DEF NumbersInv, Good, True

LEMMA StepNumbers ==
  ASSUME CallTypes, NumbersInv, NEW rest, NEW pairs, Step(rest, pairs), drop' = drop,
         ~(call.op = "retr_many" /\ call.again) => Good(rest) /\ True(pairs)
  PROVE  NumbersInv'
<1>1. CASE rest = <<>>
  <2>1. Return(Fresh, <<>>) /\ (Fresh = "Fresh" => ~call.again) /\ Fresh \in {"Fresh", "Reconnected", "Err"}
    BY <1>1 DEF Step, Fresh
  <2> QED BY <2>1, NothingListed, ReturnNumbers
<1>2. CASE rest # <<>>
  <2>1. /\ call' = [call EXCEPT !.at = "retr"] /\ todo' = rest /\ got' = pairs
        /\ entries' = entries
    BY <1>2 DEF Step
  <2>2. call'.op = call.op /\ call'.again = call.again
    BY <2>1 DEF CallTypes
  <2> QED BY <2>1, <2>2 DEF NumbersInv, Good, True
<1> QED BY <1>1, <1>2

(* What a call in progress hands over, once it has returned, and what the  *)
(* caller has seen: it has lost the ids of messages that are gone, if any. *)
LEMMA HandOverBooks ==
  ASSUME CallInv, ~Idle, BooksInv, NEW pairs, HandOver(pairs),
         ~(call.op = "retr_many" /\ call.again) => True(pairs),
         UNCHANGED <<mail, seen, saved, forgotten>>
  PROVE  BooksInv'
<1> DEFINE two == Renumbered(pairs)
<1>1. /\ hand' = pairs /\ processed' = processed \cup {p.msg : p \in pairs}
      /\ rerun' = rerun \cup two
  BY DEF HandOver
<1>2. \A p \in pairs : p.uid = p.msg \/ p \in two
  BY DEF Renumbered, True
<1> HIDE DEF two
<1>3. hand = {} /\ Ids(hand) = {} /\ (rerun \subseteq rerun')
  BY <1>1 DEF CallInv, Ids
<1>4. Ids(rerun) \subseteq Ids(rerun)' /\ processed \subseteq processed'
  BY <1>1, <1>3 DEF Ids
<1>5. ((seen \cup saved) \ Ids(rerun) \subseteq processed)'
  BY <1>4 DEF BooksInv
<1>6. True(hand \ rerun)' /\ (Ids(hand) \subseteq processed \cup Ids(rerun))'
  BY <1>1, <1>2 DEF True, Ids
<1>7. (processed \cap mail \subseteq seen \cup forgotten \cup Ids(hand) \cup {p.msg : p \in rerun})'
  <2> SUFFICES ASSUME NEW u \in processed' \cap mail
               PROVE  u \in seen \cup forgotten \cup Ids(hand') \cup {p.msg : p \in rerun'}
    BY <1>1 DEF Ids
  <2>1. CASE u \in processed
    BY <1>3, <2>1 DEF BooksInv
  <2>2. ASSUME NEW p \in pairs, u = p.msg PROVE u \in Ids(hand') \cup {q.msg : q \in rerun'}
    BY <1>1, <1>2, <2>2 DEF Ids
  <2> QED BY <1>1, <2>1, <2>2
<1> QED BY <1>5, <1>6, <1>7 DEF BooksInv

LEMMA SyncInductive ==
  ASSUME TypeOK, CallInv, MaildropInv, SyncInv, [Next]_vars
  PROVE  SyncInv'
<1> SUFFICES ASSUME ~muddled' PROVE NumbersInv' /\ BooksInv'
  BY DEF SyncInv
<1>0. NumbersInv /\ BooksInv /\ CallTypes
  <2>1. ~muddled
    BY DEF Next, vars, Arrive, Remove, EndSession, Connect, DropClient, Begin, Record, Save, Crash,
           AnswerUidl, AnswerRetr, Refuse, Break, LogIn, LogInFails, Cancel
  <2> QED BY <2>1, CallTypesOf DEF SyncInv
<1>1. Good(<<>>) /\ True({})
  BY NothingListed
<1>2. CASE Arrive
  <2>1. NumbersInv'
    BY <1>0, <1>2 DEF Arrive, NumbersInv, Good, True, serverVars, callVars, callerVars
  <2>2. arrived + 1 \notin processed
    BY DEF TypeOK, MaildropInv
  <2> QED BY <1>0, <1>2, <2>1, <2>2 DEF Arrive, BooksInv, Ids, True, callerVars
<1>3. ASSUME NEW u \in mail, Remove(u) PROVE NumbersInv' /\ BooksInv'
  <2>1. NumbersInv'
    BY <1>0, <1>3 DEF Remove, NumbersInv, Good, True, serverVars, callVars, callerVars
  <2> QED BY <1>0, <1>3, <2>1 DEF Remove, BooksInv, Ids, True, callerVars
<1>4. CASE EndSession
  <2>1. NumbersInv'
    BY <1>0, <1>4 DEF EndSession, NumbersInv, Good, True, callVars, callerVars
  <2> QED BY <1>0, <1>4, <2>1 DEF EndSession, BooksInv, Ids, True, mailVars, callerVars
<1>5. CASE Connect
  (* There is nothing to be invalidated. *)
  <2>1. todo' = <<>> /\ got' = {} /\ entries' = <<>>
    BY <1>5 DEF Connect, TypeOK, MaildropInv, callVars, callerVars
  <2>2. NumbersInv'
    BY <2>1 DEF NumbersInv, Good, True
  <2> QED BY <1>0, <1>5, <2>2 DEF Connect, BooksInv, Ids, True, mailVars, callerVars
<1>6. CASE DropClient
  <2>1. NumbersInv'
    BY <1>0, <1>6 DEF DropClient, NumbersInv, Good, True, callVars, serverVars
  <2> QED BY <1>0, <1>6, <2>1 DEF DropClient, BooksInv, Ids, True, mailVars
<1>7. ASSUME NEW op \in Ops, Begin(op) PROVE NumbersInv' /\ BooksInv'
  <2>1. /\ ~call'.again /\ got' = {} /\ todo' \in {<<>>, entries}
        /\ entries' = entries /\ drop' = drop
    BY <1>7 DEF Begin, Start, callerVars, serverVars
  <2>2. Good(entries)
    BY <1>0, <1>7 DEF Begin, CallInv, NoCall, NumbersInv
  <2>3. NumbersInv'
    BY <2>1, <2>2 DEF NumbersInv, Good, True
  <2> QED BY <1>0, <1>7, <2>3 DEF Begin, BooksInv, Ids, True, mailVars, callerVars
<1>8. CASE Record
  <2>1. NumbersInv'
    BY <1>0, <1>8 DEF Record, NumbersInv, Good, True, callVars, serverVars
  <2>2. UNCHANGED <<mail, processed, rerun, forgotten, saved>> /\ seen' = seen \cup Ids(hand) /\ hand' = {}
    BY <1>8 DEF Record, mailVars
  <2> QED BY <1>0, <2>1, <2>2 DEF BooksInv, Ids, True
<1>9. CASE Save
  <2>1. NumbersInv'
    BY <1>0, <1>9 DEF Save, NumbersInv, Good, True, callVars, serverVars
  <2> QED BY <1>0, <1>9, <2>1 DEF Save, BooksInv, Ids, True, mailVars
<1>10. CASE Crash
  <2>1. todo' = <<>> /\ got' = {} /\ entries' = <<>>
    BY <1>10 DEF Crash
  <2>2. NumbersInv'
    BY <2>1 DEF NumbersInv, Good, True
  <2>3. /\ UNCHANGED <<mail, processed, rerun, saved>> /\ seen' = saved /\ hand' = {}
        /\ forgotten' = forgotten \cup (seen \ saved) \cup Ids(hand)
    BY <1>10 DEF Crash, mailVars
  <2> QED BY <1>0, <2>2, <2>3 DEF BooksInv, Ids, True
<1>11. CASE AnswerUidl
  <2>1. /\ link # "late" /\ drop' = drop /\ ~Idle /\ call.op # "retr_many"
        /\ UNCHANGED <<mail, saved, forgotten>>
    BY <1>11 DEF AnswerUidl, Idle, CallInv, mailVars, serverVars
  <2>2. /\ call.op = "prune"  => seen' = Pruned(Listing) /\ Return(Fresh, <<>>) /\ Nothing
        /\ call.op = "unseen" => Return(Fresh, Unseen(Listing)) /\ Nothing /\ UNCHANGED seen
        /\ call.op \notin {"prune", "unseen"} => Step(Unseen(Listing), {}) /\ UNCHANGED seen
    BY <1>11, <2>1 DEF AnswerUidl
  <2>3. Good(Unseen(Listing)) /\ Listed(Listing) = drop
    BY ListingIsGood, UnseenIsGood
  <2>4. Fresh \in {"Fresh", "Reconnected", "Err"} /\ (Fresh = "Fresh" => ~call.again)
    BY DEF Fresh
  <2>5. CASE call.op \in {"prune", "unseen"}
    <3>1. /\ \E listed : Good(listed) /\ Return(Fresh, listed)
          /\ Nothing /\ (seen' = seen \/ seen' = seen \cap drop)
      BY <1>1, <2>2, <2>3, <2>5 DEF Pruned
    <3>2. NumbersInv'
      BY <1>0, <2>1, <2>4, <3>1, ReturnNumbers
    <3>3. processed \cap mail \subseteq drop
      BY DEF MaildropInv
    <3> QED BY <1>0, <2>1, <3>1, <3>2, <3>3 DEF BooksInv, Ids, True, Nothing
  <2>6. CASE call.op \notin {"prune", "unseen"}
    <3>1. Step(Unseen(Listing), {}) /\ UNCHANGED seen
      BY <2>2, <2>6
    <3>2. NumbersInv'
      BY <1>0, <1>1, <2>1, <2>3, <3>1, StepNumbers
    <3>3. HandOver({}) \/ Nothing
      BY <3>1 DEF Step
    <3>4. CASE HandOver({})
      BY <1>0, <1>1, <2>1, <3>1, <3>2, <3>4, HandOverBooks
    <3>5. CASE Nothing
      BY <1>0, <2>1, <3>1, <3>2, <3>5 DEF BooksInv, Ids, True, Nothing
    <3> QED BY <3>3, <3>4, <3>5
  <2> QED BY <2>5, <2>6
<1>12. CASE AnswerRetr
  <2>1. /\ link # "late" /\ drop' = drop /\ ~Idle
        /\ todo \in Seq(Entry) /\ todo # <<>>
        /\ UNCHANGED <<mail, seen, saved, forgotten>>
    BY <1>12 DEF AnswerRetr, Idle, TypeOK, mailVars, serverVars
  <2>2. PICK m \in {Nth(drop, n) : n \in {todo[1].n} \cap Numbers(drop)} :
          Step(Tail(todo), got \cup {[uid |-> todo[1].uid, msg |-> m]})
    BY <1>12, <2>1 DEF AnswerRetr
  <2> DEFINE more == got \cup {[uid |-> todo[1].uid, msg |-> m]}
             own  == ~(call.op = "retr_many" /\ call.again)
  <2>3. ASSUME own PROVE Good(Tail(todo)) /\ True(more)
    <3>1. Good(todo) /\ True(got)
      BY <1>0, <2>3 DEF NumbersInv
    <3>2. 1 \in DOMAIN todo /\ m = Nth(drop, todo[1].n)
      BY <2>1, <2>2
    <3>3. todo[1].uid = m
      BY <3>1, <3>2 DEF Good
    <3> QED BY <2>1, <3>1, <3>3, TailIsGood DEF True
  <2>4. Step(Tail(todo), more)
    BY <2>2
  <2> HIDE DEF more
  <2>5. NumbersInv'
    BY <1>0, <2>1, <2>3, <2>4, StepNumbers
  <2>6. CASE HandOver(more)
    BY <1>0, <2>1, <2>3, <2>5, <2>6, HandOverBooks
  <2>7. CASE Nothing
    BY <1>0, <2>1, <2>5, <2>7 DEF BooksInv, Ids, True, Nothing
  <2> QED BY <2>4, <2>6, <2>7 DEF Step
<1>13. CASE Refuse
  <2>1. /\ drop' = drop /\ ~Idle
        /\ UNCHANGED <<mail, seen, saved, forgotten>>
    BY <1>13 DEF Refuse, Idle, mailVars, serverVars
  <2>2. CASE call.op = "retr_many"
    <3>1. call.at = "retr" /\ todo \in Seq(Entry) /\ todo # <<>>
      BY <1>13, <2>1, <2>2 DEF Refuse, TypeOK, CallInv
    <3>2. Step(Tail(todo), got)
      BY <1>13, <2>2 DEF Refuse
    <3>3. ASSUME ~(call.op = "retr_many" /\ call.again) PROVE Good(Tail(todo)) /\ True(got)
      BY <1>0, <3>1, <3>3, TailIsGood DEF NumbersInv
    <3>4. NumbersInv'
      BY <1>0, <2>1, <3>2, <3>3, StepNumbers
    <3>5. CASE HandOver(got)
      BY <1>0, <2>1, <3>3, <3>4, <3>5, HandOverBooks
    <3>6. CASE Nothing
      BY <1>0, <2>1, <3>4, <3>6 DEF BooksInv, Ids, True, Nothing
    <3> QED BY <3>2, <3>5, <3>6 DEF Step
  <2>3. CASE call.op # "retr_many"
    <3>1. Return("Err", <<>>) /\ Nothing
      BY <1>13, <2>3 DEF Refuse
    <3>2. NumbersInv'
      BY <1>0, <1>1, <2>1, <3>1, ReturnNumbers
    <3> QED BY <1>0, <2>1, <3>1, <3>2 DEF BooksInv, Ids, True, Nothing
  <2> QED BY <2>2, <2>3
<1>14. CASE Break
  <2>1. /\ drop' = drop /\ ~Idle
        /\ UNCHANGED <<mail, seen, saved, forgotten>>
    BY <1>14 DEF Break, Idle, mailVars, serverVars
  <2>2. CASE wrapped /\ ~call.again
    <3>1. /\ call' = [call EXCEPT !.at = "login"]
          /\ UNCHANGED <<todo, got, ret, entries, hand, processed, rerun>>
      BY <1>14, <2>2 DEF Break, Nothing
    <3>2. call'.op = call.op /\ call'.again = call.again
      BY <1>0, <3>1 DEF CallTypes
    <3>3. NumbersInv'
      BY <1>0, <2>1, <3>1, <3>2 DEF NumbersInv, Good, True
    <3> QED BY <1>0, <2>1, <3>1, <3>3 DEF BooksInv, Ids, True
  <2>3. CASE ~(wrapped /\ ~call.again)
    <3>1. \/ call.op = "retr_many" /\ Return(Fresh, <<>>) /\ HandOver(got)
          \/ Return("Err", <<>>) /\ Nothing
      BY <1>14, <2>3 DEF Break
    <3>2. NumbersInv'
      <4>1. Fresh \in {"Fresh", "Reconnected", "Err"} /\ (Fresh = "Fresh" => ~call.again)
        BY DEF Fresh
      <4> QED BY <1>0, <1>1, <2>1, <3>1, <4>1, ReturnNumbers
    <3>3. CASE HandOver(got)
      BY <1>0, <2>1, <3>2, <3>3, HandOverBooks DEF NumbersInv
    <3>4. CASE Nothing
      BY <1>0, <2>1, <3>2, <3>4 DEF BooksInv, Ids, True, Nothing
    <3> QED BY <3>1, <3>3, <3>4
  <2> QED BY <2>2, <2>3
<1>15. CASE LogIn
  (* A retr_many starts again with entries that may be of no use; the     *)
  (* others start with UIDL.                                              *)
  <2>1. /\ call'.again /\ got' = {} /\ (call'.op # "retr_many" => todo' = <<>>)
    BY <1>15 DEF LogIn, Start
  <2>2. NumbersInv'
    BY <2>1 DEF NumbersInv, Good, True
  <2> QED BY <1>0, <1>15, <2>2 DEF LogIn, BooksInv, Ids, True, mailVars, callerVars
<1>16. CASE LogInFails \/ Cancel
  <2>1. /\ Return("Err", <<>>) /\ Nothing
        /\ UNCHANGED <<drop, mail, seen, saved, forgotten>>
    BY <1>16 DEF LogInFails, Cancel, mailVars, serverVars
  <2>2. NumbersInv'
    BY <1>0, <1>1, <2>1, ReturnNumbers
  <2> QED BY <1>0, <2>1, <2>2 DEF BooksInv, Ids, True, Nothing
<1>17. CASE UNCHANGED vars
  <2>1. NumbersInv'
    BY <1>0, <1>17 DEF vars, NumbersInv, Good, True, serverVars, callVars, callerVars
  <2> QED BY <1>0, <1>17, <2>1 DEF vars, BooksInv, Ids, True, mailVars, callerVars
<1> QED BY <1>2, <1>3, <1>4, <1>5, <1>6, <1>7, <1>8, <1>9, <1>10, <1>11, <1>12, <1>13, <1>14,
           <1>15, <1>16, <1>17 DEF Next

(* The invariants of incremental sync, over sessions, calls made again,    *)
(* futures dropped and crashes of the caller.                              *)
THEOREM SyncIsSound == Spec => [](TypeOK /\ CallInv /\ MaildropInv /\ SyncInv)
<1>1. Init => MaildropInv /\ SyncInv
  <2> SUFFICES ASSUME Init PROVE MaildropInv /\ SyncInv
    OBVIOUS
  <2>1. /\ session = FALSE /\ todo = <<>> /\ got = {} /\ entries = <<>> /\ hand = {} /\ mail = {}
        /\ seen = {} /\ saved = {} /\ processed = {} /\ forgotten = {} /\ rerun = {}
    BY DEF Init
  <2> QED BY <2>1 DEF MaildropInv, SyncInv, NumbersInv, BooksInv, Good, True, Ids
<1> QED BY <1>1, TypeCorrect, MaildropInductive, SyncInductive, PTL DEF Spec

(* No message is skipped (unseen_uids, fetch_unseen and prune_seen of      *)
(* client.rs and reconnect.rs): what the caller holds as seen was returned *)
(* to it under its own id, for any number of messages, sessions, calls     *)
(* made again and crashes; except what a retr_many made again in a new     *)
(* session returned under the id of another message.                       *)
THEOREM SkipsNothing == Spec => []NothingSkipped
<1>1. SyncInv => NothingSkipped
  BY DEF SyncInv, BooksInv, True, NothingSkipped
<1> QED BY <1>1, SyncIsSound, PTL

(* No message is fetched twice: what was returned and is still on the      *)
(* server is known to be seen, unless a crash of the caller has lost that, *)
(* or a retr_many made again has returned it under another id; prune_seen  *)
(* drops the id of no message that is still there.                         *)
THEOREM DownloadsOnce == Spec => []NoDoubleDownload
<1>1. SyncInv => NoDoubleDownload
  BY DEF SyncInv, BooksInv, NoDoubleDownload
<1> QED BY <1>1, SyncIsSound, PTL
=============================================================================
