-------------------------------- MODULE Sync --------------------------------
(***************************************************************************)
(* Incremental sync: unseen_uids, fetch_unseen and prune_seen of           *)
(* Pop3Client and of ReconnectingClient, and the set of unique ids a       *)
(* caller keeps between sessions, as the examples of client.rs keep it.    *)
(*                                                                         *)
(* A message is its unique id, which names it for ever; a message number   *)
(* names it in one session only.  UIDL and each RETR are one step: what    *)
(* happens inside them is in Pop3Session, what happens in do_reconnect in  *)
(* Reconnect.  retr_many is here for the entries of unseen_uids, as the    *)
(* documentation of fetch_unseen advises.                                  *)
(***************************************************************************)
EXTENDS MessageNumbers

CONSTANT MaxMail   \* bound: messages that ever arrive
ASSUME MailIsNat == MaxMail \in Nat

VARIABLES
  mail,       \* the maildrop
  arrived,    \* how many messages have arrived
  session,    \* a session of ours holds the maildrop
  drop,       \* the maildrop as the last session numbers it
  wrapped,    \* the client is a ReconnectingClient
  link,       \* its connection: "none", "up", "late" (a reply is still to
              \* come), "down"
  call,       \* the call in progress
  todo, got,  \* entries to retrieve, and what was retrieved: pairs
  ret,        \* what the last call returned
  entries,    \* the caller: what unseen_uids returned, while it is valid,
  hand,       \* pairs that were returned and not yet recorded,
  seen, saved,\* the seen set, and the copy of it on disk
  \* history
  processed,  \* messages that were returned to the caller
  rerun,      \* pairs of two messages, of a retr_many made again in a new session
  forgotten,  \* ids that a crash of the caller has lost
  muddled     \* a call took a reply that another call has left behind

mailVars   == <<mail, arrived>>
serverVars == <<session, drop>>
callVars   == <<call, todo, got>>
callerVars == <<entries, hand, seen, saved, processed, rerun, forgotten>>
vars == <<mailVars, serverVars, wrapped, link, callVars, ret, callerVars, muddled>>

Messages == 1 .. MaxMail

Ops    == {"unseen", "fetch", "prune", "retr_many"}
NoCall == [op |-> "prune", at |-> "none", again |-> FALSE]
Idle   == call.at = "none"

Ids(pairs) == {p.uid : p \in pairs}

Init ==
  /\ mail = {} /\ arrived = 0 /\ session = FALSE /\ drop = {}
  /\ wrapped \in BOOLEAN /\ link = "none"
  /\ call = NoCall /\ todo = <<>> /\ got = {} /\ ret = "none"
  /\ entries = <<>> /\ hand = {} /\ seen = {} /\ saved = {}
  /\ processed = {} /\ rerun = {} /\ forgotten = {} /\ muddled = FALSE

-----------------------------------------------------------------------------
(***************************************************************************)
(* The maildrop and the server (external).                                 *)
(***************************************************************************)
Arrive ==
  /\ arrived < MaxMail
  /\ arrived' = arrived + 1 /\ mail' = mail \cup {arrived + 1}
  /\ UNCHANGED <<serverVars, wrapped, link, callVars, ret, callerVars, muddled>>

(* A message is deleted by another program, or expires, between sessions.  *)
Remove(u) ==
  /\ ~session
  /\ mail' = mail \ {u}
  /\ UNCHANGED <<arrived, serverVars, wrapped, link, callVars, ret, callerVars, muddled>>

EndSession ==
  /\ session /\ session' = FALSE
  /\ link' = IF link = "none" THEN "none" ELSE "down"
  /\ UNCHANGED <<mailVars, drop, wrapped, callVars, ret, callerVars, muddled>>

(* A login is let in when no other session holds the maildrop.  It ends    *)
(* with CAPA, whose failure it ignores: the reply may still be to come, or *)
(* the connection be lost.                                                 *)
Enter ==
  /\ ~session /\ session' = TRUE
  /\ drop' = mail /\ link' \in {"up", "late", "down"}

-----------------------------------------------------------------------------
(***************************************************************************)
(* The caller.  It records what it was given before it goes on, and uses   *)
(* the numbers of unseen_uids as long as every call has returned Fresh.    *)
(***************************************************************************)
Connect ==
  /\ link = "none" /\ Idle /\ Enter
  /\ UNCHANGED <<mailVars, wrapped, callVars, ret, callerVars, muddled>>

DropClient ==
  /\ link # "none" /\ Idle
  /\ link' = "none" /\ entries' = <<>>
  /\ UNCHANGED <<mailVars, serverVars, wrapped, callVars, ret, hand, seen, saved,
                 processed, rerun, forgotten, muddled>>

(* Where a call starts.                                                    *)
Start(op, again) ==
  /\ call' = [op |-> op, at |-> IF op = "retr_many" THEN "retr" ELSE "uidl", again |-> again]
  /\ todo' = IF op = "retr_many" THEN entries ELSE <<>>
  /\ got' = {}

Begin(op) ==
  /\ link # "none" /\ Idle /\ hand = {}
  /\ op = "retr_many" => entries # <<>>
  /\ Start(op, FALSE)
  /\ ret' = "none"
  /\ UNCHANGED <<mailVars, serverVars, wrapped, link, callerVars, muddled>>

Record ==
  /\ hand # {} /\ Idle
  /\ seen' = seen \cup Ids(hand) /\ hand' = {}
  /\ UNCHANGED <<mailVars, serverVars, wrapped, link, callVars, ret, entries, saved,
                 processed, rerun, forgotten, muddled>>

Save ==
  /\ saved' = seen /\ saved # seen /\ Idle
  /\ UNCHANGED <<mailVars, serverVars, wrapped, link, callVars, ret, entries, hand,
                 seen, processed, rerun, forgotten, muddled>>

Crash ==
  /\ seen' = saved /\ hand' = {} /\ entries' = <<>>
  /\ forgotten' = forgotten \cup (seen \ saved) \cup Ids(hand)
  /\ link' = "none" /\ call' = NoCall /\ todo' = <<>> /\ got' = {} /\ ret' = "none"
  /\ UNCHANGED <<mailVars, serverVars, wrapped, saved, processed, rerun, muddled>>

-----------------------------------------------------------------------------
(***************************************************************************)
(* A call returns.                                                         *)
(***************************************************************************)
Fresh == IF call.again THEN "Reconnected" ELSE "Fresh"

Return(out, listed) ==
  /\ call' = NoCall /\ todo' = <<>> /\ got' = {} /\ ret' = out
  /\ entries' = IF out # "Err" /\ call.op = "unseen" THEN listed
                ELSE IF out = "Fresh" THEN entries
                ELSE <<>>

(* Pairs are handed over.  A retr_many that has reconnected hands over     *)
(* what the old numbers name in the new session.                           *)
Renumbered(pairs) ==
  {p \in pairs : call.op = "retr_many" /\ call.again /\ p.uid # p.msg}
HandOver(pairs) ==
  /\ hand' = pairs
  /\ processed' = processed \cup {p.msg : p \in pairs}
  /\ rerun' = rerun \cup Renumbered(pairs)
Nothing == UNCHANGED <<hand, processed, rerun>>

(* All of fetch_unseen, or as many of retr_many as there are.              *)
Step(rest, pairs) ==
  IF rest = <<>> THEN Return(Fresh, <<>>) /\ HandOver(pairs)
  ELSE /\ call' = [call EXCEPT !.at = "retr"] /\ todo' = rest /\ got' = pairs
       /\ Nothing /\ UNCHANGED <<ret, entries>>

-----------------------------------------------------------------------------
(***************************************************************************)
(* Replies.                                                                *)
(***************************************************************************)
(* UIDL's listing of the session.                                          *)
Listing   == [i \in Numbers(drop) |-> [n |-> i, uid |-> Nth(drop, i)]]
Listed(l) == {l[i].uid : i \in DOMAIN l}

(* Mutant: as many messages as there are in `seen' are taken for seen.     *)
UnseenByCount(l) == EntriesAt(l, {i \in DOMAIN l : l[i].n > Cardinality(seen)})
Unseen(l) == EntriesAt(l, {i \in DOMAIN l : l[i].uid \notin seen})

(* Mutant: prune_seen calls unseen_uids.                                   *)
PrunedUnseen(l) == seen \cap Listed(Unseen(l))
Pruned(l) == seen \cap Listed(l)

(* A late connection gives a reply that was meant for an earlier call: an  *)
(* empty one for instance, or the listing.                                 *)
Answerable == link \in {"up", "late"}
AnswerUidl ==
  /\ call.at = "uidl" /\ Answerable
  /\ \E l \in {Listing} \cup (IF link = "late" THEN {<<>>} ELSE {}) :
       CASE call.op = "prune"  -> seen' = Pruned(l) /\ Return(Fresh, <<>>) /\ Nothing
         [] call.op = "unseen" -> Return(Fresh, Unseen(l)) /\ Nothing /\ UNCHANGED seen
         [] OTHER              -> Step(Unseen(l), {}) /\ UNCHANGED seen
  /\ muddled' = (muddled \/ link = "late")
  /\ UNCHANGED <<mailVars, serverVars, wrapped, link, saved, forgotten>>

AnswerRetr ==
  /\ call.at = "retr" /\ Answerable
  /\ \E m \in IF link = "late" THEN drop
              ELSE {Nth(drop, n) : n \in {todo[1].n} \cap Numbers(drop)} :
       Step(Tail(todo), got \cup {[uid |-> todo[1].uid, msg |-> m]})
  /\ muddled' = (muddled \/ link = "late")
  /\ UNCHANGED <<mailVars, serverVars, wrapped, link, seen, saved, forgotten>>

(* -ERR, or a listing that cannot be parsed: fetch_unseen fails as a whole,*)
(* retr_many for one id.                                                   *)
Refuse ==
  /\ call.at \in {"uidl", "retr"} /\ Answerable
  /\ IF call.op = "retr_many" THEN Step(Tail(todo), got)
     ELSE Return("Err", <<>>) /\ Nothing
  /\ muddled' = (muddled \/ link = "late")
  /\ UNCHANGED <<mailVars, serverVars, wrapped, link, seen, saved, forgotten>>

(* Mutant: every attempt may be followed by another.                       *)
BreakRetriesAgain ==
  /\ call.at \in {"uidl", "retr"}
  /\ link' \in IF Answerable THEN {link, "late", "down"} ELSE {link}
  /\ IF wrapped
     THEN call' = [call EXCEPT !.at = "login"] /\ Nothing
          /\ UNCHANGED <<todo, got, ret, entries>>
     ELSE /\ Return(IF call.op = "retr_many" THEN "Fresh" ELSE "Err", <<>>)
          /\ IF call.op = "retr_many" THEN HandOver(got) ELSE Nothing
  /\ UNCHANGED <<mailVars, serverVars, wrapped, seen, saved, forgotten, muddled>>

(* A transient error: [SYS/TEMP], a timeout or a line that is not UTF-8, a *)
(* lost connection.  It makes a ReconnectingClient reconnect, once; the    *)
(* plain retr_many returns what it has, with an error in the other places. *)
Break ==
  /\ call.at \in {"uidl", "retr"}
  /\ link' \in IF Answerable THEN {link, "late", "down"} ELSE {link}
  /\ \/ /\ wrapped /\ ~call.again
        /\ call' = [call EXCEPT !.at = "login"] /\ Nothing
        /\ UNCHANGED <<todo, got, ret, entries>>
     \/ /\ ~wrapped \/ call.again
        /\ IF call.op = "retr_many" THEN Return(Fresh, <<>>) /\ HandOver(got)
           ELSE Return("Err", <<>>) /\ Nothing
  /\ UNCHANGED <<mailVars, serverVars, wrapped, seen, saved, forgotten, muddled>>

(* Mutant: the new session goes on with the entries of the old one.        *)
LogInResumes ==
  /\ call.at = "login" /\ Enter
  /\ IF todo = <<>> THEN Start(call.op, TRUE)
     ELSE call' = [call EXCEPT !.at = "retr", !.again = TRUE] /\ UNCHANGED <<todo, got>>
  /\ UNCHANGED <<mailVars, wrapped, ret, callerVars, muddled>>

(* do_reconnect ends: with a new client, for which the whole call is made  *)
(* again, or with an error, and the old client stays.                      *)
LogIn ==
  /\ call.at = "login" /\ Enter
  /\ Start(call.op, TRUE)
  /\ UNCHANGED <<mailVars, wrapped, ret, callerVars, muddled>>

LogInFails ==
  /\ call.at = "login"
  /\ Return("Err", <<>>) /\ Nothing
  /\ UNCHANGED <<mailVars, serverVars, wrapped, link, seen, saved, forgotten, muddled>>

(* The future is dropped.                                                  *)
Cancel ==
  /\ ~Idle
  /\ link' = IF call.at # "login" /\ link = "up" THEN "late" ELSE link
  /\ Return("Err", <<>>) /\ Nothing
  /\ UNCHANGED <<mailVars, serverVars, wrapped, seen, saved, forgotten, muddled>>

Next ==
  \/ Arrive \/ (\E u \in mail : Remove(u)) \/ EndSession
  \/ Connect \/ DropClient \/ (\E op \in Ops : Begin(op))
  \/ Record \/ Save \/ Crash
  \/ AnswerUidl \/ AnswerRetr \/ Refuse \/ Break
  \/ LogIn \/ LogInFails \/ Cancel

Spec == Init /\ [][Next]_vars

(* Every read of a call has a timer.  Nothing is assumed of do_reconnect,  *)
(* which may dial for ever, of the server or of the caller.                *)
FairSpec == Spec /\ WF_vars(AnswerUidl \/ AnswerRetr \/ Refuse \/ Break)

-----------------------------------------------------------------------------
(* Type invariant. *)
Entry == [n : Messages, uid : Messages]
Pair  == [uid : Messages, msg : Messages]
TypeOK ==
  /\ arrived \in 0 .. MaxMail /\ mail \subseteq 1 .. arrived /\ drop \subseteq 1 .. arrived
  /\ {session, wrapped, muddled} \subseteq BOOLEAN
  /\ link \in {"none", "up", "late", "down"} /\ (link = "up" => session)
  /\ call \in [op : Ops, at : {"none", "uidl", "retr", "login"}, again : BOOLEAN]
  /\ call.at = "login" => wrapped /\ ~call.again
  /\ call.at = "retr" => todo # <<>>
  /\ Idle => todo = <<>> /\ got = {}
  /\ todo \in Seq(Entry) /\ entries \in Seq(Entry) /\ got \subseteq Pair
  /\ hand \cup rerun \subseteq Pair
  /\ ret \in {"none", "Fresh", "Reconnected", "Err"}
  /\ seen \cup saved \cup processed \cup forgotten \subseteq Messages

(* No message is skipped: what the caller holds as seen was returned to    *)
(* it, under its own id, although numbers change from session to session,  *)
(* calls are repeated in a new one, and the caller may crash.  Except what *)
(* a retr_many made again in a new session returns under the id of another *)
(* message, because its numbers are those of the session before.           *)
NothingSkipped ==
  ~muddled => /\ (seen \cup saved) \ Ids(rerun) \subseteq processed
              /\ \A p \in hand \ rerun : p.uid = p.msg

(* No message is fetched twice: one that was returned and is still on the  *)
(* server is known to be seen, unless a crash of the caller has lost that, *)
(* or a retr_many made again in a new session has returned it under the id *)
(* of another message.                                                     *)
NoDoubleDownload ==
  ~muddled => processed \cap mail
                \subseteq seen \cup forgotten \cup Ids(hand) \cup {p.msg : p \in rerun}

(* Sync catches up: if calls of fetch_unseen succeed again and again, and  *)
(* sessions begin again and again, then every message is returned, unless  *)
(* it is removed before, or its id is taken for another message's by a     *)
(* retr_many made again in a new session.                                  *)
FetchReturns == call.op = "fetch" /\ ~Idle /\ Idle' /\ ret' \in {"Fresh", "Reconnected"}
NewSession   == ~session /\ session'
CatchesUp ==
  ([]<><<FetchReturns>>_vars /\ []<><<NewSession>>_vars /\ []~muddled)
    => \A u \in Messages :
         u \in mail ~> (u \in processed \/ u \notin mail \/ u \in Ids(rerun))
=============================================================================
