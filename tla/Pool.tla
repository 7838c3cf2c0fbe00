-------------------------------- MODULE Pool --------------------------------
(***************************************************************************)
(* Pop3Pool (pool.rs): the registry of accounts, one bb8 pool of at most   *)
(* one connection for each registration, tasks that check connections out, *)
(* and the manager that connects and validates them.                       *)
(*                                                                         *)
(* bb8 is external.  What is modelled of it is what pool.rs configures and *)
(* relies on: at most max_size connections, connecting included; an idle   *)
(* connection is validated before it is lent; one that is invalid, or      *)
(* broken when it comes back, is discarded; a checkout has a time limit;   *)
(* dropping a checkout half-way puts its connection back; a pool and its   *)
(* idle connections live as long as someone holds an Arc of it.            *)
(*                                                                         *)
(* A reply is one line here: how calls read longer ones is in Pop3Session. *)
(***************************************************************************)
EXTENDS Naturals, Sequences, FiniteSets

CONSTANTS
  Keys,       \* account keys
  Tasks,      \* one task for each guard that can be held at a time
  SelfLogin,  \* registrations whose builder has credentials of its own
  MaxPools,   \* bound: registrations
  MaxQueued,  \* bound: commands and replies on one connection
  None
ASSUME BoundsAreNat == MaxPools \in Nat /\ MaxQueued \in Nat
ASSUME InputsAreRegistrations == SelfLogin \subseteq 1 .. MaxPools
ASSUME NoneIsNone == None \notin Tasks \cup Keys \cup Nat \cup (Nat \X Nat)

VARIABLES
  registry,   \* Pop3Pool.pools: the pool of each registered account, or None
  account,    \* the account of each pool made so far, in order
  conn,       \* the clients
  task,       \* the tasks
  removed     \* history: pools whose account was removed

vars == <<registry, account, conn, task, removed>>

Pools == 1 .. MaxPools
MaxSize == 1                   \* .max_size(1)

(* Places for clients, one more for each pool than it may fill.            *)
Conns == Pools \X (1 .. MaxSize + 1)

(* A client: where it is, Transport.is_closed, whether the server has ended*)
(* the session, the number of commands it has not answered, its replies    *)
(* that were not read; and whether a call on it was given up, the CAPA     *)
(* probe of its login included (history).                                  *)
Client == [at : {"free", "connecting", "greeted", "idle", "taken"},
           closed : BOOLEAN, dead : BOOLEAN,
           unanswered : 0 .. MaxQueued, unread : Seq({"ok", "err"}),
           abandoned : BOOLEAN]
Free == [at |-> "free", closed |-> FALSE, dead |-> FALSE,
         unanswered |-> 0, unread |-> <<>>, abandoned |-> FALSE]

(* A task: outside, waiting in checkout, validating the connection it was  *)
(* given, or holding a guard, idle or in a call on it; late if the last    *)
(* reply it read was another call's.                                       *)
Actor == [at : {"out", "waiting", "testing", "holding", "calling"},
          pool : Pools \cup {None}, conn : Conns \cup {None},
          late : BOOLEAN]
Outside == [at |-> "out", pool |-> None, conn |-> None, late |-> FALSE]

InCheckout(t) == task[t].at \in {"waiting", "testing"}

Init ==
  /\ registry = [k \in Keys |-> None]
  /\ account = <<>>
  /\ conn = [c \in Conns |-> Free]
  /\ task = [t \in Tasks |-> Outside]
  /\ removed = {}

-----------------------------------------------------------------------------
(* The Arc of a pool is held by the registry, by a checkout or a guard     *)
(* made from it, and by a connection attempt in the background.            *)
Referenced(p, reg, tasks, clients) ==
  \/ \E k \in Keys : reg[k] = p
  \/ \E t \in Tasks : tasks[t].pool = p
  \/ \E c \in Conns : c[1] = p /\ clients[c].at \in {"connecting", "greeted"}

(* The next registry, tasks and clients; a pool that nobody refers to any  *)
(* more is dropped with its idle client.                                   *)
Become(reg, tasks, clients) ==
  /\ registry' = reg
  /\ task' = tasks
  /\ conn' = [c \in Conns |->
                IF clients[c].at = "idle" /\ ~Referenced(c[1], reg, tasks, clients)
                THEN Free ELSE clients[c]]

Made(p) == {c \in Conns : c[1] = p /\ conn[c].at # "free"}
Vacant(c) == conn[c].at = "free" /\ \A d \in Made(c[1]) : d[2] < c[2]
HasRoom(c) == conn[c].unanswered + Len(conn[c].unread) < MaxQueued
Sends(c) == [conn[c] EXCEPT !.unanswered = IF conn[c].dead THEN @ ELSE @ + 1]

(* has_broken is is_closed: a broken connection does not go back.          *)
PutBack(client) == IF client.closed THEN Free ELSE [client EXCEPT !.at = "idle"]

-----------------------------------------------------------------------------
(***************************************************************************)
(* The registry.  Its lock is never held across an await.                  *)
(***************************************************************************)

(* Mutant: insert without contains_key.                                    *)
AddAccountAgain(k) ==
  /\ Len(account) < MaxPools
  /\ account' = Append(account, k)
  /\ Become([registry EXCEPT ![k] = Len(account) + 1], task, conn)
  /\ UNCHANGED removed

(* Adding an account that is registered does nothing.                      *)
AddAccount(k) ==
  /\ registry[k] = None /\ Len(account) < MaxPools
  /\ account' = Append(account, k)
  /\ Become([registry EXCEPT ![k] = Len(account) + 1], task, conn)
  /\ UNCHANGED removed

RemoveAccount(k) ==
  /\ registry[k] # None
  /\ removed' = removed \cup {registry[k]}
  /\ Become([registry EXCEPT ![k] = None], task, conn)
  /\ UNCHANGED account

(* checkout clones the Arc and waits in get_owned.                         *)
Checkout(t, k) ==
  /\ task[t].at = "out"
  /\ Become(registry,
            [task EXCEPT ![t] = IF registry[k] = None THEN Outside
                                ELSE [@ EXCEPT !.at = "waiting", !.pool = registry[k]]],
            conn)
  /\ UNCHANGED <<account, removed>>

-----------------------------------------------------------------------------
(***************************************************************************)
(* Pop3ConnectionManager::connect, in a task of bb8's.                     *)
(***************************************************************************)

(* Mutant: .max_size(2).                                                   *)
StartConnectTwice(t, c) ==
  /\ task[t].at = "waiting" /\ c[1] = task[t].pool /\ Vacant(c)
  /\ Cardinality(Made(task[t].pool)) < MaxSize + 1
  /\ \A d \in Made(task[t].pool) : conn[d].at # "idle"
  /\ Become(registry, task,
            [conn EXCEPT ![c] = [Free EXCEPT !.at = "connecting"]])
  /\ UNCHANGED <<account, removed>>

(* A waiting task finds no idle connection and room for a new one.         *)
StartConnect(t, c) ==
  /\ task[t].at = "waiting" /\ c[1] = task[t].pool /\ Vacant(c)
  /\ Cardinality(Made(task[t].pool)) < MaxSize
  /\ Become(registry, task,
            [conn EXCEPT ![c] = [Free EXCEPT !.at = "connecting"]])
  /\ UNCHANGED <<account, removed>>

(* What a login that succeeds gives to the pool.  It ends with CAPA, whose *)
(* failure it ignores: the connection may have ended, or the reply may     *)
(* still be to come.                                                       *)
AfterLogin(c) ==
  LET new == [conn[c] EXCEPT !.at = "idle"] IN
  {new} \cup {[new EXCEPT !.dead = TRUE, !.closed = closed] : closed \in BOOLEAN}
        \cup (IF HasRoom(c) THEN {[new EXCEPT !.unanswered = @ + 1, !.abandoned = TRUE]}
              ELSE {})

(* builder.connect() returns a client, which may be logged in already.     *)
Connected(c) ==
  /\ conn[c].at = "connecting"
  /\ \E client \in IF c[1] \in SelfLogin THEN AfterLogin(c)
                   ELSE {[conn[c] EXCEPT !.at = "greeted"]} :
       Become(registry, task, [conn EXCEPT ![c] = client])
  /\ UNCHANGED <<account, removed>>

LoggedIn(c) ==
  /\ conn[c].at = "greeted"
  /\ \E client \in AfterLogin(c) : Become(registry, task, [conn EXCEPT ![c] = client])
  /\ UNCHANGED <<account, removed>>

(* CR or LF in name or password (found before connecting), no connection,  *)
(* no TLS, or no login.  retry_connection(false): it is not tried again.   *)
(* A task that waits may be told, or waits on.                             *)
ConnectFails(c) ==
  /\ conn[c].at \in {"connecting", "greeted"}
  /\ \E told \in {{}} \cup {{t} : t \in {u \in Tasks : task[u].at = "waiting"
                                                    /\ task[u].pool = c[1]}} :
       Become(registry,
              [t \in Tasks |-> IF t \in told THEN Outside ELSE task[t]],
              [conn EXCEPT ![c] = Free])
  /\ UNCHANGED <<account, removed>>

-----------------------------------------------------------------------------
(***************************************************************************)
(* Checkout: take an idle connection, validate it with NOOP, lend it.      *)
(***************************************************************************)

(* Mutant: .test_on_check_out(false).                                      *)
TakeUntested(t, c) ==
  /\ task[t].at = "waiting" /\ conn[c].at = "idle" /\ c[1] = task[t].pool
  /\ HasRoom(c)
  /\ Become(registry,
            [task EXCEPT ![t].at = "holding", ![t].conn = c],
            [conn EXCEPT ![c].at = "taken"])
  /\ UNCHANGED <<account, removed>>

Take(t, c) ==
  /\ task[t].at = "waiting" /\ conn[c].at = "idle" /\ c[1] = task[t].pool
  /\ HasRoom(c)
  /\ Become(registry,
            [task EXCEPT ![t].at = "testing", ![t].conn = c],
            [conn EXCEPT ![c] = [Sends(c) EXCEPT !.at = "taken"]])
  /\ UNCHANGED <<account, removed>>

(* The reply that t reads on its connection.  Its own command is the last  *)
(* one written there, so the reply is another one's if any is still to be  *)
(* read or to come.                                                        *)
HasReply(t) == conn[task[t].conn].unread # <<>>
Kind(t)     == Head(conn[task[t].conn].unread)
IsLate(t)   == conn[task[t].conn].unanswered + Len(conn[task[t].conn].unread) > 1
Consumed(t) == [conn[task[t].conn] EXCEPT !.unread = Tail(@)]

(* Mutant: is_valid sends NOOP and does not read the reply.                *)
ValidUnread(t) ==
  /\ task[t].at = "testing"
  /\ Become(registry,
            [task EXCEPT ![t].at = "holding"], conn)
  /\ UNCHANGED <<account, removed>>

Valid(t) ==
  /\ task[t].at = "testing" /\ HasReply(t) /\ Kind(t) = "ok"
  /\ Become(registry,
            [task EXCEPT ![t].at = "holding", ![t].late = IsLate(t)],
            [conn EXCEPT ![task[t].conn] = Consumed(t)])
  /\ UNCHANGED <<account, removed>>

(* Mutant: the task keeps the discarded connection while it looks again.   *)
InvalidKeeps(t) ==
  /\ task[t].at = "testing" /\ (HasReply(t) => Kind(t) = "err")
  /\ Become(registry,
            [task EXCEPT ![t].at = "waiting"],
            [conn EXCEPT ![task[t].conn] = Free])
  /\ UNCHANGED <<account, removed>>

(* -ERR, EOF, a reset, or the read timer of the NOOP: bb8 discards the     *)
(* connection and the checkout looks again.                                *)
Invalid(t) ==
  /\ task[t].at = "testing" /\ (HasReply(t) => Kind(t) = "err")
  /\ Become(registry,
            [task EXCEPT ![t].at = "waiting", ![t].conn = None],
            [conn EXCEPT ![task[t].conn] = Free])
  /\ UNCHANGED <<account, removed>>

(* The clients when t lets go of its connection in the middle of a call.   *)
GivenUp(t) ==
  [c \in Conns |-> IF c = task[t].conn THEN PutBack([conn[c] EXCEPT !.abandoned = TRUE])
                   ELSE conn[c]]

(* Mutant: connection_timeout limits the waiting, not the validation, and  *)
(* the NOOP has no timer.                                                  *)
CheckoutEndsWaiting(t) ==
  /\ task[t].at = "waiting"
  /\ Become(registry, [task EXCEPT ![t] = Outside], GivenUp(t))
  /\ UNCHANGED <<account, removed>>

(* Mutant: a checkout that is given up in a NOOP does not put back.        *)
CheckoutEndsLosing(t) ==
  /\ InCheckout(t)
  /\ Become(registry, [task EXCEPT ![t] = Outside], conn)
  /\ UNCHANGED <<account, removed>>

(* connection_timeout covers the whole of checkout, and the caller may     *)
(* drop the future.  A NOOP in flight is given up, and its connection goes *)
(* back to the pool: only a NOOP that failed makes it invalid.             *)
CheckoutEnds(t) ==
  /\ InCheckout(t)
  /\ Become(registry, [task EXCEPT ![t] = Outside], GivenUp(t))
  /\ UNCHANGED <<account, removed>>

-----------------------------------------------------------------------------
(***************************************************************************)
(* The holder of a guard.                                                  *)
(***************************************************************************)
Call(t) ==
  /\ task[t].at = "holding" /\ HasRoom(task[t].conn)
  /\ Become(registry,
            [task EXCEPT ![t].at = "calling", ![t].late = FALSE],
            [conn EXCEPT ![task[t].conn] = Sends(task[t].conn)])
  /\ UNCHANGED <<account, removed>>

Answered(t) ==
  /\ task[t].at = "calling" /\ HasReply(t)
  /\ Become(registry,
            [task EXCEPT ![t].at = "holding", ![t].late = IsLate(t)],
            [conn EXCEPT ![task[t].conn] = Consumed(t)])
  /\ UNCHANGED <<account, removed>>

(* EOF marks the client closed, a reset does not.                          *)
CallBreaks(t) ==
  /\ task[t].at = "calling" /\ ~HasReply(t) /\ conn[task[t].conn].dead
  /\ \E closed \in BOOLEAN :
       Become(registry, [task EXCEPT ![t].at = "holding"],
              [conn EXCEPT ![task[t].conn].closed = @ \/ closed])
  /\ UNCHANGED <<account, removed>>

(* The read timer of a call, or its future dropped.                        *)
CallGivenUp(t) ==
  /\ task[t].at = "calling"
  /\ Become(registry, [task EXCEPT ![t].at = "holding"],
            [conn EXCEPT ![task[t].conn].abandoned = TRUE])
  /\ UNCHANGED <<account, removed>>

(* Drop of PooledConnection.                                               *)
DropGuard(t) ==
  /\ task[t].at = "holding"
  /\ Become(registry, [task EXCEPT ![t] = Outside],
            [conn EXCEPT ![task[t].conn] = PutBack(@)])
  /\ UNCHANGED <<account, removed>>

(* bb8's reaper: idle_timeout and max_lifetime.                            *)
Reap(c) ==
  /\ conn[c].at = "idle"
  /\ Become(registry, task, [conn EXCEPT ![c] = Free])
  /\ UNCHANGED <<account, removed>>

-----------------------------------------------------------------------------
(***************************************************************************)
(* The server (external): it answers in order, or ends the session, with   *)
(* some of its replies lost.                                               *)
(***************************************************************************)
Answer(c) ==
  /\ conn[c].unanswered > 0
  /\ \E kind \in {"ok", "err"} :
       Become(registry, task,
              [conn EXCEPT ![c].unanswered = @ - 1, ![c].unread = Append(@, kind)])
  /\ UNCHANGED <<account, removed>>

EndSession(c) ==
  /\ conn[c].at \in {"idle", "taken"} /\ ~conn[c].dead
  /\ \E n \in 0 .. Len(conn[c].unread) :
       Become(registry, task,
              [conn EXCEPT ![c].dead = TRUE, ![c].unanswered = 0,
                           ![c].unread = SubSeq(@, 1, n)])
  /\ UNCHANGED <<account, removed>>

-----------------------------------------------------------------------------
(* A call ends: by its reply, by the end of the connection, by its timer.  *)
CallEnds(t) == Answered(t) \/ CallBreaks(t) \/ CallGivenUp(t)

Next ==
  \/ \E k \in Keys : AddAccount(k) \/ RemoveAccount(k)
  \/ \E t \in Tasks :
       \/ \E k \in Keys : Checkout(t, k)
       \/ \E c \in Conns : StartConnect(t, c) \/ Take(t, c)
       \/ Valid(t) \/ Invalid(t) \/ CheckoutEnds(t)
       \/ Call(t) \/ CallEnds(t) \/ DropGuard(t)
  \/ \E c \in Conns : \/ Connected(c) \/ LoggedIn(c) \/ ConnectFails(c) \/ Reap(c)
                      \/ Answer(c) \/ EndSession(c)

Spec == Init /\ [][Next]_vars

(* The timers fire.  Nothing is assumed of bb8's waking of waiting tasks,  *)
(* of the server, or of a holder, who may keep its guard for ever.         *)
FairSpec == Spec /\ \A t \in Tasks : WF_vars(CheckoutEnds(t) \/ CallEnds(t))

-----------------------------------------------------------------------------
(* Type invariant. *)
TypeOK ==
  /\ registry \in [Keys -> Pools \cup {None}]
  /\ account \in Seq(Keys) /\ Len(account) <= MaxPools
  /\ conn \in [Conns -> Client]
  /\ task \in [Tasks -> Actor]
  /\ \A t \in Tasks : /\ task[t].at = "out" <=> task[t].pool = None
                      /\ task[t].at \in {"out", "waiting"} <=> task[t].conn = None
  /\ removed \subseteq Pools

(* One connection for each mailbox: two clients of one account exist only  *)
(* if the account was removed in between, while one of them was in use.    *)
AccountOf(c) == account[c[1]]
OneClientPerAccount ==
  \A c, d \in Conns :
    c # d /\ conn[c].at # "free" /\ conn[d].at # "free" /\ AccountOf(c) = AccountOf(d)
      => c[1] \in removed \/ d[1] \in removed

(* The connection of an account is never lost: whoever took it, or was     *)
(* given it by a checkout that then timed out or was dropped, one task has *)
(* it, or it is back in the pool or discarded.                             *)
HeldByOne ==
  \A c \in Conns :
    Cardinality({t \in Tasks : task[t].conn = c}) = IF conn[c].at = "taken" THEN 1 ELSE 0

(* A guard gives its holder the connection alone: while no call on it was  *)
(* given up, by a holder, by a checkout or by the login that made it, every*)
(* reply a task reads answers its own command, whoever had the connection  *)
(* before, and a connection in the pool has none to come.                  *)
RepliesAreOwn ==
  /\ \A t \in Tasks : task[t].conn # None /\ ~conn[task[t].conn].abandoned => ~task[t].late
  /\ \A c \in Conns : conn[c].at = "idle" /\ ~conn[c].abandoned
                        => conn[c].unanswered = 0 /\ conn[c].unread = <<>>

(* A connection is lent only if the server has just accepted this task's   *)
(* NOOP; the late reply of a call that was given up, the CAPA of the login *)
(* for instance, is the one thing that can stand in for it.                *)
LentAlive ==
  [][\A t \in Tasks :
       InCheckout(t) /\ task'[t].at = "holding"
         => LET c == task'[t].conn IN
            \/ conn[c].abandoned
            \/ conn[c].unread = <<"ok">> /\ conn[c].unanswered = 0]_vars

(* Every checkout returns, in connection_timeout at most, although other   *)
(* tasks may never give back the connection they hold and a connection     *)
(* attempt may never end; and so does every call on a guard.               *)
Busy(t) == task[t].at \in {"waiting", "testing", "calling"}
CheckoutReturns == \A t \in Tasks : Busy(t) ~> ~Busy(t)

-----------------------------------------------------------------------------
(* Each registration is a lock of the tasks that check it out.             *)
Lock == INSTANCE AccountLock WITH
  Registrations <- Pools,
  wanted <- [t \in Tasks |-> IF InCheckout(t) THEN task[t].pool ELSE None],
  holder <- [p \in Pools |->
               IF \E t \in Tasks : task[t].at \in {"holding", "calling"} /\ task[t].pool = p
               THEN CHOOSE t \in Tasks : task[t].at \in {"holding", "calling"} /\ task[t].pool = p
               ELSE None]

(* Refinement: mutual exclusion of the holders of a registration, with     *)
(* timeouts, cancellation, and accounts removed while in use.              *)
IsLock == Lock!Spec
=============================================================================
