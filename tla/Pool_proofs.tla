---------------------------- MODULE Pool_proofs -----------------------------
(***************************************************************************)
(* Proofs about Pool, for any accounts, any tasks, any number of           *)
(* registrations, any builders and any number of commands on a connection. *)
(*                                                                         *)
(* Every action ends in Become, which gives the next registry, tasks and   *)
(* clients and then drops the idle clients of pools nobody refers to.  The *)
(* parts of the inductive invariant are therefore stated of any accounts,  *)
(* registry, tasks, clients and removed pools: an action is shown to give  *)
(* good ones, and dropping to keep them good.                              *)
(***************************************************************************)
EXTENDS Pool, FiniteSetTheorems, SequenceTheorems, TLAPS

(* What Become makes of the clients.                                       *)
Kept(reg, tasks, clients) ==
  [c \in Conns |-> IF clients[c].at = "idle" /\ ~Referenced(c[1], reg, tasks, clients)
                   THEN Free ELSE clients[c]]

Typed(acc, reg, tasks, clients, rem) ==
  /\ reg \in [Keys -> Pools \cup {None}]
  /\ acc \in Seq(Keys) /\ Len(acc) <= MaxPools
  /\ clients \in [Conns -> Client]
  /\ tasks \in [Tasks -> Actor]
  /\ \A t \in Tasks : /\ tasks[t].at = "out" <=> tasks[t].pool = None
                      /\ tasks[t].at \in {"out", "waiting"} <=> tasks[t].conn = None
  /\ rem \subseteq Pools

(* A pool was made for an account, and is its pool now or was removed.     *)
Registered(acc, reg, tasks, clients, rem) ==
  /\ \A k \in Keys : reg[k] # None => reg[k] \in 1 .. Len(acc) /\ acc[reg[k]] = k
  /\ \A p \in 1 .. Len(acc) : reg[acc[p]] = p \/ p \in rem
  /\ \A c \in Conns : clients[c].at # "free" => c[1] \in 1 .. Len(acc)
  /\ \A t \in Tasks : tasks[t].pool # None => tasks[t].pool \in 1 .. Len(acc)

(* A pool has one client at most.                                          *)
Single(clients) ==
  \A c, d \in Conns :
    c[1] = d[1] /\ clients[c].at # "free" /\ clients[d].at # "free" => c = d

(* A client that is taken is one task's, and the other way round.          *)
Held(tasks, clients) ==
  /\ \A t \in Tasks : tasks[t].conn # None
                        => /\ clients[tasks[t].conn].at = "taken"
                           /\ tasks[t].conn[1] = tasks[t].pool
  /\ \A t, u \in Tasks : tasks[t].conn # None /\ tasks[t].conn = tasks[u].conn => t = u
  /\ \A c \in Conns : clients[c].at = "taken" => \E t \in Tasks : tasks[t].conn = c

(* While no call on it was given up, a client has at most the command of   *)
(* the call in progress or its reply, and a holder's last reply is its own.*)
(* Until the login, nothing has been given up.                             *)
Pending(client) == client.unanswered + Len(client.unread)
InStep(tasks, clients) ==
  /\ \A c \in Conns : /\ clients[c].dead => clients[c].unanswered = 0
                      /\ clients[c].at # "taken" /\ ~clients[c].abandoned
                           => Pending(clients[c]) = 0
                      /\ clients[c].at \in {"connecting", "greeted"}
                           => ~clients[c].dead /\ ~clients[c].abandoned
  /\ \A t \in Tasks : tasks[t].conn # None /\ ~clients[tasks[t].conn].abandoned
                        => /\ ~tasks[t].late
                           /\ Pending(clients[tasks[t].conn])
                                <= IF tasks[t].at = "holding" THEN 0 ELSE 1
  /\ \A t \in Tasks : tasks[t].late => tasks[t].at \in {"holding", "calling"}

Good(acc, reg, tasks, clients, rem) ==
  /\ Typed(acc, reg, tasks, clients, rem)
  /\ Registered(acc, reg, tasks, clients, rem)
  /\ Single(clients)
  /\ Held(tasks, clients)
  /\ InStep(tasks, clients)

(* The inductive invariant.                                                *)
IInv == Good(account, registry, task, conn, removed)

-----------------------------------------------------------------------------
LEMMA ConstantFacts ==
  /\ None \notin Tasks /\ None \notin Keys /\ None \notin Pools /\ None \notin Conns
  /\ MaxPools \in Nat /\ MaxQueued \in Nat
  /\ \A c \in Conns : c[1] \in Pools /\ c[2] \in 1 .. 2 /\ c = <<c[1], c[2]>>
  /\ Free \in Client
  /\ Outside \in Actor
<1>1. Conns \subseteq Nat \X Nat /\ Pools \subseteq Nat
  BY BoundsAreNat DEF Conns, Pools, MaxSize
<1>2. \A c \in Conns : c[1] \in Pools /\ c[2] \in 1 .. 2 /\ c = <<c[1], c[2]>>
  BY DEF Conns, MaxSize
<1>3. Free \in Client
  BY BoundsAreNat DEF Free, Client
<1>4. Outside \in Actor
  BY DEF Outside, Actor
<1> QED BY <1>1, <1>2, <1>3, <1>4, BoundsAreNat, NoneIsNone

(* Dropping the idle clients of a pool nobody refers to keeps all good.    *)
LEMMA KeptIsGood ==
  ASSUME NEW acc, NEW reg, NEW tasks, NEW clients, NEW rem,
         Good(acc, reg, tasks, clients, rem)
  PROVE  Good(acc, reg, tasks, Kept(reg, tasks, clients), rem)
<1> DEFINE kept == Kept(reg, tasks, clients)
<1>1. /\ Typed(acc, reg, tasks, clients, rem) /\ Registered(acc, reg, tasks, clients, rem)
      /\ Single(clients) /\ Held(tasks, clients) /\ InStep(tasks, clients)
  BY DEF Good
<1>2. \A c \in Conns : kept[c] = clients[c] \/ (kept[c] = Free /\ clients[c].at = "idle")
  BY DEF Kept
<1>3. kept \in [Conns -> Client]
  BY <1>1, ConstantFacts DEF Kept, Typed
<1>4. \A t \in Tasks : tasks[t].conn # None => tasks[t].conn \in Conns
  BY <1>1 DEF Typed, Actor
<1>5. Free.at = "free" /\ Free.dead = FALSE /\ Pending(Free) = 0
  BY DEF Free, Pending
<1> HIDE DEF kept
<1>6. Typed(acc, reg, tasks, kept, rem)
  BY <1>1, <1>3 DEF Typed
<1>7. Registered(acc, reg, tasks, kept, rem)
  BY <1>1, <1>2, <1>5 DEF Registered
<1>8. Single(kept)
  BY <1>1, <1>2, <1>5 DEF Single
<1>9. Held(tasks, kept)
  BY <1>1, <1>2, <1>4, <1>5 DEF Held
<1>10. InStep(tasks, kept)
  <2>1. ASSUME NEW c \in Conns
        PROVE  /\ kept[c].dead => kept[c].unanswered = 0
               /\ kept[c].at # "taken" /\ ~kept[c].abandoned => Pending(kept[c]) = 0
               /\ kept[c].at \in {"connecting", "greeted"}
                    => ~kept[c].dead /\ ~kept[c].abandoned
    BY <1>1, <1>2, <1>5 DEF InStep
  <2>2. \A t \in Tasks : tasks[t].conn # None => kept[tasks[t].conn] = clients[tasks[t].conn]
    BY <1>1, <1>2, <1>4 DEF Held
  <2> QED BY <1>1, <2>1, <2>2 DEF InStep
<1> QED BY <1>6, <1>7, <1>8, <1>9, <1>10 DEF Good, kept

(* A step to good accounts, registry, tasks and clients keeps IInv.        *)
LEMMA BecomeIsGood ==
  ASSUME NEW reg, NEW tasks, NEW clients, Become(reg, tasks, clients),
         Good(account', reg, tasks, clients, removed')
  PROVE  IInv'
<1>1. Good(account', reg, tasks, Kept(reg, tasks, clients), removed')
  BY KeptIsGood
<1>2. registry' = reg /\ task' = tasks /\ conn' = Kept(reg, tasks, clients)
  BY DEF Become, Kept
<1> QED BY <1>1, <1>2 DEF IInv

-----------------------------------------------------------------------------
(***************************************************************************)
(* The three kinds of steps: of a client, of a task that has none, of a    *)
(* task with its client.                                                   *)
(***************************************************************************)

LEMMA PendingIsNat ==
  ASSUME NEW x \in Client
  PROVE  /\ x.unanswered \in 0 .. MaxQueued /\ x.unread \in Seq({"ok", "err"})
         /\ x.unanswered \in Nat /\ Len(x.unread) \in Nat /\ Pending(x) \in Nat
<1>1. x.unanswered \in 0 .. MaxQueued /\ x.unread \in Seq({"ok", "err"})
  BY DEF Client
<1>2. x.unanswered \in Nat
  BY <1>1, ConstantFacts
<1>3. Len(x.unread) \in Nat
  BY <1>1, LenProperties
<1> QED BY <1>1, <1>2, <1>3 DEF Pending

(* A client that may be where it is: its pool was made, and has no other.  *)
Placed(c, x) ==
  x.at # "free" => /\ c[1] \in 1 .. Len(account)
                   /\ \A d \in Conns : d[1] = c[1] /\ conn[d].at # "free" => d = c

(* A task by itself.                                                       *)
Sound(a) ==
  /\ a.at = "out" <=> a.pool = None
  /\ a.at \in {"out", "waiting"} <=> a.conn = None
  /\ a.pool # None => a.pool \in 1 .. Len(account)
  /\ a.late => a.at \in {"holding", "calling"}

(* A client by itself.                                                     *)
Settled(x) ==
  /\ x.dead => x.unanswered = 0
  /\ x.at # "taken" /\ ~x.abandoned => Pending(x) = 0
  /\ x.at \in {"connecting", "greeted"} => ~x.dead /\ ~x.abandoned

LEMMA ClientStep ==
  ASSUME IInv, NEW c \in Conns, NEW x \in Client,
         Placed(c, x), Settled(x), x.at = "taken" <=> conn[c].at = "taken",
         x.at = "taken" /\ ~x.abandoned
           => ~conn[c].abandoned /\ Pending(x) <= Pending(conn[c])
  PROVE  Good(account, registry, task, [conn EXCEPT ![c] = x], removed)
<1> DEFINE cs == [conn EXCEPT ![c] = x]
<1>1. /\ Typed(account, registry, task, conn, removed)
      /\ Registered(account, registry, task, conn, removed)
      /\ Single(conn) /\ Held(task, conn) /\ InStep(task, conn)
  BY DEF IInv, Good
<1>2. cs \in [Conns -> Client] /\ cs[c] = x /\ \A d \in Conns : d # c => cs[d] = conn[d]
  BY <1>1 DEF Typed
<1>3. \A t \in Tasks : task[t].conn # None => task[t].conn \in Conns
  BY <1>1 DEF Typed, Actor
<1> HIDE DEF cs
<1>4. Typed(account, registry, task, cs, removed)
  BY <1>1, <1>2 DEF Typed
<1>5. Registered(account, registry, task, cs, removed)
  BY <1>1, <1>2 DEF Registered, Placed
<1>6. Single(cs)
  BY <1>1, <1>2 DEF Single, Placed
<1>7. Held(task, cs)
  BY <1>1, <1>2, <1>3 DEF Held
<1>8. InStep(task, cs)
  <2>1. ASSUME NEW t \in Tasks, task[t].conn # None, ~cs[task[t].conn].abandoned
        PROVE  /\ ~task[t].late
               /\ Pending(cs[task[t].conn]) <= IF task[t].at = "holding" THEN 0 ELSE 1
    <3>1. CASE task[t].conn # c
      BY <1>1, <1>2, <1>3, <2>1, <3>1 DEF InStep
    <3>2. CASE task[t].conn = c
      <4>1. conn[c].at = "taken"
        BY <1>1, <2>1, <3>2 DEF Held
      <4>2. ~conn[c].abandoned /\ Pending(x) <= Pending(conn[c])
        BY <1>2, <2>1, <3>2, <4>1
      <4>3. /\ ~task[t].late
            /\ Pending(conn[c]) <= IF task[t].at = "holding" THEN 0 ELSE 1
        BY <1>1, <2>1, <3>2, <4>2 DEF InStep
      <4>4. Pending(x) \in Nat /\ Pending(conn[c]) \in Nat
        BY <1>1, PendingIsNat DEF Typed
      <4> QED BY <1>2, <3>2, <4>2, <4>3, <4>4
    <3> QED BY <3>1, <3>2
  <2> QED BY <1>1, <1>2, <2>1 DEF InStep, Settled
<1> QED BY <1>4, <1>5, <1>6, <1>7, <1>8 DEF Good, cs

LEMMA TaskStep ==
  ASSUME IInv, NEW t \in Tasks, NEW a \in Actor,
         Sound(a), task[t].conn = None, a.conn = None
  PROVE  Good(account, registry, [task EXCEPT ![t] = a], conn, removed)
<1> DEFINE ts == [task EXCEPT ![t] = a]
<1>1. /\ Typed(account, registry, task, conn, removed)
      /\ Registered(account, registry, task, conn, removed)
      /\ Single(conn) /\ Held(task, conn) /\ InStep(task, conn)
  BY DEF IInv, Good
<1>2. ts \in [Tasks -> Actor] /\ ts[t] = a /\ \A u \in Tasks : u # t => ts[u] = task[u]
  BY <1>1 DEF Typed
<1> HIDE DEF ts
<1>3. Typed(account, registry, ts, conn, removed)
  BY <1>1, <1>2 DEF Typed, Sound
<1>4. Registered(account, registry, ts, conn, removed)
  BY <1>1, <1>2 DEF Registered, Sound
<1>5. Held(ts, conn)
  BY <1>1, <1>2, ConstantFacts DEF Held
<1>6. InStep(ts, conn)
  BY <1>1, <1>2 DEF InStep, Sound
<1> QED BY <1>1, <1>3, <1>4, <1>5, <1>6 DEF Good, ts

LEMMA BothStep ==
  ASSUME IInv, NEW t \in Tasks, NEW a \in Actor, NEW c \in Conns, NEW x \in Client,
         Sound(a), Placed(c, x), Settled(x),
         task[t].conn \in {None, c}, a.conn \in {None, c},
         conn[c].at = "taken" => task[t].conn = c,
         x.at = "taken" <=> a.conn = c,
         a.conn = c => a.pool = c[1],
         a.conn = c /\ ~x.abandoned
           => ~a.late /\ Pending(x) <= IF a.at = "holding" THEN 0 ELSE 1
  PROVE  Good(account, registry, [task EXCEPT ![t] = a], [conn EXCEPT ![c] = x], removed)
<1> DEFINE ts == [task EXCEPT ![t] = a]
           cs == [conn EXCEPT ![c] = x]
<1>1. /\ Typed(account, registry, task, conn, removed)
      /\ Registered(account, registry, task, conn, removed)
      /\ Single(conn) /\ Held(task, conn) /\ InStep(task, conn)
  BY DEF IInv, Good
<1>2. ts \in [Tasks -> Actor] /\ ts[t] = a /\ \A u \in Tasks : u # t => ts[u] = task[u]
  BY <1>1 DEF Typed
<1>3. cs \in [Conns -> Client] /\ cs[c] = x /\ \A d \in Conns : d # c => cs[d] = conn[d]
  BY <1>1 DEF Typed
<1>4. \A u \in Tasks : task[u].conn # None => task[u].conn \in Conns
  BY <1>1 DEF Typed, Actor
<1>5. \A u \in Tasks : u # t => task[u].conn # c
  BY <1>1, <1>4, ConstantFacts DEF Held
<1>6. c # None
  BY ConstantFacts
<1> HIDE DEF ts, cs
<1>7. Typed(account, registry, ts, cs, removed)
  BY <1>1, <1>2, <1>3 DEF Typed, Sound
<1>8. Registered(account, registry, ts, cs, removed)
  BY <1>1, <1>2, <1>3 DEF Registered, Sound, Placed
<1>9. Single(cs)
  BY <1>1, <1>3 DEF Single, Placed
<1>10. Held(ts, cs)
  <2>1. ASSUME NEW u \in Tasks, ts[u].conn # None
        PROVE  cs[ts[u].conn].at = "taken" /\ ts[u].conn[1] = ts[u].pool
    BY <1>1, <1>2, <1>3, <1>4, <1>5, <2>1 DEF Held
  <2>2. ASSUME NEW u \in Tasks, NEW v \in Tasks, ts[u].conn # None, ts[u].conn = ts[v].conn
        PROVE  u = v
    BY <1>1, <1>2, <1>5, <2>2 DEF Held
  <2>3. ASSUME NEW d \in Conns, cs[d].at = "taken"
        PROVE  \E u \in Tasks : ts[u].conn = d
    <3>1. CASE d = c
      BY <1>2, <1>3, <2>3, <3>1
    <3>2. CASE d # c
      <4>1. PICK u \in Tasks : task[u].conn = d
        BY <1>1, <1>3, <2>3, <3>2 DEF Held
      <4>2. u # t
        BY <3>2, <4>1, ConstantFacts
      <4> QED BY <1>2, <4>1, <4>2
    <3> QED BY <3>1, <3>2
  <2> QED BY <2>1, <2>2, <2>3 DEF Held
<1>11. InStep(ts, cs)
  <2>1. ASSUME NEW u \in Tasks, ts[u].conn # None, ~cs[ts[u].conn].abandoned
        PROVE  /\ ~ts[u].late
               /\ Pending(cs[ts[u].conn]) <= IF ts[u].at = "holding" THEN 0 ELSE 1
    <3>1. CASE u = t
      BY <1>2, <1>3, <2>1, <3>1
    <3>2. CASE u # t
      BY <1>1, <1>2, <1>3, <1>4, <1>5, <2>1, <3>2 DEF InStep
    <3> QED BY <3>1, <3>2
  <2> QED BY <1>1, <1>2, <1>3, <2>1 DEF InStep, Sound, Settled
<1> QED BY <1>7, <1>8, <1>9, <1>10, <1>11 DEF Good, ts, cs

-----------------------------------------------------------------------------
(* What IInv says of one client and of one task.                           *)
LEMMA ClientFacts ==
  ASSUME IInv, NEW c \in Conns
  PROVE  /\ conn[c] \in Client /\ c \in DOMAIN conn /\ conn \in [Conns -> Client]
         /\ Settled(conn[c])
         /\ conn[c].at # "free" => \A x : Placed(c, x)
<1>1. /\ Typed(account, registry, task, conn, removed) /\ InStep(task, conn)
      /\ Registered(account, registry, task, conn, removed) /\ Single(conn)
  BY DEF IInv, Good
<1> QED BY <1>1 DEF Typed, InStep, Settled, Registered, Single, Placed

LEMMA TaskFacts ==
  ASSUME IInv, NEW t \in Tasks
  PROVE  /\ task[t] \in Actor /\ task \in [Tasks -> Actor] /\ Sound(task[t])
         /\ task[t].pool # None => task[t].pool \in Pools
         /\ task[t].conn # None
              => /\ task[t].conn \in Conns /\ conn[task[t].conn].at = "taken"
                 /\ task[t].conn[1] = task[t].pool
                 /\ ~conn[task[t].conn].abandoned
                      => /\ ~task[t].late
                         /\ Pending(conn[task[t].conn])
                              <= IF task[t].at = "holding" THEN 0 ELSE 1
<1>1. /\ Typed(account, registry, task, conn, removed) /\ InStep(task, conn)
      /\ Registered(account, registry, task, conn, removed) /\ Held(task, conn)
  BY DEF IInv, Good
<1> QED BY <1>1 DEF Typed, InStep, Sound, Registered, Held, Actor

LEMMA TaskTyped ==
  ASSUME IInv
  PROVE  task \in [Tasks -> Actor]
BY DEF IInv, Good, Typed

LEMMA ConnTyped ==
  ASSUME IInv
  PROVE  conn \in [Conns -> Client]
BY DEF IInv, Good, Typed

(* A client to which a command was written, where there was room for one.  *)
LEMMA SendsFacts ==
  ASSUME IInv, NEW c \in Conns, HasRoom(c),
         ~conn[c].abandoned => Pending(conn[c]) = 0,
         NEW x, x = [Sends(c) EXCEPT !.at = "taken"]
  PROVE  /\ x \in Client /\ x.at = "taken" /\ Settled(x)
         /\ ~x.abandoned => Pending(x) <= 1
<1> DEFINE u == IF conn[c].dead THEN conn[c].unanswered ELSE conn[c].unanswered + 1
<1>1. /\ conn[c] \in Client /\ Settled(conn[c])
      /\ conn[c].unanswered \in Nat /\ Len(conn[c].unread) \in Nat
      /\ conn[c].unanswered \in 0 .. MaxQueued
  BY ClientFacts, PendingIsNat
<1>2. u \in 0 .. MaxQueued /\ u \in Nat /\ u <= conn[c].unanswered + 1
  BY <1>1, ConstantFacts DEF HasRoom
<1>3. x = [conn[c] EXCEPT !.unanswered = u, !.at = "taken"]
  BY <1>1 DEF Sends, Client
<1> HIDE DEF u
<1>4. /\ x \in Client /\ x.at = "taken" /\ x.abandoned = conn[c].abandoned
      /\ x.unanswered = u /\ x.unread = conn[c].unread /\ x.dead = conn[c].dead
  BY <1>1, <1>2, <1>3 DEF Client
<1>5. Settled(x)
  BY <1>1, <1>4 DEF Settled, u
<1>6. ~x.abandoned => Pending(x) <= 1
  <2>1. ASSUME ~x.abandoned
        PROVE  conn[c].unanswered + Len(conn[c].unread) = 0
    BY <1>4, <2>1 DEF Pending
  <2> QED BY <1>1, <1>2, <1>4, <2>1 DEF Pending
<1> QED BY <1>4, <1>5, <1>6

(* An action is a step to good tasks and clients.                          *)
LEMMA StepIsGood ==
  ASSUME NEW tasks, NEW clients, Become(registry, tasks, clients),
         Good(account, registry, tasks, clients, removed), UNCHANGED <<account, removed>>
  PROVE  IInv'
<1>1. Good(account', registry, tasks, clients, removed')
  OBVIOUS
<1> QED BY <1>1, BecomeIsGood

-----------------------------------------------------------------------------
(* The actions that change clients only.                                   *)
(* What a login gives to the pool has nothing to come, unless its probe was*)
(* given up.                                                               *)
LEMMA AfterLoginFacts ==
  ASSUME IInv, NEW c \in Conns, conn[c].at \in {"connecting", "greeted"},
         NEW x \in AfterLogin(c)
  PROVE  x \in Client /\ x.at = "idle" /\ Settled(x)
<1> DEFINE new == [conn[c] EXCEPT !.at = "idle"]
<1>1. conn[c] \in Client /\ Settled(conn[c])
  BY ClientFacts
<1>2. /\ new \in Client /\ new.at = "idle" /\ new.dead = conn[c].dead
      /\ new.unanswered = conn[c].unanswered /\ new.unread = conn[c].unread
      /\ new.abandoned = conn[c].abandoned
  BY <1>1 DEF Client
<1>3. ~new.dead /\ ~new.abandoned /\ Pending(new) = 0 /\ new.unanswered = 0
  <2>1. ~new.dead /\ ~new.abandoned /\ Pending(new) = 0
    BY <1>1, <1>2 DEF Settled, Pending
  <2>2. new.unanswered \in Nat /\ Len(new.unread) \in Nat
    BY <1>2, PendingIsNat
  <2>3. new.unanswered + Len(new.unread) = 0
    BY <2>1 DEF Pending
  <2> HIDE DEF new
  <2> QED BY <2>1, <2>2, <2>3
<1>4. \/ x = new
      \/ \E closed \in BOOLEAN : x = [new EXCEPT !.dead = TRUE, !.closed = closed]
      \/ HasRoom(c) /\ x = [new EXCEPT !.unanswered = @ + 1, !.abandoned = TRUE]
  BY DEF AfterLogin
<1> HIDE DEF new
<1>5. CASE x = new
  BY <1>2, <1>3, <1>5 DEF Settled
<1>6. ASSUME NEW closed \in BOOLEAN, x = [new EXCEPT !.dead = TRUE, !.closed = closed]
      PROVE  x \in Client /\ x.at = "idle" /\ Settled(x)
  <2>1. /\ x \in Client /\ x.at = "idle" /\ x.unanswered = new.unanswered
        /\ x.unread = new.unread
    BY <1>2, <1>6 DEF Client
  <2> QED BY <1>3, <2>1 DEF Settled, Pending
<1>7. CASE HasRoom(c) /\ x = [new EXCEPT !.unanswered = @ + 1, !.abandoned = TRUE]
  <2>1. new.unanswered + 1 \in 0 .. MaxQueued
    <3>1. conn[c].unanswered = 0 /\ Len(conn[c].unread) \in Nat
      BY <1>1, <1>2, <1>3, PendingIsNat
    <3> QED BY <1>2, <1>7, <3>1, ConstantFacts DEF HasRoom
  <2>2. /\ x \in Client /\ x.at = "idle" /\ x.dead = new.dead /\ x.abandoned
    BY <1>2, <1>7, <2>1 DEF Client
  <2> QED BY <1>3, <2>2 DEF Settled
<1> QED BY <1>4, <1>5, <1>6, <1>7

LEMMA ConnectedGood ==
  ASSUME IInv, NEW c \in Conns, Connected(c)
  PROVE  IInv'
<1>1. PICK x \in IF c[1] \in SelfLogin THEN AfterLogin(c)
                ELSE {[conn[c] EXCEPT !.at = "greeted"]} :
        Become(registry, task, [conn EXCEPT ![c] = x])
  BY DEF Connected
<1>2. conn[c].at = "connecting" /\ UNCHANGED <<account, removed>>
  BY DEF Connected
<1>3. x \in Client /\ Settled(x) /\ x.at # "taken"
  <2>1. CASE x = [conn[c] EXCEPT !.at = "greeted"]
    BY <1>2, <2>1, ClientFacts DEF Client, Settled, Pending
  <2>2. CASE x \in AfterLogin(c)
    BY <1>2, <2>2, AfterLoginFacts
  <2> QED BY <2>1, <2>2
<1>4. Placed(c, x)
  BY <1>2, ClientFacts
<1> QED BY <1>1, <1>2, <1>3, <1>4, ClientStep, StepIsGood

LEMMA LoggedInGood ==
  ASSUME IInv, NEW c \in Conns, LoggedIn(c)
  PROVE  IInv'
<1>1. PICK x \in AfterLogin(c) : Become(registry, task, [conn EXCEPT ![c] = x])
  BY DEF LoggedIn
<1>2. conn[c].at = "greeted" /\ UNCHANGED <<account, removed>>
  BY DEF LoggedIn
<1>3. x \in Client /\ Settled(x) /\ x.at # "taken"
  BY <1>2, AfterLoginFacts
<1>4. Placed(c, x)
  BY <1>2, ClientFacts
<1> QED BY <1>1, <1>2, <1>3, <1>4, ClientStep, StepIsGood

(* A free place needs nothing.                                             *)
LEMMA FreeFacts ==
  /\ Free \in Client /\ Settled(Free) /\ Free.at = "free"
  /\ \A c : Placed(c, Free)
BY ConstantFacts DEF Free, Settled, Placed, Pending

LEMMA ReapGood ==
  ASSUME IInv, NEW c \in Conns, Reap(c)
  PROVE  IInv'
<1>1. conn[c].at = "idle" /\ UNCHANGED <<account, removed>>
      /\ Become(registry, task, [conn EXCEPT ![c] = Free])
  BY DEF Reap
<1> QED BY <1>1, FreeFacts, ClientStep, StepIsGood

LEMMA AnswerGood ==
  ASSUME IInv, NEW c \in Conns, Answer(c)
  PROVE  IInv'
<1>1. PICK kind \in {"ok", "err"} :
        /\ conn[c].unanswered > 0 /\ UNCHANGED <<account, removed>>
        /\ Become(registry, task,
                  [conn EXCEPT ![c].unanswered = @ - 1, ![c].unread = Append(@, kind)])
  BY DEF Answer
<1> DEFINE x == [conn[c] EXCEPT !.unanswered = @ - 1, !.unread = Append(@, kind)]
<1>2. [conn EXCEPT ![c].unanswered = @ - 1, ![c].unread = Append(@, kind)]
        = [conn EXCEPT ![c] = x]
  BY ClientFacts
<1>3. conn[c].unanswered - 1 \in 0 .. MaxQueued /\ Append(conn[c].unread, kind) \in Seq({"ok", "err"})
      /\ Len(Append(conn[c].unread, kind)) = Len(conn[c].unread) + 1
  BY <1>1, ClientFacts, PendingIsNat, ConstantFacts, AppendProperties
<1>4. x \in Client /\ x.at = conn[c].at /\ x.abandoned = conn[c].abandoned /\ x.dead = conn[c].dead
      /\ x.unanswered = conn[c].unanswered - 1 /\ Len(x.unread) = Len(conn[c].unread) + 1
  BY <1>3, ClientFacts DEF Client
<1> HIDE DEF x
<1>5. Pending(x) = Pending(conn[c])
  <2>1. conn[c].unanswered \in Nat /\ Len(conn[c].unread) \in Nat
    BY ClientFacts, PendingIsNat
  <2> QED BY <1>4, <2>1 DEF Pending
<1>6. Settled(x) /\ (x.at = "taken" <=> conn[c].at = "taken") /\ Pending(x) <= Pending(conn[c])
  BY <1>1, <1>4, <1>5, ClientFacts, PendingIsNat DEF Settled
<1>7. Placed(c, x)
  <2>1. CASE conn[c].at = "free"
    BY <1>4, <2>1 DEF Placed
  <2>2. CASE conn[c].at # "free"
    BY <2>2, ClientFacts
  <2> QED BY <2>1, <2>2
<1>8. Good(account, registry, task, [conn EXCEPT ![c] = x], removed)
  BY <1>4, <1>6, <1>7, ClientStep
<1> QED BY <1>1, <1>2, <1>8, StepIsGood

LEMMA EndSessionGood ==
  ASSUME IInv, NEW c \in Conns, EndSession(c)
  PROVE  IInv'
<1>1. PICK n \in 0 .. Len(conn[c].unread) :
        /\ conn[c].at \in {"idle", "taken"} /\ UNCHANGED <<account, removed>>
        /\ Become(registry, task,
                  [conn EXCEPT ![c].dead = TRUE, ![c].unanswered = 0,
                               ![c].unread = SubSeq(@, 1, n)])
  BY DEF EndSession
<1> DEFINE x == [conn[c] EXCEPT !.dead = TRUE, !.unanswered = 0, !.unread = SubSeq(@, 1, n)]
<1>2. [conn EXCEPT ![c].dead = TRUE, ![c].unanswered = 0, ![c].unread = SubSeq(@, 1, n)]
        = [conn EXCEPT ![c] = x]
  BY ClientFacts
<1>3. /\ SubSeq(conn[c].unread, 1, n) \in Seq({"ok", "err"})
      /\ Len(SubSeq(conn[c].unread, 1, n)) = n /\ n \in Nat /\ n <= Len(conn[c].unread)
  <2>1. conn[c].unread \in Seq({"ok", "err"}) /\ Len(conn[c].unread) \in Nat
    BY ClientFacts, PendingIsNat
  <2> QED BY <2>1, SubSeqProperties
<1>4. x \in Client /\ x.at = conn[c].at /\ x.abandoned = conn[c].abandoned
      /\ x.unanswered = 0 /\ Len(x.unread) = n
  <2>1. conn[c] \in Client /\ 0 \in 0 .. MaxQueued
    BY ClientFacts, ConstantFacts
  <2> QED BY <1>3, <2>1 DEF Client
<1> HIDE DEF x
<1>5. Pending(x) \in Nat /\ Pending(x) <= Pending(conn[c])
  BY <1>3, <1>4, ClientFacts, PendingIsNat DEF Pending
<1>6. Settled(x) /\ (x.at = "taken" <=> conn[c].at = "taken")
  BY <1>1, <1>4, <1>5, ClientFacts, PendingIsNat DEF Settled
<1>7. Placed(c, x)
  BY <1>1, ClientFacts
<1>8. Good(account, registry, task, [conn EXCEPT ![c] = x], removed)
  BY <1>4, <1>5, <1>6, <1>7, ClientStep
<1> QED BY <1>1, <1>2, <1>8, StepIsGood

-----------------------------------------------------------------------------
(* The actions that change the registry.                                   *)
LEMMA AddAccountGood ==
  ASSUME IInv, NEW k \in Keys, AddAccount(k)
  PROVE  IInv'
<1> DEFINE reg == [registry EXCEPT ![k] = Len(account) + 1]
<1>1. /\ registry[k] = None /\ Len(account) < MaxPools /\ account' = Append(account, k)
      /\ Become(reg, task, conn) /\ removed' = removed
  BY DEF AddAccount
<1>2. /\ Typed(account, registry, task, conn, removed)
      /\ Registered(account, registry, task, conn, removed)
      /\ Single(conn) /\ Held(task, conn) /\ InStep(task, conn)
  BY DEF IInv, Good
<1>3. account \in Seq(Keys) /\ Len(account) \in Nat /\ MaxPools \in Nat /\ Pools = 1 .. MaxPools
  BY <1>2, ConstantFacts, LenProperties DEF Typed, Pools
<1>4. /\ account' \in Seq(Keys) /\ Len(account') = Len(account) + 1
      /\ \A p \in 1 .. Len(account) : account'[p] = account[p]
      /\ account'[Len(account) + 1] = k
  BY <1>1, <1>3, AppendProperties
<1>5. /\ reg \in [Keys -> Pools \cup {None}] /\ reg[k] = Len(account) + 1
      /\ \A j \in Keys : j # k => reg[j] = registry[j]
  BY <1>1, <1>2, <1>3 DEF Typed
<1>6. \A p \in 1 .. Len(account) : account[p] \in Keys
  BY <1>3
<1> HIDE DEF reg
<1>7. Typed(account', reg, task, conn, removed')
  BY <1>1, <1>2, <1>3, <1>4, <1>5 DEF Typed
<1>8. Registered(account', reg, task, conn, removed')
  <2>1. ASSUME NEW j \in Keys, reg[j] # None
        PROVE  reg[j] \in 1 .. Len(account') /\ account'[reg[j]] = j
    <3>1. CASE j = k
      BY <1>3, <1>4, <1>5, <3>1
    <3>2. CASE j # k
      <4>1. registry[j] \in 1 .. Len(account) /\ account[registry[j]] = j
        BY <1>2, <1>5, <2>1, <3>2 DEF Registered
      <4> QED BY <1>3, <1>4, <1>5, <3>2, <4>1
    <3> QED BY <3>1, <3>2
  <2>2. ASSUME NEW p \in 1 .. Len(account')
        PROVE  reg[account'[p]] = p \/ p \in removed'
    <3>1. CASE p = Len(account) + 1
      BY <1>4, <1>5, <3>1
    <3>2. CASE p # Len(account) + 1
      <4>1. p \in 1 .. Len(account)
        BY <1>3, <1>4, <3>2
      <4>2. registry[account[p]] = p \/ p \in removed
        BY <1>2, <4>1 DEF Registered
      <4>3. registry[account[p]] = p => account[p] # k
        BY <1>1, <1>3, <4>1, ConstantFacts, NoneIsNone
      <4> QED BY <1>1, <1>4, <1>5, <1>6, <4>1, <4>2, <4>3
    <3> QED BY <3>1, <3>2
  <2>3. 1 .. Len(account) \subseteq 1 .. Len(account')
    BY <1>3, <1>4
  <2> QED BY <1>2, <2>1, <2>2, <2>3 DEF Registered
<1>9. Good(account', reg, task, conn, removed')
  BY <1>2, <1>7, <1>8 DEF Good
<1> QED BY <1>1, <1>9, BecomeIsGood

LEMMA RemoveAccountGood ==
  ASSUME IInv, NEW k \in Keys, RemoveAccount(k)
  PROVE  IInv'
<1> DEFINE reg == [registry EXCEPT ![k] = None]
<1>1. /\ registry[k] # None /\ removed' = removed \cup {registry[k]}
      /\ Become(reg, task, conn) /\ account' = account
  BY DEF RemoveAccount
<1>2. /\ Typed(account, registry, task, conn, removed)
      /\ Registered(account, registry, task, conn, removed)
      /\ Single(conn) /\ Held(task, conn) /\ InStep(task, conn)
  BY DEF IInv, Good
<1>3. /\ reg \in [Keys -> Pools \cup {None}] /\ reg[k] = None
      /\ \A j \in Keys : j # k => reg[j] = registry[j]
  BY <1>2 DEF Typed
<1>4. \A p \in 1 .. Len(account) : account[p] \in Keys
  BY <1>2 DEF Typed
<1> HIDE DEF reg
<1>5. Typed(account', reg, task, conn, removed')
  BY <1>1, <1>2, <1>3 DEF Typed
<1>6. Registered(account', reg, task, conn, removed')
  BY <1>1, <1>2, <1>3, <1>4 DEF Registered
<1>7. Good(account', reg, task, conn, removed')
  BY <1>2, <1>5, <1>6 DEF Good
<1> QED BY <1>1, <1>7, BecomeIsGood

-----------------------------------------------------------------------------
(* The actions of a task that has no client.                               *)
LEMMA CheckoutGood ==
  ASSUME IInv, NEW t \in Tasks, NEW k \in Keys, Checkout(t, k)
  PROVE  IInv'
<1> DEFINE a == IF registry[k] = None THEN Outside
                ELSE [task[t] EXCEPT !.at = "waiting", !.pool = registry[k]]
<1>1. /\ task[t].at = "out" /\ UNCHANGED <<account, removed>>
      /\ Become(registry, [task EXCEPT ![t] = a], conn)
  BY DEF Checkout
<1>2. registry[k] # None => registry[k] \in Pools /\ registry[k] \in 1 .. Len(account)
  BY DEF IInv, Good, Typed, Registered
<1>3. a \in Actor /\ Sound(a) /\ a.conn = None /\ task[t].conn = None
  BY <1>1, <1>2, TaskFacts, ConstantFacts DEF Actor, Sound, Outside
<1> HIDE DEF a
<1> QED BY <1>1, <1>3, TaskStep, StepIsGood

-----------------------------------------------------------------------------
(* Making connections.  Only where a pool has none is one begun.           *)
LEMMA MadeIsEmpty ==
  ASSUME NEW p, Cardinality(Made(p)) < MaxSize
  PROVE  Made(p) = {}
<1>1. IsFiniteSet(Conns)
  <2>1. IsFiniteSet(Pools) /\ IsFiniteSet(1 .. MaxSize + 1)
    <3>1. 1 \in Int /\ MaxPools \in Int /\ MaxSize + 1 \in Int
      BY ConstantFacts DEF MaxSize
    <3> QED BY <3>1, FS_Interval DEF Pools
  <2> QED BY <2>1, FS_Product DEF Conns
<1>2. IsFiniteSet(Made(p))
  BY <1>1, FS_Subset DEF Made
<1>3. Cardinality(Made(p)) = 0
  BY <1>2, FS_CardinalityType DEF MaxSize
<1> QED BY <1>2, <1>3, FS_EmptySet

LEMMA StartConnectGood ==
  ASSUME IInv, NEW t \in Tasks, NEW c \in Conns, StartConnect(t, c)
  PROVE  IInv'
<1> DEFINE x == [Free EXCEPT !.at = "connecting"]
<1>1. /\ task[t].at = "waiting" /\ c[1] = task[t].pool /\ conn[c].at = "free"
      /\ Cardinality(Made(task[t].pool)) < MaxSize /\ UNCHANGED <<account, removed>>
      /\ Become(registry, task, [conn EXCEPT ![c] = x])
  BY DEF StartConnect, Vacant
<1>2. \A d \in Conns : d[1] = c[1] => conn[d].at = "free"
  BY <1>1, MadeIsEmpty DEF Made
<1>3. task[t].pool \in 1 .. Len(account)
  BY <1>1, TaskFacts DEF Sound
<1>4. x \in Client /\ Settled(x) /\ x.at = "connecting"
  <2>1. /\ x \in Client /\ x.at = "connecting" /\ x.dead = FALSE /\ x.abandoned = FALSE
        /\ x.unanswered = 0 /\ x.unread = <<>>
    BY ConstantFacts DEF Client, Free
  <2> QED BY <2>1 DEF Settled, Pending
<1>5. Placed(c, x)
  BY <1>1, <1>2, <1>3 DEF Placed
<1> HIDE DEF x
<1> QED BY <1>1, <1>4, <1>5, ClientStep, StepIsGood

LEMMA ConnectFailsGood ==
  ASSUME IInv, NEW c \in Conns, ConnectFails(c)
  PROVE  IInv'
<1> DEFINE waiting == {t \in Tasks : task[t].at = "waiting" /\ task[t].pool = c[1]}
           after(told) == [t \in Tasks |-> IF t \in told THEN Outside ELSE task[t]]
<1>1. PICK told \in {{}} \cup {{t} : t \in waiting} :
        /\ conn[c].at \in {"connecting", "greeted"} /\ UNCHANGED <<account, removed>>
        /\ Become(registry, after(told), [conn EXCEPT ![c] = Free])
  BY DEF ConnectFails
<1>2. CASE told = {}
  <2>1. after(told) = task
    BY <1>2, Zenon, TaskTyped
  <2>2. Good(account, registry, task, [conn EXCEPT ![c] = Free], removed)
    BY <1>1, FreeFacts, ClientStep
  <2> QED BY <1>1, <2>1, <2>2, StepIsGood
<1>3. ASSUME NEW t \in waiting, told = {t}
      PROVE  IInv'
  <2>1. after(told) = [task EXCEPT ![t] = Outside]
    BY <1>3, TaskTyped
  <2>2. Sound(Outside) /\ Outside \in Actor /\ Outside.conn = None
    BY ConstantFacts DEF Outside, Sound
  <2>3. task[t].conn = None
    BY TaskFacts DEF Sound
  <2>4. Good(account, registry, [task EXCEPT ![t] = Outside], [conn EXCEPT ![c] = Free], removed)
    <3>1. Outside.conn # c /\ conn[c].at # "taken"
      BY <1>1, <2>2, ConstantFacts
    <3> QED BY <2>2, <2>3, <3>1, FreeFacts, BothStep
  <2> QED BY <1>1, <2>1, <2>4, StepIsGood
<1> QED BY <1>1, <1>2, <1>3

-----------------------------------------------------------------------------
(* Lending.                                                                *)
LEMMA TakeGood ==
  ASSUME IInv, NEW t \in Tasks, NEW c \in Conns, Take(t, c)
  PROVE  IInv'
<1> DEFINE a == [task[t] EXCEPT !.at = "testing", !.conn = c]
           x == [Sends(c) EXCEPT !.at = "taken"]
<1>1. /\ task[t].at = "waiting" /\ conn[c].at = "idle" /\ c[1] = task[t].pool
      /\ HasRoom(c) /\ UNCHANGED <<account, removed>>
      /\ Become(registry, [task EXCEPT ![t].at = "testing", ![t].conn = c],
                [conn EXCEPT ![c] = x])
  BY DEF Take
<1>2. [task EXCEPT ![t].at = "testing", ![t].conn = c] = [task EXCEPT ![t] = a]
  BY TaskFacts
<1>3. /\ a \in Actor /\ Sound(a) /\ a.conn = c /\ a.pool = c[1] /\ a.at = "testing" /\ ~a.late
      /\ task[t].conn = None
  BY <1>1, TaskFacts, ConstantFacts DEF Actor, Sound
<1>4. /\ x \in Client /\ x.at = "taken" /\ Settled(x)
      /\ ~x.abandoned => Pending(x) <= 1
  <2>1. ~conn[c].abandoned => Pending(conn[c]) = 0
    BY <1>1, ClientFacts DEF Settled
  <2> QED BY <1>1, <2>1, SendsFacts
<1>5. Placed(c, x)
  BY <1>1, ClientFacts
<1> HIDE DEF a, x
<1>6. Good(account, registry, [task EXCEPT ![t] = a], [conn EXCEPT ![c] = x], removed)
  BY <1>1, <1>3, <1>4, <1>5, BothStep
<1> QED BY <1>1, <1>2, <1>6, StepIsGood

(* The client of a task that reads a reply.                                *)
LEMMA ConsumedFacts ==
  ASSUME IInv, NEW t \in Tasks, task[t].conn # None, HasReply(t)
  PROVE  /\ Consumed(t) \in Client /\ Consumed(t).at = "taken" /\ Settled(Consumed(t))
         /\ Consumed(t).abandoned = conn[task[t].conn].abandoned
         /\ ~Consumed(t).abandoned /\ task[t].at # "holding"
              => ~IsLate(t) /\ Pending(Consumed(t)) <= 0
         /\ IsLate(t) \in BOOLEAN
<1> DEFINE c == task[t].conn
           x == Consumed(t)
<1>1. /\ c \in Conns /\ conn[c] \in Client /\ conn[c].at = "taken" /\ Settled(conn[c])
      /\ conn[c].unread \in Seq({"ok", "err"}) /\ conn[c].unread # <<>>
      /\ conn[c].unanswered \in Nat
  BY TaskFacts, ClientFacts, PendingIsNat DEF HasReply
<1>2. /\ Tail(conn[c].unread) \in Seq({"ok", "err"})
      /\ Len(Tail(conn[c].unread)) = Len(conn[c].unread) - 1
      /\ Len(conn[c].unread) \in Nat
  BY <1>1, HeadTailProperties, LenProperties
<1>3. /\ x \in Client /\ x.at = "taken" /\ x.abandoned = conn[c].abandoned
      /\ x.dead = conn[c].dead /\ x.unanswered = conn[c].unanswered
      /\ x.unread = Tail(conn[c].unread)
  BY <1>1, <1>2 DEF Consumed, Client
<1>4. Settled(x)
  BY <1>1, <1>3 DEF Settled
<1>5. ~x.abandoned /\ task[t].at # "holding" => Pending(conn[c]) <= 1
  BY <1>3, TaskFacts
<1>6. ~x.abandoned /\ task[t].at # "holding" => ~IsLate(t) /\ Pending(x) <= 0
  BY <1>1, <1>2, <1>3, <1>5 DEF Pending, IsLate
<1> QED BY <1>3, <1>4, <1>6 DEF IsLate

LEMMA ValidGood ==
  ASSUME IInv, NEW t \in Tasks, Valid(t)
  PROVE  IInv'
<1> DEFINE c == task[t].conn
           a == [task[t] EXCEPT !.at = "holding", !.late = IsLate(t)]
           x == Consumed(t)
<1>1. /\ task[t].at = "testing" /\ HasReply(t) /\ UNCHANGED <<account, removed>>
      /\ Become(registry, [task EXCEPT ![t].at = "holding", ![t].late = IsLate(t)],
                [conn EXCEPT ![c] = x])
  BY DEF Valid
<1>2. [task EXCEPT ![t].at = "holding", ![t].late = IsLate(t)] = [task EXCEPT ![t] = a]
  BY TaskFacts
<1>3. c # None /\ c \in Conns /\ conn[c].at = "taken" /\ c[1] = task[t].pool
  BY <1>1, TaskFacts DEF Sound
<1>4. /\ x \in Client /\ x.at = "taken" /\ Settled(x)
      /\ ~x.abandoned => ~IsLate(t) /\ Pending(x) <= 0
      /\ IsLate(t) \in BOOLEAN
  BY <1>1, <1>3, ConsumedFacts
<1>5. /\ a \in Actor /\ Sound(a) /\ a.conn = c /\ a.pool = c[1]
      /\ a.at = "holding" /\ a.late = IsLate(t)
  BY <1>1, <1>3, <1>4, TaskFacts DEF Actor, Sound
<1>6. Placed(c, x)
  BY <1>3, ClientFacts
<1> HIDE DEF a, x
<1>7. Good(account, registry, [task EXCEPT ![t] = a], [conn EXCEPT ![c] = x], removed)
  BY <1>3, <1>4, <1>5, <1>6, BothStep
<1> QED BY <1>1, <1>2, <1>7, StepIsGood

LEMMA InvalidGood ==
  ASSUME IInv, NEW t \in Tasks, Invalid(t)
  PROVE  IInv'
<1> DEFINE c == task[t].conn
           a == [task[t] EXCEPT !.at = "waiting", !.conn = None]
<1>1. /\ task[t].at = "testing" /\ UNCHANGED <<account, removed>>
      /\ Become(registry, [task EXCEPT ![t].at = "waiting", ![t].conn = None],
                [conn EXCEPT ![c] = Free])
  BY DEF Invalid
<1>2. [task EXCEPT ![t].at = "waiting", ![t].conn = None] = [task EXCEPT ![t] = a]
  BY TaskFacts
<1>3. c # None /\ c \in Conns
  BY <1>1, TaskFacts DEF Sound
<1>4. a \in Actor /\ Sound(a) /\ a.conn = None
  BY <1>1, TaskFacts DEF Actor, Sound
<1> HIDE DEF a
<1>5. Good(account, registry, [task EXCEPT ![t] = a], [conn EXCEPT ![c] = Free], removed)
  BY <1>3, <1>4, FreeFacts, BothStep
<1> QED BY <1>1, <1>2, <1>5, StepIsGood

(* A client that a task lets go goes back to the pool, or is discarded; it *)
(* has nothing to come, or a call on it was given up.                      *)
LEMMA PutBackFacts ==
  ASSUME NEW x \in Client, x.dead => x.unanswered = 0, x.abandoned \/ Pending(x) = 0
  PROVE  PutBack(x) \in Client /\ PutBack(x).at # "taken" /\ Settled(PutBack(x))
<1>1. CASE x.closed
  BY <1>1, FreeFacts DEF PutBack
<1>2. CASE ~x.closed
  <2> DEFINE y == [x EXCEPT !.at = "idle"]
  <2>1. /\ y \in Client /\ y.at = "idle" /\ y.dead = x.dead /\ y.abandoned = x.abandoned
        /\ y.unanswered = x.unanswered /\ y.unread = x.unread
    BY DEF Client
  <2> HIDE DEF y
  <2>2. Settled(y)
    BY <2>1 DEF Settled, Pending
  <2> QED BY <1>2, <2>1, <2>2 DEF PutBack, y
<1> QED BY <1>1, <1>2

LEMMA OutsideFacts ==
  Outside \in Actor /\ Sound(Outside) /\ Outside.conn = None
BY ConstantFacts DEF Outside, Sound

(* A task that lets go of its client and leaves.                           *)
LEMMA LeaveGood ==
  ASSUME IInv, NEW t \in Tasks, task[t].conn # None,
         NEW x \in Client, x.at = "taken", x.dead => x.unanswered = 0,
         x.abandoned \/ Pending(x) = 0
  PROVE  Good(account, registry, [task EXCEPT ![t] = Outside],
              [conn EXCEPT ![task[t].conn] = PutBack(x)], removed)
<1> DEFINE c == task[t].conn
<1>1. c \in Conns /\ conn[c].at = "taken" /\ c # None
  BY TaskFacts
<1>2. Placed(c, PutBack(x))
  BY <1>1, ClientFacts
<1> QED BY <1>1, <1>2, PutBackFacts, OutsideFacts, BothStep

LEMMA CheckoutEndsGood ==
  ASSUME IInv, NEW t \in Tasks, CheckoutEnds(t)
  PROVE  IInv'
<1> DEFINE c == task[t].conn
           x == [conn[c] EXCEPT !.abandoned = TRUE]
<1>1. /\ task[t].at \in {"waiting", "testing"} /\ UNCHANGED <<account, removed>>
      /\ Become(registry, [task EXCEPT ![t] = Outside], GivenUp(t))
  BY DEF CheckoutEnds, InCheckout
<1>2. CASE c = None
  <2>1. GivenUp(t) = conn
    BY <1>2, ConstantFacts, ConnTyped DEF GivenUp
  <2>2. Good(account, registry, [task EXCEPT ![t] = Outside], conn, removed)
    BY <1>2, OutsideFacts, TaskStep
  <2> QED BY <1>1, <2>1, <2>2, StepIsGood
<1>3. CASE c # None
  <2>1. GivenUp(t) = [conn EXCEPT ![c] = PutBack(x)]
    BY <1>3, ConnTyped DEF GivenUp
  <2>2. c \in Conns /\ conn[c].at = "taken" /\ conn[c] \in Client /\ Settled(conn[c])
    BY <1>3, TaskFacts, ClientFacts
  <2>3. x \in Client /\ x.at = "taken" /\ x.abandoned /\ (x.dead => x.unanswered = 0)
    BY <2>2 DEF Client, Settled
  <2> HIDE DEF x
  <2>4. Good(account, registry, [task EXCEPT ![t] = Outside],
             [conn EXCEPT ![c] = PutBack(x)], removed)
    BY <1>3, <2>3, LeaveGood
  <2> QED BY <1>1, <2>1, <2>4, StepIsGood
<1> QED BY <1>2, <1>3

-----------------------------------------------------------------------------
(* The holder of a guard.                                                  *)
LEMMA CallGood ==
  ASSUME IInv, NEW t \in Tasks, Call(t)
  PROVE  IInv'
<1> DEFINE c == task[t].conn
           a == [task[t] EXCEPT !.at = "calling", !.late = FALSE]
           x == [Sends(c) EXCEPT !.at = "taken"]
<1>1. /\ task[t].at = "holding" /\ HasRoom(c) /\ UNCHANGED <<account, removed>>
      /\ Become(registry, [task EXCEPT ![t].at = "calling", ![t].late = FALSE],
                [conn EXCEPT ![c] = Sends(c)])
  BY DEF Call
<1>2. [task EXCEPT ![t].at = "calling", ![t].late = FALSE] = [task EXCEPT ![t] = a]
  BY TaskFacts
<1>3. /\ c # None /\ c \in Conns /\ conn[c].at = "taken" /\ c[1] = task[t].pool
      /\ conn[c] \in Client
      /\ ~conn[c].abandoned => Pending(conn[c]) <= 0
  BY <1>1, TaskFacts, ClientFacts DEF Sound
<1>4. Sends(c) = x
  BY <1>3 DEF Sends, Client
<1>5. x \in Client /\ x.at = "taken" /\ Settled(x) /\ (~x.abandoned => Pending(x) <= 1)
  <2>1. Pending(conn[c]) \in Nat
    BY <1>3, PendingIsNat
  <2>2. ~conn[c].abandoned => Pending(conn[c]) = 0
    BY <1>3, <2>1
  <2> QED BY <1>1, <1>3, <2>2, SendsFacts
<1>6. /\ a \in Actor /\ Sound(a) /\ a.conn = c /\ a.pool = c[1]
      /\ a.at = "calling" /\ ~a.late
  <2>1. task[t] \in Actor /\ Sound(task[t])
    BY TaskFacts
  <2>2. /\ a \in Actor /\ a.at = "calling" /\ a.late = FALSE
        /\ a.conn = c /\ a.pool = task[t].pool
    BY <2>1 DEF Actor
  <2> QED BY <1>1, <1>3, <2>1, <2>2 DEF Sound
<1>7. Placed(c, x)
  BY <1>3, ClientFacts
<1> HIDE DEF a, x
<1>8. Good(account, registry, [task EXCEPT ![t] = a], [conn EXCEPT ![c] = x], removed)
  BY <1>3, <1>5, <1>6, <1>7, BothStep
<1> QED BY <1>1, <1>2, <1>4, <1>8, StepIsGood

LEMMA AnsweredGood ==
  ASSUME IInv, NEW t \in Tasks, Answered(t)
  PROVE  IInv'
<1> DEFINE c == task[t].conn
           a == [task[t] EXCEPT !.at = "holding", !.late = IsLate(t)]
           x == Consumed(t)
<1>1. /\ task[t].at = "calling" /\ HasReply(t) /\ UNCHANGED <<account, removed>>
      /\ Become(registry, [task EXCEPT ![t].at = "holding", ![t].late = IsLate(t)],
                [conn EXCEPT ![c] = x])
  BY DEF Answered
<1>2. [task EXCEPT ![t].at = "holding", ![t].late = IsLate(t)] = [task EXCEPT ![t] = a]
  BY TaskFacts
<1>3. c # None /\ c \in Conns /\ conn[c].at = "taken" /\ c[1] = task[t].pool
  BY <1>1, TaskFacts DEF Sound
<1>4. /\ x \in Client /\ x.at = "taken" /\ Settled(x)
      /\ ~x.abandoned => ~IsLate(t) /\ Pending(x) <= 0
      /\ IsLate(t) \in BOOLEAN
  BY <1>1, <1>3, ConsumedFacts
<1>5. /\ a \in Actor /\ Sound(a) /\ a.conn = c /\ a.pool = c[1]
      /\ a.at = "holding" /\ a.late = IsLate(t)
  BY <1>1, <1>3, <1>4, TaskFacts DEF Actor, Sound
<1>6. Placed(c, x)
  BY <1>3, ClientFacts
<1> HIDE DEF a, x
<1>7. Good(account, registry, [task EXCEPT ![t] = a], [conn EXCEPT ![c] = x], removed)
  BY <1>3, <1>4, <1>5, <1>6, BothStep
<1> QED BY <1>1, <1>2, <1>7, StepIsGood

(* A call that ends without a reply: the connection has ended, and then    *)
(* nothing is to come, or the call was given up.                           *)
LEMMA EndedCallGood ==
  ASSUME IInv, NEW t \in Tasks, task[t].at = "calling", UNCHANGED <<account, removed>>,
         NEW x \in Client, x.at = "taken", x.dead => x.unanswered = 0,
         x.abandoned \/ (~conn[task[t].conn].abandoned /\ Pending(x) = 0),
         Become(registry, [task EXCEPT ![t].at = "holding"], [conn EXCEPT ![task[t].conn] = x])
  PROVE  IInv'
<1> DEFINE c == task[t].conn
           a == [task[t] EXCEPT !.at = "holding"]
<1>1. [task EXCEPT ![t].at = "holding"] = [task EXCEPT ![t] = a]
  BY TaskFacts
<1>2. /\ c # None /\ c \in Conns /\ conn[c].at = "taken" /\ c[1] = task[t].pool
      /\ ~conn[c].abandoned => ~task[t].late
  BY TaskFacts DEF Sound
<1>3. /\ a \in Actor /\ Sound(a) /\ a.conn = c /\ a.pool = c[1]
      /\ a.at = "holding" /\ a.late = task[t].late
  BY <1>2, TaskFacts DEF Actor, Sound
<1>4. Placed(c, x) /\ Settled(x)
  BY <1>2, ClientFacts DEF Settled
<1> HIDE DEF a
<1>5. ~x.abandoned => ~a.late /\ Pending(x) <= IF a.at = "holding" THEN 0 ELSE 1
  BY <1>2, <1>3
<1>6. Good(account, registry, [task EXCEPT ![t] = a], [conn EXCEPT ![c] = x], removed)
  BY <1>2, <1>3, <1>4, <1>5, BothStep
<1> QED BY <1>1, <1>6, StepIsGood

LEMMA CallBreaksGood ==
  ASSUME IInv, NEW t \in Tasks, CallBreaks(t)
  PROVE  IInv'
<1> DEFINE c == task[t].conn
<1>1. PICK closed \in BOOLEAN :
        /\ task[t].at = "calling" /\ conn[c].unread = <<>> /\ conn[c].dead
        /\ UNCHANGED <<account, removed>>
        /\ Become(registry, [task EXCEPT ![t].at = "holding"],
                  [conn EXCEPT ![c].closed = @ \/ closed])
  BY DEF CallBreaks, HasReply
<1> DEFINE x == [conn[c] EXCEPT !.closed = @ \/ closed]
<1>2. c \in Conns /\ conn[c].at = "taken" /\ conn[c] \in Client /\ Settled(conn[c])
  BY <1>1, TaskFacts, ClientFacts DEF Sound
<1>3. [conn EXCEPT ![c].closed = @ \/ closed] = [conn EXCEPT ![c] = x]
  BY ConnTyped
<1>4. /\ x \in Client /\ x.at = "taken" /\ x.abandoned = conn[c].abandoned /\ x.dead = conn[c].dead
      /\ x.unanswered = conn[c].unanswered /\ x.unread = conn[c].unread
  <2>1. (conn[c].closed \/ closed) \in BOOLEAN
    OBVIOUS
  <2> QED BY <1>2, <2>1 DEF Client
<1>5. Pending(x) = 0 /\ x.unanswered = 0
  BY <1>1, <1>2, <1>4 DEF Settled, Pending
<1>6. x.abandoned \/ (~conn[c].abandoned /\ Pending(x) = 0)
  BY <1>4, <1>5
<1> HIDE DEF x
<1> QED BY <1>1, <1>3, <1>4, <1>5, <1>6, EndedCallGood

LEMMA CallGivenUpGood ==
  ASSUME IInv, NEW t \in Tasks, CallGivenUp(t)
  PROVE  IInv'
<1> DEFINE c == task[t].conn
           x == [conn[c] EXCEPT !.abandoned = TRUE]
<1>1. /\ task[t].at = "calling" /\ UNCHANGED <<account, removed>>
      /\ Become(registry, [task EXCEPT ![t].at = "holding"],
                [conn EXCEPT ![c].abandoned = TRUE])
  BY DEF CallGivenUp
<1>2. c \in Conns /\ conn[c].at = "taken" /\ conn[c] \in Client /\ Settled(conn[c])
  BY <1>1, TaskFacts, ClientFacts DEF Sound
<1>3. [conn EXCEPT ![c].abandoned = TRUE] = [conn EXCEPT ![c] = x]
  BY ConnTyped
<1>4. x \in Client /\ x.at = "taken" /\ x.abandoned /\ (x.dead => x.unanswered = 0)
  BY <1>2 DEF Client, Settled
<1> HIDE DEF x
<1> QED BY <1>1, <1>3, <1>4, EndedCallGood

LEMMA DropGuardGood ==
  ASSUME IInv, NEW t \in Tasks, DropGuard(t)
  PROVE  IInv'
<1> DEFINE c == task[t].conn
<1>1. /\ task[t].at = "holding" /\ UNCHANGED <<account, removed>>
      /\ Become(registry, [task EXCEPT ![t] = Outside], [conn EXCEPT ![c] = PutBack(conn[c])])
  BY ConnTyped DEF DropGuard
<1>2. /\ c # None /\ conn[c] \in Client /\ conn[c].at = "taken" /\ Settled(conn[c])
      /\ ~conn[c].abandoned => Pending(conn[c]) <= 0
  BY <1>1, TaskFacts, ClientFacts DEF Sound
<1>3. conn[c].abandoned \/ Pending(conn[c]) = 0
  BY <1>2, PendingIsNat
<1>4. Good(account, registry, [task EXCEPT ![t] = Outside],
           [conn EXCEPT ![c] = PutBack(conn[c])], removed)
  BY <1>2, <1>3, LeaveGood DEF Settled
<1> QED BY <1>1, <1>4, StepIsGood

-----------------------------------------------------------------------------
(* IInv is inductive.                                                      *)
LEMMA InitGood == Init => IInv
<1> SUFFICES ASSUME Init
             PROVE  IInv
  OBVIOUS
<1>1. Typed(account, registry, task, conn, removed)
  BY ConstantFacts DEF Init, Typed, Outside
<1>2. Registered(account, registry, task, conn, removed)
  BY DEF Init, Registered, Free, Outside
<1>3. Single(conn) /\ Held(task, conn)
  BY DEF Init, Single, Held, Free, Outside
<1>4. InStep(task, conn)
  BY DEF Init, InStep, Free, Outside, Pending
<1> QED BY <1>1, <1>2, <1>3, <1>4 DEF IInv, Good

LEMMA StepGood == IInv /\ [Next]_vars => IInv'
<1> SUFFICES ASSUME IInv, [Next]_vars
             PROVE  IInv'
  OBVIOUS
<1>1. ASSUME NEW k \in Keys, AddAccount(k) \/ RemoveAccount(k)
      PROVE  IInv'
  BY <1>1, AddAccountGood, RemoveAccountGood
<1>2. ASSUME NEW t \in Tasks, NEW k \in Keys, Checkout(t, k)
      PROVE  IInv'
  BY <1>2, CheckoutGood
<1>3. ASSUME NEW t \in Tasks, NEW c \in Conns, StartConnect(t, c) \/ Take(t, c)
      PROVE  IInv'
  BY <1>3, StartConnectGood, TakeGood
<1>4. ASSUME NEW t \in Tasks, Valid(t) \/ Invalid(t) \/ CheckoutEnds(t)
      PROVE  IInv'
  BY <1>4, ValidGood, InvalidGood, CheckoutEndsGood
<1>5. ASSUME NEW t \in Tasks, Call(t) \/ CallEnds(t) \/ DropGuard(t)
      PROVE  IInv'
  BY <1>5, CallGood, AnsweredGood, CallBreaksGood, CallGivenUpGood, DropGuardGood DEF CallEnds
<1>6. ASSUME NEW c \in Conns, Connected(c) \/ LoggedIn(c) \/ ConnectFails(c) \/ Reap(c)
      PROVE  IInv'
  BY <1>6, ConnectedGood, LoggedInGood, ConnectFailsGood, ReapGood
<1>7. ASSUME NEW c \in Conns, Answer(c) \/ EndSession(c)
      PROVE  IInv'
  BY <1>7, AnswerGood, EndSessionGood
<1>8. CASE UNCHANGED vars
  BY <1>8 DEF IInv, vars
<1> QED BY <1>1, <1>2, <1>3, <1>4, <1>5, <1>6, <1>7, <1>8 DEF Next

LEMMA Invariance == Spec => []IInv
BY InitGood, StepGood, PTL DEF Spec

(* The types of the registry, the clients and the tasks are those of       *)
(* TypeOK in every state: in particular a task outside or waiting has no   *)
(* connection, and any other has one.                                      *)
THEOREM PoolTypeCorrect == Spec => []TypeOK
<1>1. IInv => TypeOK
  BY DEF IInv, Good, Typed, TypeOK
<1> QED BY <1>1, Invariance, PTL

(* Two clients of one account exist only if the account was removed in     *)
(* between: each pool has one client at most, and of two pools of an       *)
(* account one is not its pool any more.                                   *)
THEOREM OneClient == Spec => []OneClientPerAccount
<1>1. ASSUME IInv
      PROVE  OneClientPerAccount
  <2>1. Registered(account, registry, task, conn, removed) /\ Single(conn)
    BY <1>1 DEF IInv, Good
  <2>2. SUFFICES ASSUME NEW c \in Conns, NEW d \in Conns, c # d,
                        conn[c].at # "free", conn[d].at # "free",
                        account[c[1]] = account[d[1]]
                 PROVE  c[1] \in removed \/ d[1] \in removed
    BY DEF OneClientPerAccount, AccountOf
  <2>3. c[1] \in 1 .. Len(account) /\ d[1] \in 1 .. Len(account)
    BY <2>1, <2>2 DEF Registered
  <2>4. c[1] # d[1]
    BY <2>1, <2>2 DEF Single
  <2> QED BY <2>1, <2>2, <2>3, <2>4 DEF Registered
<1> QED BY <1>1, Invariance, PTL

(* The connection of an account is never lost and never shared: one that   *)
(* is taken is exactly one task's, any other is nobody's.                  *)
THEOREM OneHolder == Spec => []HeldByOne
<1>1. ASSUME IInv
      PROVE  HeldByOne
  <2>1. Held(task, conn)
    BY <1>1 DEF IInv, Good
  <2>2. ASSUME NEW c \in Conns, conn[c].at = "taken"
        PROVE  Cardinality({t \in Tasks : task[t].conn = c}) = 1
    <3>1. PICK t \in Tasks : task[t].conn = c
      BY <2>1, <2>2 DEF Held
    <3>2. {u \in Tasks : task[u].conn = c} = {t}
      BY <2>1, <3>1, ConstantFacts DEF Held
    <3> QED BY <3>2, FS_Singleton
  <2>3. ASSUME NEW c \in Conns, conn[c].at # "taken"
        PROVE  Cardinality({t \in Tasks : task[t].conn = c}) = 0
    <3>1. {t \in Tasks : task[t].conn = c} = {}
      BY <2>1, <2>3, ConstantFacts DEF Held
    <3> QED BY <3>1, FS_EmptySet
  <2> QED BY <2>2, <2>3 DEF HeldByOne
<1> QED BY <1>1, Invariance, PTL

(* While no call on a connection was given up, by a holder, by a checkout  *)
(* or by its login (client.rs swallows a failed CAPA probe), its holder    *)
(* reads the replies to its own commands, and the pool keeps it with none  *)
(* to come.                                                                *)
THEOREM GuardsAreInStep == Spec => []RepliesAreOwn
<1>1. ASSUME IInv
      PROVE  RepliesAreOwn
  <2>1. ASSUME NEW t \in Tasks, task[t].conn # None, ~conn[task[t].conn].abandoned
        PROVE  ~task[t].late
    BY <1>1, <2>1, TaskFacts
  <2>2. ASSUME NEW c \in Conns, conn[c].at = "idle", ~conn[c].abandoned
        PROVE  conn[c].unanswered = 0 /\ conn[c].unread = <<>>
    <3>1. conn[c] \in Client /\ Pending(conn[c]) = 0
      BY <1>1, <2>2, ClientFacts DEF Settled
    <3>2. /\ conn[c].unanswered \in Nat /\ Len(conn[c].unread) \in Nat
          /\ conn[c].unread \in Seq({"ok", "err"})
      BY <3>1, PendingIsNat
    <3>3. conn[c].unanswered = 0 /\ Len(conn[c].unread) = 0
      BY <3>1, <3>2 DEF Pending
    <3> QED BY <3>2, <3>3, EmptySeq
  <2> QED BY <2>1, <2>2 DEF RepliesAreOwn
<1> QED BY <1>1, Invariance, PTL

-----------------------------------------------------------------------------
(***************************************************************************)
(* What a step may do to a task, and to one task only.                     *)
(***************************************************************************)
Waiting(x) == x.at \in {"waiting", "testing"}
Holding(x) == x.at \in {"holding", "calling"}

Asks(x, y)     == x.at = "out" /\ y.at = "waiting" /\ y.pool \in Pools
Granted(x, y)  == x.at = "testing" /\ y.at = "holding" /\ y.pool = x.pool
GivesUp(x, y)  == Waiting(x) /\ y.at = "out"
Releases(x, y) == Holding(x) /\ y.at = "out"
GoesOn(x, y)   == /\ y.pool = x.pool
                  /\ \/ Waiting(x) /\ Waiting(y)
                     \/ Holding(x) /\ Holding(y)

Moves(ts, t) ==
  /\ \A u \in Tasks : u # t => ts[u] = task[u]
  /\ \/ Asks(task[t], ts[t]) \/ Granted(task[t], ts[t]) \/ GivesUp(task[t], ts[t])
     \/ Releases(task[t], ts[t]) \/ GoesOn(task[t], ts[t])

LEMMA BecomeTasks ==
  ASSUME NEW reg, NEW tasks, NEW clients, Become(reg, tasks, clients)
  PROVE  task' = tasks
BY DEF Become

LEMMA NextMoves ==
  ASSUME IInv, Next
  PROVE  task' = task \/ \E t \in Tasks : Moves(task', t)
<1> USE TaskTyped, BecomeTasks
<1>1. ASSUME NEW k \in Keys, AddAccount(k) \/ RemoveAccount(k)
      PROVE  task' = task
  BY <1>1 DEF AddAccount, RemoveAccount
<1>2. ASSUME NEW t \in Tasks, NEW k \in Keys, Checkout(t, k)
      PROVE  task' = task \/ Moves(task', t)
  <2>1. registry[k] # None => registry[k] \in Pools
    BY DEF IInv, Good, Typed
  <2>2. CASE registry[k] = None
    <3>1. task[t] = Outside
      <4>1. task[t] \in Actor /\ task[t].at = "out" /\ task[t].pool = None
            /\ task[t].conn = None /\ task[t].late = FALSE
        BY <1>2, TaskFacts DEF Checkout, Sound
      <4> QED BY <4>1 DEF Actor, Outside
    <3>2. task' = [task EXCEPT ![t] = Outside]
      BY <1>2, <2>2 DEF Checkout
    <3> QED BY <3>1, <3>2
  <2>3. CASE registry[k] # None
    <3>1. task[t].at = "out" /\ task' = [task EXCEPT ![t] = [@ EXCEPT !.at = "waiting", !.pool = registry[k]]]
      BY <1>2, <2>3 DEF Checkout
    <3>2. task'[t].at = "waiting" /\ task'[t].pool = registry[k]
      BY <3>1 DEF Actor
    <3> QED BY <2>1, <2>3, <3>1, <3>2 DEF Moves, Asks
  <2> QED BY <2>2, <2>3
<1>3. ASSUME NEW t \in Tasks, NEW c \in Conns, StartConnect(t, c)
      PROVE  task' = task
  BY <1>3 DEF StartConnect
<1>4. ASSUME NEW t \in Tasks, NEW c \in Conns, Take(t, c)
      PROVE  Moves(task', t)
  <2>1. task[t].at = "waiting" /\ task' = [task EXCEPT ![t].at = "testing", ![t].conn = c]
    BY <1>4 DEF Take
  <2>2. /\ task'[t].at = "testing" /\ task'[t].pool = task[t].pool
        /\ \A u \in Tasks : u # t => task'[u] = task[u]
    BY <2>1 DEF Actor
  <2> QED BY <2>1, <2>2 DEF Moves, GoesOn, Waiting
<1>5. ASSUME NEW t \in Tasks, Valid(t)
      PROVE  Moves(task', t)
  <2>1. task[t].at = "testing" /\ task' = [task EXCEPT ![t].at = "holding", ![t].late = IsLate(t)]
    BY <1>5 DEF Valid
  <2>2. task'[t].at = "holding" /\ task'[t].pool = task[t].pool
    BY <2>1 DEF Actor
  <2> QED BY <2>1, <2>2 DEF Moves, Granted
<1>6. ASSUME NEW t \in Tasks, Invalid(t)
      PROVE  Moves(task', t)
  <2>1. task[t].at = "testing" /\ task' = [task EXCEPT ![t].at = "waiting", ![t].conn = None]
    BY <1>6 DEF Invalid
  <2>2. /\ task'[t].at = "waiting" /\ task'[t].pool = task[t].pool
        /\ \A u \in Tasks : u # t => task'[u] = task[u]
    BY <2>1 DEF Actor
  <2> QED BY <2>1, <2>2 DEF Moves, GoesOn, Waiting
<1>7. ASSUME NEW t \in Tasks, CheckoutEnds(t)
      PROVE  Moves(task', t)
  <2>1. Waiting(task[t]) /\ task' = [task EXCEPT ![t] = Outside]
    BY <1>7 DEF CheckoutEnds, InCheckout, Waiting
  <2> QED BY <2>1 DEF Moves, GivesUp, Outside
<1>8. ASSUME NEW t \in Tasks, Call(t)
      PROVE  Moves(task', t)
  <2>1. task[t].at = "holding" /\ task' = [task EXCEPT ![t].at = "calling", ![t].late = FALSE]
    BY <1>8 DEF Call
  <2>2. task'[t].at = "calling" /\ task'[t].pool = task[t].pool
    BY <2>1 DEF Actor
  <2> QED BY <2>1, <2>2 DEF Moves, GoesOn, Holding
<1>9. ASSUME NEW t \in Tasks, CallEnds(t)
      PROVE  Moves(task', t)
  <2>1. /\ task[t].at = "calling"
        /\ \/ task' = [task EXCEPT ![t].at = "holding", ![t].late = IsLate(t)]
           \/ task' = [task EXCEPT ![t].at = "holding"]
    BY <1>9 DEF CallEnds, Answered, CallBreaks, CallGivenUp
  <2>2. /\ task'[t].at = "holding" /\ task'[t].pool = task[t].pool
        /\ \A u \in Tasks : u # t => task'[u] = task[u]
    BY <2>1 DEF Actor
  <2> QED BY <2>1, <2>2 DEF Moves, GoesOn, Holding
<1>10. ASSUME NEW t \in Tasks, DropGuard(t)
       PROVE  Moves(task', t)
  <2>1. Holding(task[t]) /\ task' = [task EXCEPT ![t] = Outside]
    BY <1>10 DEF DropGuard, Holding
  <2> QED BY <2>1 DEF Moves, Releases, Outside
<1>11. ASSUME NEW c \in Conns, ConnectFails(c)
       PROVE  task' = task \/ \E t \in Tasks : Moves(task', t)
  <2>1. PICK told \in {{}} \cup {{t} : t \in {u \in Tasks : task[u].at = "waiting"
                                                      /\ task[u].pool = c[1]}} :
          task' = [t \in Tasks |-> IF t \in told THEN Outside ELSE task[t]]
    BY <1>11 DEF ConnectFails
  <2>2. CASE told = {}
    BY <2>1, <2>2
  <2>3. ASSUME NEW t \in Tasks, task[t].at = "waiting", told = {t}
        PROVE  Moves(task', t)
    BY <2>1, <2>3 DEF Moves, GivesUp, Waiting, Outside
  <2> QED BY <2>1, <2>2, <2>3
<1>12. ASSUME NEW c \in Conns,
              Connected(c) \/ LoggedIn(c) \/ Reap(c) \/ Answer(c) \/ EndSession(c)
       PROVE  task' = task
  BY <1>12 DEF Connected, LoggedIn, Reap, Answer, EndSession
<1> QED BY <1>1, <1>2, <1>3, <1>4, <1>5, <1>6, <1>7, <1>8, <1>9, <1>10, <1>11, <1>12 DEF Next

-----------------------------------------------------------------------------
(* A checkout hands over a connection in one way, by a NOOP that succeeds. *)
LEMMA OnlyValidLends ==
  ASSUME IInv, Next, NEW t \in Tasks, InCheckout(t), task'[t].at = "holding"
  PROVE  Valid(t)
<1> USE TaskTyped, BecomeTasks
<1>1. task[t].at \in {"waiting", "testing"} /\ task'[t] # task[t]
  BY DEF InCheckout
<1>2. \A k \in Keys : ~AddAccount(k) /\ ~RemoveAccount(k)
  BY <1>1 DEF AddAccount, RemoveAccount
<1>3. ASSUME NEW u \in Tasks, NEW k \in Keys, Checkout(u, k)
      PROVE  FALSE
  <2>1. u # t /\ task[u].at = "out"
    BY <1>1, <1>3 DEF Checkout
  <2>2. task'[t] = task[t]
    BY <1>3, <2>1 DEF Checkout
  <2> QED BY <1>1, <2>2
<1>4. ASSUME NEW u \in Tasks, NEW c \in Conns, StartConnect(u, c) \/ Take(u, c)
      PROVE  FALSE
  <2>1. \/ task' = task
        \/ task' = [task EXCEPT ![u].at = "testing", ![u].conn = c]
    BY <1>4 DEF StartConnect, Take
  <2> QED BY <1>1, <2>1 DEF Actor
<1>5. ASSUME NEW u \in Tasks, Invalid(u) \/ CheckoutEnds(u) \/ Call(u) \/ DropGuard(u)
      PROVE  FALSE
  <2>1. \/ task' = [task EXCEPT ![u].at = "waiting", ![u].conn = None]
        \/ task' = [task EXCEPT ![u] = Outside]
        \/ task' = [task EXCEPT ![u].at = "calling", ![u].late = FALSE]
    BY <1>5 DEF Invalid, CheckoutEnds, Call, DropGuard
  <2> QED BY <1>1, <2>1 DEF Actor, Outside
<1>6. ASSUME NEW u \in Tasks, CallEnds(u)
      PROVE  FALSE
  <2>1. /\ task[u].at = "calling"
        /\ \/ task' = [task EXCEPT ![u].at = "holding", ![u].late = IsLate(u)]
           \/ task' = [task EXCEPT ![u].at = "holding"]
    BY <1>6 DEF CallEnds, Answered, CallBreaks, CallGivenUp
  <2> QED BY <1>1, <2>1
<1>7. ASSUME NEW u \in Tasks, Valid(u)
      PROVE  u = t
  <2>1. task' = [task EXCEPT ![u].at = "holding", ![u].late = IsLate(u)]
    BY <1>7 DEF Valid
  <2> QED BY <1>1, <2>1
<1>8. ASSUME NEW c \in Conns, ConnectFails(c)
      PROVE  FALSE
  <2>1. task'[t] \in {task[t], Outside}
    BY <1>8 DEF ConnectFails
  <2> QED BY <1>1, <2>1 DEF Outside
<1>9. ASSUME NEW c \in Conns,
             Connected(c) \/ LoggedIn(c) \/ Reap(c) \/ Answer(c) \/ EndSession(c)
      PROVE  FALSE
  BY <1>1, <1>9 DEF Connected, LoggedIn, Reap, Answer, EndSession
<1> QED BY <1>2, <1>3, <1>4, <1>5, <1>6, <1>7, <1>8, <1>9 DEF Next

(* A connection is lent only right after the server has accepted a NOOP;   *)
(* only after a call was given up, the probe of its login included, can    *)
(* that be the reply to another command.                                   *)
THEOREM LentAfterNoop == Spec => LentAlive
<1>1. ASSUME IInv, Next, NEW t \in Tasks, InCheckout(t), task'[t].at = "holding"
      PROVE  LET c == task'[t].conn IN
               conn[c].abandoned \/ (conn[c].unread = <<"ok">> /\ conn[c].unanswered = 0)
  <2> DEFINE c == task[t].conn
  <2>1. Valid(t)
    BY <1>1, OnlyValidLends
  <2>2. task[t].at = "testing" /\ HasReply(t) /\ Kind(t) = "ok"
    BY <2>1 DEF Valid
  <2>3. task'[t].conn = c
    <3>1. task' = [task EXCEPT ![t].at = "holding", ![t].late = IsLate(t)]
      BY <2>1, BecomeTasks DEF Valid
    <3>2. task[t] \in Actor /\ t \in DOMAIN task
      BY <1>1, TaskTyped
    <3> QED BY <3>1, <3>2 DEF Actor
  <2>4. /\ c # None /\ c \in Conns /\ conn[c] \in Client
        /\ ~conn[c].abandoned => Pending(conn[c]) <= 1
    BY <1>1, <2>2, TaskFacts, ClientFacts DEF Sound
  <2>5. /\ conn[c].unread \in Seq({"ok", "err"}) /\ Len(conn[c].unread) \in Nat
        /\ conn[c].unanswered \in Nat
    BY <2>4, PendingIsNat
  <2>6. conn[c].unread # <<>> /\ Head(conn[c].unread) = "ok"
    BY <2>2 DEF HasReply, Kind
  <2>7. ASSUME ~conn[c].abandoned
        PROVE  conn[c].unread = <<"ok">> /\ conn[c].unanswered = 0
    <3>1. Len(conn[c].unread) # 0
      BY <2>5, <2>6, EmptySeq
    <3>2. Len(conn[c].unread) = 1 /\ conn[c].unanswered = 0
      <4>1. conn[c].unanswered + Len(conn[c].unread) <= 1
        BY <2>4, <2>7 DEF Pending
      <4>2. \A m, n \in Nat : m + n <= 1 /\ n # 0 => n = 1 /\ m = 0
        OBVIOUS
      <4> QED BY <2>5, <3>1, <4>1, <4>2
    <3>3. conn[c].unread[1] = "ok"
      BY <2>5, <2>6
    <3> QED BY <2>5, <3>2, <3>3
  <2> QED BY <2>3, <2>7
<1>2. IInv /\ [Next]_vars
        => [\A t \in Tasks : InCheckout(t) /\ task'[t].at = "holding"
              => LET c == task'[t].conn IN
                 \/ conn[c].abandoned
                 \/ conn[c].unread = <<"ok">> /\ conn[c].unanswered = 0]_vars
  BY <1>1
<1> QED BY <1>2, Invariance, PTL DEF Spec, LentAlive

-----------------------------------------------------------------------------
(***************************************************************************)
(* The refinement.  A task that is being given a connection, or has one,   *)
(* is the only one of its pool, so that the holder that the refinement     *)
(* chooses is determined.                                                  *)
(***************************************************************************)
WantedIn(ts) == [t \in Tasks |-> IF Waiting(ts[t]) THEN ts[t].pool ELSE None]
HolderIn(ts) == [p \in Pools |->
                   IF \E t \in Tasks : Holding(ts[t]) /\ ts[t].pool = p
                   THEN CHOOSE t \in Tasks : Holding(ts[t]) /\ ts[t].pool = p
                   ELSE None]

Served(x) == x.at \in {"testing", "holding", "calling"}
Alone(ts) ==
  /\ ts \in [Tasks -> Actor]
  /\ \A t \in Tasks : Waiting(ts[t]) \/ Holding(ts[t]) => ts[t].pool \in Pools
  /\ \A t, u \in Tasks : Served(ts[t]) /\ Served(ts[u]) /\ ts[t].pool = ts[u].pool => t = u

LEMMA GoodIsAlone ==
  ASSUME NEW acc, NEW reg, NEW tasks, NEW clients, NEW rem,
         Good(acc, reg, tasks, clients, rem)
  PROVE  Alone(tasks)
<1>1. /\ Typed(acc, reg, tasks, clients, rem) /\ Single(clients) /\ Held(tasks, clients)
  BY DEF Good
<1>2. ASSUME NEW t \in Tasks, Waiting(tasks[t]) \/ Holding(tasks[t])
      PROVE  tasks[t].pool \in Pools
  <2>1. tasks[t].at # "out" /\ tasks[t].pool \in Pools \cup {None}
    BY <1>1, <1>2 DEF Typed, Waiting, Holding, Actor
  <2> QED BY <1>1, <2>1 DEF Typed
<1>3. ASSUME NEW t \in Tasks, NEW u \in Tasks, Served(tasks[t]), Served(tasks[u]),
             tasks[t].pool = tasks[u].pool
      PROVE  t = u
  <2>1. \A x \in {t, u} : tasks[x].conn # None /\ tasks[x].conn \in Conns
    BY <1>1, <1>3 DEF Typed, Served, Actor
  <2>2. \A x \in {t, u} : /\ clients[tasks[x].conn].at # "free"
                          /\ tasks[x].conn[1] = tasks[x].pool
    BY <1>1, <2>1 DEF Held
  <2>3. tasks[t].conn = tasks[u].conn
    BY <1>1, <1>3, <2>1, <2>2 DEF Single
  <2> QED BY <1>1, <2>1, <2>3 DEF Held
<1> QED BY <1>1, <1>2, <1>3 DEF Alone, Typed

LEMMA HolderFacts ==
  ASSUME NEW ts, Alone(ts), NEW p \in Pools
  PROVE  /\ \A t \in Tasks : HolderIn(ts)[p] = t <=> Holding(ts[t]) /\ ts[t].pool = p
         /\ HolderIn(ts)[p] \in Tasks \cup {None}
<1>1. \A t, u \in Tasks :
        Holding(ts[t]) /\ ts[t].pool = p /\ Holding(ts[u]) /\ ts[u].pool = p => t = u
  BY DEF Alone, Holding, Served
<1>2. CASE \E t \in Tasks : Holding(ts[t]) /\ ts[t].pool = p
  <2> DEFINE h == CHOOSE t \in Tasks : Holding(ts[t]) /\ ts[t].pool = p
  <2>1. h \in Tasks /\ Holding(ts[h]) /\ ts[h].pool = p
    BY <1>2
  <2>2. HolderIn(ts)[p] = h
    BY <1>2 DEF HolderIn
  <2> HIDE DEF h
  <2> QED BY <1>1, <2>1, <2>2
<1>3. CASE ~ \E t \in Tasks : Holding(ts[t]) /\ ts[t].pool = p
  <2>1. HolderIn(ts)[p] = None
    BY <1>3 DEF HolderIn
  <2> QED BY <1>3, <2>1, ConstantFacts
<1> QED BY <1>2, <1>3

(* The holder of a pool changes only if a task begins or ends to hold it.  *)
LEMMA SameHolder ==
  ASSUME NEW ts, NEW us, Alone(ts), Alone(us), NEW p \in Pools,
         \A t \in Tasks : Holding(ts[t]) /\ ts[t].pool = p
                            <=> Holding(us[t]) /\ us[t].pool = p
  PROVE  HolderIn(ts)[p] = HolderIn(us)[p]
<1>1. \A t \in Tasks : HolderIn(ts)[p] = t <=> HolderIn(us)[p] = t
  BY HolderFacts
<1> QED BY <1>1, HolderFacts

(* The steps of the lock.                                                  *)
LEMMA LockSteps ==
  ASSUME NEW ts, Alone(task), Alone(ts), NEW t \in Tasks, Moves(ts, t)
  PROVE  LET w == WantedIn(task)  v == WantedIn(ts)
             h == HolderIn(task)  g == HolderIn(ts)
         IN \/ v = w /\ g = h
            \/ \E r \in Pools : /\ w[t] = None /\ \A s \in Pools : h[s] # t
                                /\ v = [w EXCEPT ![t] = r] /\ g = h
            \/ /\ w[t] # None /\ h[w[t]] = None
               /\ g = [h EXCEPT ![w[t]] = t] /\ v = [w EXCEPT ![t] = None]
            \/ w[t] # None /\ v = [w EXCEPT ![t] = None] /\ g = h
            \/ \E r \in Pools : h[r] = t /\ g = [h EXCEPT ![r] = None] /\ v = w
<1> DEFINE w == WantedIn(task)
           v == WantedIn(ts)
           h == HolderIn(task)
           g == HolderIn(ts)
<1>1. \A u \in Tasks : /\ w[u] = IF Waiting(task[u]) THEN task[u].pool ELSE None
                       /\ v[u] = IF Waiting(ts[u]) THEN ts[u].pool ELSE None
  BY DEF WantedIn
<1>2. /\ w = [u \in Tasks |-> w[u]] /\ v = [u \in Tasks |-> v[u]]
      /\ h = [p \in Pools |-> h[p]] /\ g = [p \in Pools |-> g[p]]
  BY DEF WantedIn, HolderIn
<1>3. /\ \A p \in Pools : /\ h[p] \in Tasks \cup {None} /\ g[p] \in Tasks \cup {None}
                          /\ \A u \in Tasks : h[p] = u <=> Holding(task[u]) /\ task[u].pool = p
                          /\ \A u \in Tasks : g[p] = u <=> Holding(ts[u]) /\ ts[u].pool = p
      /\ None \notin Pools /\ None \notin Tasks
  BY HolderFacts, ConstantFacts
<1>4. \A u \in Tasks : u # t => ts[u] = task[u]
  BY DEF Moves
<1>5. \A u \in Tasks : u # t => v[u] = w[u]
  BY <1>1, <1>4
<1>6. \A p \in Pools :
        (Holding(task[t]) /\ task[t].pool = p <=> Holding(ts[t]) /\ ts[t].pool = p)
          => g[p] = h[p]
  BY <1>4, SameHolder
<1>7. /\ Waiting(task[t]) \/ Holding(task[t]) => task[t].pool \in Pools
      /\ \A u \in Tasks : Served(task[t]) /\ Served(task[u]) /\ task[t].pool = task[u].pool
                            => t = u
  BY DEF Alone
<1>8. \A x : /\ ~(Waiting(x) /\ Holding(x))
             /\ x.at = "out" => ~Waiting(x) /\ ~Holding(x)
             /\ x.at = "waiting" => Waiting(x) /\ ~Holding(x)
             /\ x.at = "testing" => Waiting(x) /\ ~Holding(x) /\ Served(x)
             /\ x.at = "holding" => Holding(x) /\ ~Waiting(x) /\ Served(x)
             /\ Holding(x) => Served(x)
  BY DEF Waiting, Holding, Served
<1> HIDE DEF w, v, h, g
<1>9. CASE Asks(task[t], ts[t])
  <2>1. w[t] = None /\ v[t] = ts[t].pool /\ ts[t].pool \in Pools
    BY <1>1, <1>8, <1>9 DEF Asks
  <2>2. g = h
    BY <1>2, <1>6, <1>8, <1>9 DEF Asks
  <2>3. \A s \in Pools : h[s] # t
    BY <1>3, <1>8, <1>9 DEF Asks
  <2>4. v = [w EXCEPT ![t] = ts[t].pool]
    BY <1>2, <1>5, <2>1
  <2> QED BY <2>1, <2>2, <2>3, <2>4 DEF w, v, h, g
<1>10. CASE Granted(task[t], ts[t])
  <2> DEFINE p == task[t].pool
  <2>1. w[t] = p /\ p \in Pools /\ v[t] = None
    BY <1>1, <1>7, <1>8, <1>10 DEF Granted
  <2>2. h[p] = None
    <3>1. \A u \in Tasks : h[p] # u
      BY <1>3, <1>7, <1>8, <1>10, <2>1 DEF Granted
    <3> QED BY <1>3, <2>1, <3>1
  <2>3. g[p] = t
    BY <1>3, <1>8, <1>10, <2>1 DEF Granted
  <2>4. \A q \in Pools : q # p => g[q] = h[q]
    BY <1>6, <1>8, <1>10 DEF Granted
  <2> HIDE DEF p
  <2>5. g = [h EXCEPT ![p] = t] /\ v = [w EXCEPT ![t] = None]
    BY <1>2, <1>5, <2>1, <2>3, <2>4
  <2> QED BY <1>3, <2>1, <2>2, <2>5 DEF w, v, h, g
<1>11. CASE GivesUp(task[t], ts[t])
  <2>1. w[t] # None /\ v[t] = None
    BY <1>1, <1>3, <1>7, <1>8, <1>11 DEF GivesUp
  <2>2. g = h
    BY <1>2, <1>6, <1>8, <1>11 DEF GivesUp
  <2>3. v = [w EXCEPT ![t] = None]
    BY <1>2, <1>5, <2>1
  <2> QED BY <2>1, <2>2, <2>3 DEF w, v, h, g
<1>12. CASE Releases(task[t], ts[t])
  <2> DEFINE p == task[t].pool
  <2>1. w[t] = None /\ p \in Pools /\ v[t] = None /\ h[p] = t
    BY <1>1, <1>3, <1>7, <1>8, <1>12 DEF Releases
  <2>2. g[p] = None
    <3>1. \A u \in Tasks : g[p] # u
      BY <1>3, <1>4, <1>7, <1>8, <1>12, <2>1 DEF Releases
    <3> QED BY <1>3, <2>1, <3>1
  <2>3. \A q \in Pools : q # p => g[q] = h[q]
    BY <1>6, <1>8, <1>12 DEF Releases
  <2> HIDE DEF p
  <2>4. g = [h EXCEPT ![p] = None]
    BY <1>2, <2>1, <2>2, <2>3
  <2>5. v = w
    BY <1>2, <1>5, <2>1
  <2> QED BY <2>1, <2>4, <2>5 DEF w, v, h, g
<1>13. CASE GoesOn(task[t], ts[t])
  <2>1. g = h
    BY <1>2, <1>6, <1>8, <1>13 DEF GoesOn
  <2>2. v[t] = w[t]
    BY <1>1, <1>8, <1>13 DEF GoesOn
  <2>3. v = w
    BY <1>2, <1>5, <2>2
  <2> QED BY <2>1, <2>3 DEF w, v, h, g
<1> QED BY <1>9, <1>10, <1>11, <1>12, <1>13 DEF Moves

(* Each registration is a lock with a time limit: one task holds it at a   *)
(* time, and a checkout that is given up, an account that is removed and a *)
(* connection that is discarded in between do not change that.             *)
THEOREM PoolIsLock == Spec => IsLock
<1> DEFINE wanted == [t \in Tasks |-> IF InCheckout(t) THEN task[t].pool ELSE None]
           holder == [p \in Pools |->
               IF \E t \in Tasks : task[t].at \in {"holding", "calling"} /\ task[t].pool = p
               THEN CHOOSE t \in Tasks : task[t].at \in {"holding", "calling"} /\ task[t].pool = p
               ELSE None]
<1>1. wanted = WantedIn(task) /\ holder = HolderIn(task)
  BY DEF InCheckout, WantedIn, HolderIn, Waiting, Holding
<1>2. wanted' = WantedIn(task') /\ holder' = HolderIn(task')
  BY DEF InCheckout, WantedIn, HolderIn, Waiting, Holding
<1>3. Init => Lock!Init
  <2>1. ASSUME Init
        PROVE  /\ wanted = [t \in Tasks |-> None]
               /\ holder = [p \in Pools |-> None]
    BY <2>1 DEF Init, Outside, InCheckout
  <2> QED BY <2>1 DEF Lock!Init
<1>4. IInv /\ IInv' /\ [Next]_vars => [Lock!Next]_(Lock!vars)
  <2> SUFFICES ASSUME IInv, IInv', [Next]_vars
               PROVE  [Lock!Next]_(Lock!vars)
    OBVIOUS
  <2>1. Alone(task) /\ Alone(task')
    BY GoodIsAlone DEF IInv
  <2>2. CASE task' = task
    <3>1. wanted' = wanted /\ holder' = holder
      BY <1>1, <1>2, <2>2
    <3> QED BY <3>1 DEF Lock!vars
  <2>3. ASSUME NEW t \in Tasks, Moves(task', t)
        PROVE  [Lock!Next]_(Lock!vars)
    <3>1. \/ wanted' = wanted /\ holder' = holder
          \/ \E r \in Pools : /\ wanted[t] = None /\ \A s \in Pools : holder[s] # t
                              /\ wanted' = [wanted EXCEPT ![t] = r] /\ holder' = holder
          \/ /\ wanted[t] # None /\ holder[wanted[t]] = None
             /\ holder' = [holder EXCEPT ![wanted[t]] = t]
             /\ wanted' = [wanted EXCEPT ![t] = None]
          \/ /\ wanted[t] # None /\ wanted' = [wanted EXCEPT ![t] = None]
             /\ holder' = holder
          \/ \E r \in Pools : /\ holder[r] = t /\ holder' = [holder EXCEPT ![r] = None]
                              /\ wanted' = wanted
      <4> HIDE DEF wanted, holder
      <4> QED BY <1>1, <1>2, <2>1, <2>3, LockSteps
    <3> QED BY <3>1 DEF Lock!Next, Lock!vars, Lock!Ask, Lock!Grant, Lock!GiveUp, Lock!Release
  <2>4. CASE UNCHANGED vars
    BY <2>2, <2>4 DEF vars
  <2> QED BY <2>2, <2>3, <2>4, NextMoves
<1> QED BY <1>3, <1>4, Invariance, PTL DEF Spec, IsLock, Lock!Spec
=============================================================================
