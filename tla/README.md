# rust-adv-pop3 in TLA+

A verification development for the `rust-adv-pop3` crate: an async POP3 client with pipelined batches, a reconnecting
wrapper, a connection pool, STLS and incremental synchronisation. The modules are translated from `src/src/*.rs`; the
server, the network, and the crates below (tokio, backon, bb8, rustls) are external and are modelled from how the crate
uses them.

## 1. The system

| Part | Source | State it keeps | Operations |
|---|---|---|---|
| `Pop3Client` | `client.rs` | `state` (Connected, Authenticated, Disconnected), `is_pipelining`, the greeting and its APOP timestamp | `connect`, `login`, `apop`, `stat`, `list`, `uidl`, `retr`, `top`, `dele`, `rset`, `noop`, `capa`, `quit(self)` |
| Pipelined batches | `client.rs` 639-919 | the window of ids on the wire | `retr_many`, `dele_many` (windows of four commands, or one by one) |
| `Transport` | `transport.rs` | the stream and its read buffer, `timeout`, `encrypted`, `is_closed` | `send_command`, `read_line`, `read_multiline`, `upgrade_in_place` |
| Response parsing | `response.rs` | none | `parse_status_line`, `parse_stat`, `parse_list_entry`, `parse_uidl_entry`, `parse_capa` |
| `Pop3ClientBuilder` | `builder.rs` | host, port, TLS mode, credentials | setters, `effective_port`, `connect` |
| `ReconnectingClient` | `reconnect.rs` | the current client, the builder, the backoff parameters | every operation of the client, each returning `Outcome`; `quit(self)` |
| `Pop3Pool` | `pool.rs` | a map from accounts to one-connection bb8 pools | `add_account`, `checkout`, `remove_account`, `accounts` |
| STLS upgrade | `client.rs` 354, `transport.rs` 265 | the stream, `Upgrading` while the handshake runs | `stls` |
| Incremental sync | `client.rs` 993-1144 | the caller's set of seen unique ids | `unseen_uids`, `fetch_unseen`, `prune_seen` |
| MIME | `client.rs` 1320-1386 | none | `retr_parsed`, `top_parsed` |

**Interactions.** The builder makes a client; a client owns one transport and talks to one server session over two byte
streams, one command at a time (or a window of them); `ReconnectingClient` owns one client and replaces it; a bb8 pool
owns at most one client per account and lends it out. There are no threads inside a client: `&mut self` serialises its
calls. Concurrency comes from the server, from the network, from a caller that drops a future between two awaits, from
other sessions on the same maildrop, and from tasks that share a pool.

**What makes it hard.** POP3 replies carry no identity. A reply belongs to a command only by its position, so every path
of every operation, the error paths included, has to read exactly the lines that answer what it wrote. A read timeout, a
line that is not UTF-8 or a dropped future leaves the rest of a reply on the connection. Deletions exist only in a
server session until QUIT, and QUIT may be served although its reply is lost. A reconnection silently discards the
deletions, renumbers the messages, and has to get past the maildrop lock of the session it replaces.

**What makes each part correct.**

* Client and transport: replies are paired with commands; a message is returned whole or not at all; `Authenticated`
  agrees with the server; `quit` returning Ok has removed exactly what `dele` acknowledged; nothing else removes
  anything; every call returns; no call that begins once a connection is known to be closed succeeds. (The call that
  learns of it may: a login whose CAPA probe meets the end of the connection returns Ok.)
* Reconnecting client: `Outcome` tells the truth; logins are bounded, and none follows a refusal; `quit` removes what was
  acknowledged and nothing the session was not asked to delete; every call returns, unless it dials for ever.
* Batches: one result for each id, in order; a failure in the middle of a window loses no result; no deadlock on full
  buffers.
* Pool: one connection for each registration of an account, never lost and never shared; it is lent only after the server
  has accepted a NOOP, as far as no call on it was given up; every checkout returns in time.
* Builder and STLS: no secret in clear where TLS was asked for; no text from before the handshake is used after it; a
  failed handshake leaves no client that looks usable; a client that is returned is logged in; nobody but
  `connect_and_auth` logs in twice.
* Sync: no message is skipped for ever; a message is fetched again only if the caller forgot its unique id. Results of a
  `retr_many` that was made again in a renumbered session are the exception (section 5).

## 2. The modules

| Module | Models |
|---|---|
| `Pop3Protocol` | commands, arguments, lines and replies: the vocabulary of a connection |
| `Pop3Session` | one connection: `Pop3Client`, `Transport`, the server session, the network |
| `MaildropTransaction` | abstract specification: a session is a deletion transaction |
| `Pipeline` | `retr_many` and `dele_many`: windows of commands, and the sequential fallback |
| `BatchCall` | abstract specification: a batch is one call for each id, in order |
| `Reconnect` | `ReconnectingClient`, with what it needs of the server: the maildrop lock, marks, message numbers |
| `Pool` | `Pop3Pool`, its manager, what it uses of bb8, and the tasks that share an account |
| `AccountLock` | abstract specification: a registration is a lock with a time limit |
| `Upgrade` | `Pop3ClientBuilder`, `connect` in its three modes, the login that follows, and `stls` |
| `Sync` | `unseen_uids`, `fetch_unseen`, `prune_seen`, and the caller's seen set over many sessions |
| `MessageNumbers` | how a server numbers the messages of a maildrop; used by `Reconnect` and `Sync` |
| `Pop3Protocol_proofs`, `MessageNumbers_proofs` | lemmas about replies and about numbers, used by the proofs below |
| `Pop3Session_proofs`, `Pipeline_proofs`, `Pool_proofs`, `Upgrade_proofs`, `Reconnect_proofs`, `Sync_proofs` | theorems about the module of that name |
| `MCPop3Session`, `MCPipeline`, `MCReconnect`, `MCPool`, `MCUpgrade`, `MCSync` | instances for TLC |

### Pop3Session

*Grain.* One action for each thing the rest of the system can observe or interleave with: a call begins (with its early
returns: `Refuse`), one `read_line` returns or fails, the server answers a command, the network loses something. Between
writing a command and the first read there is nothing to interleave with that a queue does not already contain, so
`Begin` and `ContinueLogin` write.

| Code | Model |
|---|---|
| fields of `Pop3Client`, `Transport.is_closed` | `client`, `state`, `isPipelining`, `isClosed`, `stamped` (whether the greeting has an APOP timestamp) |
| the future of a call, suspended in `read_line` | `call`: operation, verb on the wire, argument, `at` = "status" or "body", the number of the command, what has been collected |
| the result of a call | `ret` |
| `require_auth`, `validate_message_id`, `check_no_crlf`, the state check of `login` and `apop` | `Refused`, in the code's order |
| `send_command` | `Write` |
| `send_and_check`, `parse_status_line` | `ContinueLogin`, `BeginBody`, `ReturnOk`, `ReturnErr` |
| `read_multiline` | `ReadBodyLine`, `ReadTerminator` |
| errors of `read_line` | `ReadUndecodable`, `ReadEof`, `TimeOut`; what an EOF leaves of a line: `CutKinds` (the same kind, if only the end of it is missing; text; a single dot; or a line that is not UTF-8, if a character was cut) |
| `capa().await.unwrap_or_default()` after a login | `InProbe`, `Seen` |
| `quit(self)`, a failed `connect`, `Drop` | `client = "dropped"` |
| `select!` or an outer timeout around a call | `Cancel` |

`toServer` and `toClient` are the two directions. A line carries, beside its kind, the number `of` of the command it
answers. The code cannot see that number; the properties use it to say that the pairing was right. `abandoned` records
the first call that did not read its whole reply. Most guarantees hold *while in sync* (`InSync`), and the properties
say so: after a timeout the crate makes no promise, although its documents do (section 5).

*Left out.* The text of lines, except what decides control: status, terminator, not UTF-8, PIPELINING. How `STAT` and
`LIST n` values are parsed; a parse may fail only when the line is stale or cut (a conforming server is assumed
otherwise). A write has no timer in the code and is taken to complete. After a read that gave up in the middle of a line,
the rest of the line may be any line or the terminator, but not one that looks like a status line. A bracketed code
turns `ServerError` into a more specific kind, which matters only in `Reconnect`.

### Pipeline

`Pop3Session` writes a command and waits for its reply; a batch has up to `Window` commands outstanding. `Pipeline` is
the same connection seen by batches only: sessions that mix both are sequences of the two, because a batch that is in
step begins and ends on a quiet connection (`Quiet`, proved).

*Grain.* A window is written to the `BufWriter` at once (`WriteChunk`, part of the action that begins the batch or reads
the last reply of a window), then flushed a command at a time, then read a line at a time.

| Code | Model |
|---|---|
| the loop over `ids.chunks(PIPELINE_WINDOW)` | `batch`: kind, ids, `first` (the number of its first command), `sent`, `at` |
| the `for` loop of the fallback | the same with a window of one (`ChunkSize`) |
| `results`, the vector returned | `results`, `ret` |
| the `BufWriter` inside `Transport` | `buffered`; `Cancel` and `FlushFails` leave in it what was not flushed |
| the `write_all`s of a chunk and the flush after them | `WriteChunk`, `Flush`, `FlushFails` |
| `require_auth`, `validate_message_id` for every id first | `Refused` |
| `read_retr_response`, the loop over a chunk of `dele_many_pipelined` | `ReadStatus`, `ReadBodyLine`, `ReadTerminator` |
| an I/O error: the rest of `ids` filled with `ConnectionClosed` | `Fail` when `isPipelining` |
| an I/O error in the fallback: recorded, next id | `Fail` when not |

External: the connection takes `SendRoom` commands the server has not read (`RoomForAWindow`: at least a window), and a
server that announces PIPELINING answers in order. `first`, `clean`, `verdicts` and `abandoned` are history.

*Left out.* Torn and cut lines (in `Pop3Session`), a command written in part, and RSET between two batches.

### Reconnect

*Grain.* One attempt of a call on a connection is one step; `Pop3Session` is what happens inside it. Its ways to end
appear as `Answer`, `AnswerSysTemp`, `Break`, `Delay` and `AnswerStale`, and for a connection only "up", "late" (a reply
left behind) or "down" matters. The link to `Pop3Session` is by reading: "late" is `~InSync`, and that an attempt ends is
the other module's `CallReturns`. A login is several steps, because it can hang in one of them: it dials (TCP and TLS),
it talks to the server, and the loop pauses between two logins (`call.at` = "dial", "login", "pause").

| Code | Model |
|---|---|
| `self.client` | `cur` (its session), `drop` (the numbering that session gave), `link` |
| `stat`, `list`, `uidl`, `retr`, `top`, `noop`, `capa`, the sync calls | `Query` with "QUERY": one result, which is Ok or an error |
| `retr_many` | `Query` with "RETRMANY": it always returns a vector, whatever its items are |
| `dele`; `dele_many` | `Dele`, one number; `DeleMany`, several, of which any part may succeed |
| `match self.client.op() { Ok => Fresh, Err if is_retryable => do_reconnect, again }`, and `has_retryable` of the two batches | `Retry`, `Settle` |
| the result of a call, its `Outcome`, and which items of a batch are Ok | `Return(val, out, done)`, `ret` |
| `do_reconnect`, `connect_and_auth` under `backon` | `Dialled`, `DialFails`, `LoginSucceeds`, `LoginRefused`, `LoginBreaks`, `PauseEnds`, `LoginError` |
| `with_max_times(max_retries)` | `MaxRetries`, counted in `logins` |
| `quit(self)` | `Quit`, `QuitAnswer`, `QuitUnanswered` |

The first attempt of a batch in which an item has a transient error leads to `do_reconnect`; the second returns
`Ok(Reconnected(v))`, with items that may have failed again. `Settle` keeps that: a partial `done` is confirmed, with the
session it was done in. `login` returns Ok although its CAPA probe timed out or met the end of the connection, so a new
client may be "late" or "down" from the start (`Enter`), and the second attempt may read the late reply (`AnswerStale`).

External: one server session holds the maildrop (`holder`); it numbers messages when it begins; its marks die with it;
another program may remove messages between two sessions (`OtherReader`); a login that broke may have left a session
behind (`MaybeLeftOver`). History variables record what the *caller* can know: the last session it was told of (`known`,
`view`), what it asked to delete (`intended`) and what it was told is marked (`confirmed`).

*Left out.* The lengths of the backoff delays, jitter, and the arguments of `on_reconnect`. `[LOGIN-DELAY]` is treated
like a refused password (neither is retried). A body that is not UTF-8 is treated like a timeout: both are retried and
both leave text behind.

### Pool

*Grain.* The registry's methods are one step each, because the registry's lock is never held across an await. A checkout
is several: waiting, taking an idle connection and writing its NOOP, the reply. A task is one guard that can be held; a
call on a guard is a command and a reply of one line.

| Code | Model |
|---|---|
| `Pop3Pool.pools` | `registry`, a pool for each account or `None`; a pool is one *registration*, numbered in `account` |
| `add_account`, `remove_account` | `AddAccount` (which does nothing for a registered account), `RemoveAccount` |
| `checkout`: the clone of the `Arc`, then `get_owned` | `Checkout`; the steps of `get_owned` are bb8's |
| `Pop3ConnectionManager::connect` | `Connected`, `LoggedIn`, `ConnectFails`; `AfterLogin`: what a login that returned Ok gives to the pool, whatever became of its CAPA probe |
| `is_valid` (NOOP), `has_broken` (`is_closed`) | `Take`, `Valid`, `Invalid`; `PutBack` |
| `connection_timeout`, a `checkout` whose future is dropped | `CheckoutEnds` |
| `PooledConnection` and its `Drop` | a task that is "holding" or "calling", `DropGuard` |
| the `Arc`s of a pool | `Referenced`: a pool that nobody refers to is dropped, with its idle client |

External: bb8 0.9.1, as far as `pool.rs` configures it and relies on it (at most `max_size` connections, those being made
included; validation before lending; the time limit; a checkout that is dropped half-way puts its connection back; the
reaper). Which waiting task gets a connection, whether any is woken, and whether a waiting task is told of a connection
that could not be made are left open. Replies carry no number here: a task's own reply is the last one on its
connection, and the history variables `late` and `abandoned` say when that was not the one it read. The CAPA probe that
`login` gives up silently sets `abandoned` like any other call that was given up, though no holder has had the connection.

*Left out.* Longer replies, operations by name, logging in clear or not: they are in `Pop3Session` and `Upgrade`.
`accounts` and `Debug` only read the registry.

### Upgrade

*Grain.* As in `Pop3Session`, one step for each read; writing happens in the step that decides to write. What the server
sends crosses the network (`wire`) and then the `BufReader` (`buffer`), which takes whatever has arrived when it is
empty; the check of `upgrade_in_place` is about that difference.

| Code | Model |
|---|---|
| `Pop3ClientBuilder` and its setters, `effective_port` | `builder`, `Configure`, `EffectivePort` |
| `connect` of the builder, `Pop3Client::connect`, `connect_tls`, and the `match` on `TlsMode` and `AuthMode` | `Connect`, `TcpConnected`, `TcpFails`, `After`, `Configured`, `ConnectReturns` |
| `Pop3ConnectionManager::connect` (with its guard, `client.state() != Authenticated`), `connect_and_auth` (without) | the operations MANAGER and RECONNECT, `CallerLogsIn`, which reads `state` as the guard does |
| the early returns of `login` and `apop` inside a connect (already logged in, no timestamp) | `Continue`, from `state` and `stamped` |
| a read that fails, in the CAPA probe or elsewhere | `ReadFails` |
| `stls` and the first half of `upgrade_in_place` | `ReadStlsOk`: refused if the buffer is not empty, else the placeholder is put in and the handshake begins |
| the second half, and the handshake of `connect_tls` | `HandshakeDone`, `HandshakeFails` |
| `InnerStream`, `encrypted`, `is_closed` | `stream` ("upgrading" is the placeholder), `encrypted`, `isClosed` |
| early returns of `login`, `apop`, `stls`, and a write on the placeholder | `Refused` |

External: the TLS library, in which a handshake succeeds if the server answers the ClientHello as the next thing, and
otherwise fails; whatever the reason, the TCP stream is gone with it. The server may refuse any command, send one line
more with its `+OK` to STLS, or be a TLS server from the start (`TlsPort`) that a client addresses in clear, or the
reverse. History variables say whether a name or password was written in clear (`exposed`), a handshake was begun
(`tried`), a line was read on another layer than it was sent (`carried`), or a reply may be out of step (`trouble`).

*Left out.* Replies of more than one line, cut lines, names with CR or LF (in `Pop3Session`), certificates.

### Sync

*Grain.* UIDL and each RETR are one step, a reconnection is one step (`LogIn` or `LogInFails`), and the caller's steps
between calls are its own.

| Code | Model |
|---|---|
| `unseen_uids`, `fetch_unseen`, `prune_seen` of `Pop3Client` | `AnswerUidl`, `AnswerRetr`, `Refuse`, `Break`, `Return` |
| the same of `ReconnectingClient` | the same with `wrapped`: `Break` leads to "login", then the whole call again |
| the filter of `unseen_uids`; the `retain` of `prune_seen` | `Unseen`; `Pruned` |
| `retr_many` on the numbers of `unseen_uids`, which the documentation advises for partial results | the operation "retr_many"; made again in a new session it hands over what the old numbers name there (`HandOver`, `Renumbered`) |
| the caller of the examples (`client.rs` 1040 and 1102-1122): it adds the ids it was given, and saves the set | `Record`, `Save`, `Crash` |

External: the maildrop, which other programs change between two sessions and which the server numbers at each login; a
unique id names one message for ever (the documentation of `prune_seen` excludes servers that use one again). `rerun`
is history: the pairs of two different messages that such a `retr_many` returned. `muddled`
is history: a call took a reply that another call had left behind. Out of step the crate promises nothing; there
`prune_seen` may read the short reply of another command as an empty listing and empty the set.

## 3. What the runs show

| Run | Instance | Shows |
|---|---|---|
| `session` | LOGIN, STAT, RETR, LIST, QUIT; 2 messages (one not UTF-8); 4 commands | pairing, whole messages, agreement on login, no success on a closed connection, every call returns |
| `deletion` | APOP, DELE, RSET, QUIT; 2 messages; 5 commands | `quit` against what the caller was told; only QUIT removes; the session refines `MaildropTransaction` |
| `reconnect` | 2 messages, deletions of one and of two, 1 retry, 3 calls | truthful outcomes, of batches that fail in part too; bounded logins, no login after a refusal, what `quit` removes; every call returns or dials for ever |
| `batches` | 3 messages (one not UTF-8), a window of 2, lists of up to 3 ids, 2 batches, with and without PIPELINING | replies in the order of the ids, one result for each id, room for every window, every pipelined batch returns, and a batch refines `BatchCall` |
| `pool` | 2 tasks, 1 account that may be registered twice, the second time with a builder that logs in by itself; 2 commands or replies queued on a connection | one connection for a registration, never lost, never shared, lent in step and after a NOOP while nothing was given up on it (the CAPA of its login included), every checkout returns, and a registration refines `AccountLock` |
| `upgrade` | every mode, login and port of a builder; connected directly, by the pool's manager, or by `connect_and_auth`; 3 commands | no secret in clear, nothing carried over, replies paired after an upgrade, failed upgrades are final, returned clients are logged in, `connect_and_auth` alone logs in twice |
| `sync` | 2 messages, plain and reconnecting client, crashes | nothing skipped, nothing fetched twice, except by a `retr_many` made again in a renumbered session; sync catches up |
| `stale_login`, `cut_message`, `silent_loss`, `rerun`, `fallback` | small | counterexamples to statements of the repository (section 5) |

**Bounds.** `MaxCommands` bounds the commands of a connection. A login with its probe takes three (APOP: two), so four
commands of `session` allow a login and a complete call, and longer histories without a login; the shortest way to an
unpaired reply needs two commands. Five commands of `deletion` allow APOP with its probe, two of DELE and RSET in any
order, and QUIT. Two messages are enough to delete one and not the other; message 1 has two lines, so a body can be
short by one; message 2 begins with a line that cannot be decoded, and a line after it remains. `MaxRetries = 1` has a
first attempt, a retry and a refusal after either. Three calls of `reconnect` are a deletion, a call that reconnects, and
a quit. In `batches`, a window of 2 and 3 ids give a full window and a short one, so the client writes again after it has
read; `SendRoom = 2` is the smallest connection the assumption allows; a second batch begins after each way the first
can end. In `pool`, two tasks are a holder and one that waits, and two registrations of one account are the least in
which an account can be removed and added again while it is in use (two accounts do not interact: a registration belongs
to one of them for ever); two commands on a connection are an abandoned one and the NOOP that its reply can satisfy. In
`upgrade`, 3 is the last command that may be begun by a call of its own; a connect goes on through STLS, USER, PASS and
the probe beyond it, so that a late reply to the first command is there when STLS is sent as the second (4 has been
checked too, with the same result). In `sync`, with two messages the second one changes its number when the first is
removed, which is when a number names another message, and when a `retr_many` that is made again fills `rerun`; the number
of sessions, calls and crashes is not bounded. Proved
theorems (section 4) hold for every value of these constants.

The largest runs have 1,318,584 (`reconnect`), 1,043,053 (`deletion`), 922,298 (`sync`), 357,864 (`session`), 161,651
(`pool`) and 136,584 (`upgrade`) distinct states.

**Fairness.** `Pop3Session!FairSpec` assumes weak fairness of the reads only. `read_line` wraps each read in
`tokio::time::timeout`, so a pending read ends by a line, an end of the connection, or the timer; nothing is assumed of
the server, the network or the caller. `Reconnect!FairSpec` assumes weak fairness of attempts, of the part of a login
that reads (both end by `CallReturns`), and of the pauses of the backoff, which are timers. It assumes nothing of
dialling: neither `TcpStream::connect` nor the TLS handshake has a timer, so `CallsEnd` says that infinitely often no
call is under way, or that a call dials for ever. `Pipeline!FairSpec` assumes weak fairness of the reads, as above, and
of `Flush`: the client's own task runs as long as the socket takes bytes. A flush has no timer, so `BatchEnds` rests on
`FlushHasRoom`, and is claimed only in sync and with PIPELINING. `Pool!FairSpec` assumes the timers:
`connection_timeout` around a checkout, and the timer of each read of a call on a guard. `Upgrade!FairSpec` assumes weak
fairness of the reads and, as the code has no timer there, nothing of the TCP connection and the TLS handshake;
`Sync!FairSpec` assumes weak fairness of the reads and nothing of `do_reconnect`; `CatchesUp` has it in its premise that
calls of `fetch_unseen` succeed again and again. In the first three, a continuous supply of answers cannot keep a call
alive, because each call reads finitely much: in the model, because the server answers a finite number of commands with
finite bodies.

**Deadlock** is checked in every run; a finished session (`Over`, `Done`) stutters.

**Properties**, with the reason each could fail:

* `NoForeignLine`, `OneOutstanding`: every path reads exactly its reply. An operation that returns before the terminator
  shifts all later replies by one, and no test that makes a single call sees it.
* `RetrievedWhole`: a connection that ends inside a body must be an error, and no line may be dropped.
* `SessionAgrees`: `Authenticated` is set between the second and the third command of a call that can fail after each.
* `NoSuccessOnceClosed`: `is_closed` is set deep inside `read_line` and read by nobody there.
* `QuitCommits`, `OnlyQuitExpunges`, `IsTransaction`: what the caller believes about deletions against what happened,
  whatever is lost, refused or cancelled on the way.
* `CallReturns`, `CallsEnd`: a silent server, or one that fails each login, must not hold a call for ever; the one wait
  without a timer is named.
* `OutcomeIsTruthful`, `QuitRemovesConfirmed`: over any number of reconnections, of batches some items of which succeed in
  either attempt, and of new connections that are out of step or lost from the start.
* `RefusalIsFinal`: the retry loop of one call. That it makes at most `MaxRetries` retries is part of `TypeOK`.
* `InOrder`: up to a window of replies is in flight, of one or many lines, refused or not; every path of the reading loop
  has to leave the next reply first, and a second window is written only on a quiet connection.
* `FlushHasRoom`, `BatchEnds`: client and server would wait on each other if a batch of any length were written first.
* `ResultsInPlace`, `IsOneByOne`: a failure in the middle of a window must fill exactly the places that remain.
* `OneClientPerAccount`: an account can be removed while a task waits with a clone of its pool, and added again; the
  property states exactly when two connections of one account can exist.
* `HeldByOne`, `IsLock`: a checkout can end in each of its steps, with a connection half lent.
* `Pool!RepliesAreOwn`, `LentAlive`: the next holder inherits the connection as the last one left it, and the only
  evidence that it works is a `+OK` that may be somebody else's: of a holder, of a checkout, or of the login.
* `CheckoutReturns`: everyone waits for one place, whose holder may never give it back.
* `SecretsStayPrivate`: between `connect` and `login` an upgrade can be refused, fail, or be cancelled, and so can an
  upgrade the caller makes later; in none of these cases may a login follow in clear.
* `NothingCarriedOver`, `Upgrade!RepliesAreOwn`: a line too many from the server and a late reply of a call that timed out
  before STLS look alike, and may arrive with the `+OK` or after it.
* `FailedUpgradeIsFinal`: after a handshake that failed half-way the TCP stream has TLS records on it.
* `ConnectIsAuthenticated`, `NoSecondLogin`: the login is made by the builder or by its user. What each of the three
  connecting functions returns follows from `client.state`, which the replies to the login have set by then; a second
  login is refused because of that state.
* `Upgrade!CallReturns`: every read on the way has its timer; the two waits without one are named in the property.
* `NothingSkipped`, `NoDoubleDownload`, `CatchesUp`: ids live for ever, numbers for a session, and a call may begin in one
  session and end in another; the caller's set must follow neither too early nor too late.

## 4. What is proved

Every safety invariant, action property and refinement that a passing run checks is also a theorem, for every value of
the constants that satisfies their assumptions. In most cases the property is not inductive; what follows says which
strengthening is, and why it is needed. `TypeOK` and the strengthenings were checked by TLC on the instances of section 3
before they were proved.

`Pop3Session_proofs` holds for any `Msgs`, `Content`, `Calls` and `MaxCommands` that satisfy the named assumptions of
`Pop3Protocol` and `Pop3Session` (`ArgumentsDistinct`: the special arguments are not messages and differ;
`ContentIsLines`; `CallsAreOps`; `BoundIsNat`). `Pop3Protocol_proofs` says what it needs of a reply: its lines, which of
them is last, that nothing but the terminator ends a message (`AcceptedReply`, `RetrievalReply`).

* `TypeCorrect`: `Spec => []TypeOK`. One step for each action; lemmas give the types of replies, of what a call returns,
  and of the queues after a loss or a torn read.
* `Pairing`: `Spec => []` of the inductive invariant behind pairing. `NoForeignLine` is not inductive: the next line is
  the right one only because nothing else is on the connection. The strengthening is `OneOutstanding` (between calls both
  directions are empty; within a call they hold the pending command or the rest of its reply, never both, and a
  terminator only at the end), with the type invariant. The server's step needs the shape of `Replies`; the end of a call
  needs that a terminator is last; a loss keeps a prefix; a torn read sets `abandoned`, after which nothing is claimed.
* `OneReplyOutstanding`, `RepliesArePaired`: its two conclusions.
* `ClosedIsFinal`: `Spec => NoSuccessOnceClosed`. The invariant is that `isClosed` implies the server session has ended
  and nothing is left to read, or the client is gone: then the only reads that remain are failures.
* `OnlyQuit`: `Spec => []OnlyQuitExpunges`, in step or not. `QuitInv` follows the QUIT from the call to the server: while
  one is on its way, or messages have been removed, the call is a `quit`, or it was the last call there will be. It needs
  `CallShape`, which relates the operation to the verb on the wire and to `state`.
* `LoginAgrees`, `CommitIsExact`: `Spec => []SessionAgrees`, `Spec => []QuitCommits`, both from `ServerInv`. Between calls
  client and server agree on the login and on the marks (`Agreed`). During a call they agree until the server has
  answered; then, if the answer on its way is `+OK`, the server is one step ahead, by exactly the effect of that command
  (`Accepted`), and if it is `-ERR` they still agree. After the end of the session (`Closed`) what is removed is what was
  acknowledged, and nobody is left who could call. That the answer belongs to this command is `Pairing`.
* `SessionIsTransaction`: `Spec => IsTransaction`, the refinement of `MaildropTransaction`, with the mapping `Phase`,
  `Deleted`, `Removed`. The client's steps are mapped to login, delete and reset when the reply is read, the server's
  step on QUIT to the commit: `ServerInv` gives that the marks are then the acknowledged ones.
* `RetrievalIsWhole`: `Spec => []RetrievedWhole`. `WholeInv` splits a message at the point where the client is: the lines
  it has are the first ones, all of this message, and the connection has the next ones, with the terminator where the
  message ends and nowhere else (`RestOf`). A loss takes the terminator with it, so the call fails; a connection that ends
  in the middle of a line is excluded by `cut`, for the reason that the run `cut_message` shows.

`Pipeline_proofs` holds for any `Window`, `SendRoom`, `IdLists` and `MaxBatches` under the same assumptions and
`WindowIsPositive`, `RoomForAWindow`, `ListsAreIds` (callers pass sequences of ids) and `BatchesAreNat`.

* `BatchesTypeCorrect`: `Spec => []TypeOK`. `TypeOK` bounds the counters: while a batch runs, fewer results than commands
  written, and no more commands than ids. That is what keeps every slice in range (`ChunkShape`: a chunk is not empty,
  within the ids and at most a window).
* `RepliesComeInOrder`: `Spec => []InOrder`. With `TypeOK`, `InOrder` is inductive. Its parts need each other: the
  server's step (`ServeInOrder`) needs `CommandsInOrder` to know which command is next and `RepliesAreWhole` to know
  that the line before is the end of a reply; the end of a window (`AdvanceInOrder`) needs the bound on `of` to conclude
  that nothing is left, and so that the next window is the only one on the connection (`WindowInOrder`); within a reply
  (`StaysInReply`) the next line is of the same reply. A loss keeps a prefix (`LoseInOrder`). A call that gives up sets
  `abandoned`, after which nothing is claimed.
* `WindowsFit`: `Spec => []FlushHasRoom`, from `Windowed` and `RoomForAWindow`.
* `ResultsAreInPlace`: `Spec => []ResultsInPlace`. `InOrder` pairs lines with commands; `BatchInv` adds what they are
  worth. `Bounded`: what a call may have returned, and that a pipelined batch that began in step and still runs is in
  step. `Counted`: the server has not read more than was sent, and, while it lives, all that earlier batches sent.
  `TruthInv`: commands name the message of their id; a line tells what the server decided on its command (`LineTrue`);
  a terminator stands as many lines after its `+OK`, or after the lines already read, as the message has
  (`ClosesWhole`); and a call that goes on after a failure, as the sequential fallback does, has nothing more to read
  (`NoFailure`). Then a result is worth what it says when it is added (`AnswerIsWorth`), and results that are filled in
  are failures (`FailBounded`).
* `BatchIsOneByOne`: `Spec => IsOneByOne`, the refinement of `BatchCall`, with the mapping `Size`, `Decided`, `Outcomes`.
  The server's steps are `Decide` (`Counted` bounds them by the ids, and begins them with the first), a reply read is
  `Deliver` of the decision on that very id (`AnswerIsDeliver`, from `LineTrue` and `NoFailure`), a failure is `Fail` for
  all that remain or for one (`FailingIsFail`). A batch begins with no decision made: all commands before it have been
  read, or never will be.

`Pool_proofs` holds for any `Keys`, `Tasks`, `SelfLogin`, `MaxPools` and `MaxQueued` that satisfy `BoundsAreNat` and
`NoneIsNone` (`None` is no task, no account, no registration and no client). Every action ends in `Become`, which takes
the next registry, tasks and clients and then drops the idle clients of pools nobody refers to. So the parts of the
inductive invariant `IInv` are stated of any registry, tasks and clients: a lemma for each action shows that it gives
good ones (`StepIsGood`, from what it does to a client, to a task, or to both), and one lemma that dropping keeps them
good (`KeptIsGood`).

* `PoolTypeCorrect`: `Spec => []TypeOK`, the part `Typed`.
* `OneClient`: `Spec => []OneClientPerAccount`. `Single` (`max_size(1)`, connecting included: one client for each pool)
  and `Registered` (a pool is the one its account has now, or was removed), neither of which can be seen from the clients
  of an account alone.
* `OneHolder`: `Spec => []HeldByOne`, from `Held`, which says in both directions that a client is taken exactly if a task
  has it, and that this task waits for its pool.
* `GuardsAreInStep`: `Spec => []RepliesAreOwn`, from `InStep`: while nothing was given up, a client that is not taken
  has nothing outstanding, that of a holder between calls neither, and one in a call or a NOOP has one command or one
  reply; and a server that has ended the session sends nothing more. A login gives the pool a client in step, one that is
  already lost, or one that is marked as given up (`AfterLogin`).
* `LentAfterNoop`: `Spec => LentAlive`. Only `Valid` lends (`OnlyValidLends`), and `InStep` makes the `+OK` it reads the
  reply to its NOOP.
* `PoolIsLock`: `Spec => IsLock`, the refinement. Two tasks that were given a connection of one pool, the NOOP included,
  are the same task (`Alone`, from `Held` and `Single`): that makes the mapped holder determined (`HolderFacts`) and the
  lock free when it is granted. `NextMoves` sorts the steps into ask, grant, give up, release and the rest, and
  `LockSteps` maps each of them.

`Upgrade_proofs` holds for any natural `MaxCommands` (`BoundIsNat`) and for any builder, which the model lets the caller
configure. Its inductive invariant is `ReplyInv`; the first three theorems need only its parts `Typed`, `Placed`,
`OnPlain` and `Layered`.

* `LoginsAreEncrypted`: `Spec => SecretsStayPrivate`. `Placed` says which operation may be under way on which stream:
  a client that is to be encrypted is on a plain stream only while it connects, for its greeting and for STLS, and a
  plain stream is one on which no handshake was begun. `ContinueExposes` reduces the rest to the order in which
  `connect()` goes on (`After`).
* `FailedUpgradeStaysFailed`: `Spec => FailedUpgradeIsFinal`, from `Placed`: nothing is read on the placeholder.
* `ClearStaysOutside`: `Spec => []NothingCarriedOver`. `OnPlain` says that STLS is sent and answered on a plain stream
  only. `Layered` says that the lines on the network are in clear up to the answer to a ClientHello and in TLS from there
  on, that there is one ClientHello at most and none once the server speaks TLS, and that the buffer is empty during a
  handshake, which is what the check in `upgrade_in_place` is for.

* `UpgradeIsCleanStart`: `Spec => []RepliesAreOwn`. Unless there was `trouble`, an operation that reads waits for one
  reply, in the buffer, on the network, or still to be given (`OneReply`); an idle client has nothing to come; and
  during a handshake there is nothing but the handshake (`InHandshake`). What could be left from before STLS is excluded
  twice: it is read, or the buffer is not empty and the upgrade is refused, or it is on the network and the handshake
  fails (`HelloLast`, `Layered`).
* `ConnectLogsIn`: `Spec => []ConnectIsAuthenticated`. `OpInv`: a `connect()` that goes on past STLS had no trouble, so
  the `+OK` it takes for its own is the answer to its own PASS or APOP, and `Waiting` says that the server has then
  logged it in.
* `OnlyReconnectLogsInTwice`: `Spec => []NoSecondLogin`. A connect is `Connected` until its PASS or APOP is answered
  (`OpInv`) and `Authenticated` in its probe (`Placed`). So neither the first login nor that of the manager, which its
  guard allows only while the state is not `Authenticated`, can be refused (`NoLoginLeft`); only a second one can
  (`SecondStep`), and then `Waiting` gives that the server has accepted the first.
* `UpgradeTypes`: `Spec => []TypeOK`, with the numbers of the commands (`IdInv`: a connect writes four at most).

`MessageNumbers_proofs` is about the numbers a server gives to a finite maildrop: `Rank` is a bijection from the messages
to `1 .. Cardinality` (`RankIncreases`, `Numbering`), so that a number in range names one message of the maildrop and the
listing of a session is in the order of arrival.

`Reconnect_proofs` holds for any finite maildrop, any deletions and any number of retries and calls (`MailIsFinite`,
`BatchesAreNumbers`, `BoundsAreNat`).

* `ClientIsSound`: `Spec => []` of `TypeOK` with the three parts of the invariant. `CallInv` says which stage of a call
  knows what (until a login has succeeded the client is the old one, and no login was refused); `SecondInv` that the
  second attempt is made in a later session with no marks; `SessionInv` that a connection in step is that of the session
  that holds the maildrop, and that what the caller was told is marked there is marked.
* `OutcomeHolds`, `QuitRemoves`, `RefusalEnds`: `OutcomeIsTruthful`, `QuitRemovesConfirmed` and `RefusalIsFinal`, from
  it. `SecondInv` is what makes `Reconnected` truthful, for a batch of which only a part was done too: nothing was
  marked before the second attempt, so what is marked after it is among its numbers. `SessionInv` is what makes `quit`
  remove all that was confirmed: the items a batch returned as Ok on a connection in step have been marked, in the
  session the caller is told of.

`Sync_proofs` holds for any natural `MaxMail`, and any number of sessions, calls and crashes.

* `TypeCorrect`, `SyncIsSound`: `TypeOK`, with `CallInv` (while a call runs, the caller's hands are empty),
  `MaildropInv` (what was handed over and is still there is in this session's listing), and, unless replies were
  `muddled`, `NumbersInv` and `BooksInv`. `NumbersInv` is the heart: the numbers the caller or the call holds name, in
  the current session, the messages of their unique ids, unless the call has been moved to a new session: then it is
  made again from its UIDL, or it is a `retr_many`, of which nothing is claimed but that its wrong pairs are in `rerun`.
  `BooksInv` is double-entry: what is seen was handed over, and what was handed over is seen, in hand, or forgotten in a
  crash, but for the pairs in `rerun`.
* `SkipsNothing`, `DownloadsOnce`: `Spec => []NothingSkipped`, `Spec => []NoDoubleDownload`, its two halves.

**Only model-checked.** Liveness needs fairness and `ENABLED`, which the prover does not have: `CallReturns` (of
`Pop3Session` and of `Upgrade`), `CallsEnd`, `BatchEnds`, `CheckoutReturns` and `CatchesUp` are checked on the instances
of section 3 only; of `BatchEnds` the safety part, that a flush has room, is `WindowsFit`. The five runs that expect a
violation are counterexamples and need no proof.

## 5. Where the code and its documents disagree

Five are runs that find a counterexample.

* `stale_login` / `AuthenticatedMeansAccepted`: `login` again after its USER timed out; the two late `+OK`s answer USER
  and PASS, and the state is `Authenticated` without an accepted password (`client.rs:419`).
* `cut_message` / `RetrIsComplete`: an EOF in the middle of a dot-stuffed line leaves a single dot, which ends the
  message: `retr` returns Ok with a short one (`client.rs:619`, `transport.rs:376`).
* `silent_loss` / `FreshMeansNoLoss`: `do_reconnect` succeeds and the repeated call fails; the error carries no
  `Outcome`, and the next call says `Fresh` in a session without the marks (`reconnect.rs:14`).
* `rerun` / `RerunDeletesTheSame`: a deletion run again in the new session uses the numbers of the old one; if the
  maildrop changed in between, another message is deleted (`reconnect.rs:505`).
* `fallback` / `RetrManyInOrder`: without PIPELINING, `retr_many` goes on after a timeout of one message
  (`client.rs:706`), and the late reply becomes the Ok result of the id after it, although `client.rs:648` promises the
  order of the input.

The models show some more, which no run states separately:

* `.planning/phases/02-async-core/02-RESEARCH.md:388` says that "on timeout, the whole transport becomes unusable
  anyway". It stays open, and the next call takes the late reply for its own: this is what `stale_login` and `fallback`
  are made of, and the reason for the `~abandoned`, `~trouble` and `~muddled` of the properties.
* `connect_and_auth` (`reconnect.rs:677`) calls `login` after `builder.connect()` has logged in with the credentials of
  the builder. `login` refuses with `NotAuthenticated`, which is not retried, so a `ReconnectingClient` with such a
  builder never connects, although the server has let it in. `pool.rs:114` has the guard that is missing there.
  `CallerLogsIn` models both, and `NoSecondLogin` says that this is the only way in which it can happen.
* `reconnect.rs:478` runs `retr_many` again "(RETR is idempotent)" with the numbers of the old session. If the maildrop
  changed in between, the results are those of other messages, returned as `Ok(Reconnected(v))` in the places of the ids
  asked for; the documentation of `Outcome` warns of lost DELE marks only. A caller that records the unique ids it asked
  for then holds as seen a message it never got, and fetches again one it got under another id; with three messages the
  one never got may still be on the server. `NothingSkipped`, `NoDoubleDownload` and `CatchesUp` exempt exactly these
  pairs (`rerun`). It is the fault of the run `rerun`, for a retrieval instead of a deletion.
* `login` returns Ok when its CAPA probe has timed out or met the end of the connection (`client.rs:424`): a new client of
  a `ReconnectingClient` or of a pool may be a reply behind before anyone has used it.
* After a timeout or `[SYS/TEMP]` the client's own session still holds the maildrop while `do_reconnect` logs in again,
  for the old client is dropped only when the new one takes its place (`reconnect.rs:297`). A server that keeps to one
  session at a time answers `[IN-USE]`, which is not retried: the call ends with that error (`LoginRefused`).
* `pool.rs:217` and `.planning/phases/08-connection-pooling/08-VERIFICATION.md:30` promise one connection to an account.
  After `remove_account` and `add_account` while a connection is in use there are two: `OneClientPerAccount` says so.
  `pool.rs:333` says that the connections of a removed account are discarded when they come back; a task that waits with
  a clone of the old pool is lent such a connection.
* A checkout that ends during its NOOP puts the connection back with the reply outstanding, so does a holder whose call
  timed out, and a login whose CAPA probe timed out gives the pool such a connection to begin with. The next NOOP is
  satisfied by that reply, and the new holder is one reply behind. `Pool!RepliesAreOwn` and `LentAlive` exclude exactly
  these three, by `abandoned`.
* A guard cannot be turned into the client that `quit(self)` needs, so no deletion made through a pool is ever committed.
* `builder.rs:144` applies the timeout "to every read on the connection": the TCP connection and the TLS handshake have
  none. A server that is silent in the handshake blocks `connect` for ever, in a pool the only place of its account, and
  a call of a `ReconnectingClient` that reconnects.
* `fetch_unseen` returns nothing if one message cannot be retrieved. A message that is never UTF-8 thus blocks all that
  are listed with it, for ever; `CatchesUp` assumes calls that succeed, and `unseen_uids` with `retr_many` is the way out.

## 6. Not modelled

MIME parsing (a pure call into `mail-parser`), the TLS streams (`InnerStream` forwards to tokio, rustls or openssl; which
of them is in place is in `Upgrade`), the parsers as functions on text, the lengths of the backoff, `Debug` output,
examples and tests. Undefined or unlikely sizes (a message larger than memory) are not considered. The modules are
composed by reading, not by instantiation: a session inside `Pool` or `Sync` would multiply their states, and what they
need of it (a call ends, its reply is its own while nothing was abandoned) is what `Pop3Session` shows.

## 7. Plan

1. *Done*: `Pop3Protocol`, `Pop3Session`, `MaildropTransaction`, `Reconnect`, `Pipeline`, `BatchCall`, `Pool`,
   `AccountLock`, `Upgrade`, `Sync`, their runs, and the theorems of section 4.
2. *Done*: every safety property and refinement of the runs as a theorem.
3. The measures behind liveness: that each read brings a call nearer to its end, as action properties that the prover
   can reach without `ENABLED`.
4. `Framing`: the parsers and the dot-stuffing as functions, against a reference definition over bounded inputs.
