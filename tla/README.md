# TLA+ models of drawlatch (mcp-secure-proxy)

The program has two processes. An **MCP proxy** (`src/mcp/server.ts`) runs beside
an agent and holds no secrets. A **remote server** (`src/remote/server.ts`) holds
the secrets, executes the proxy's requests, and collects events from outside
services for the agent to poll. They talk over HTTP through an application-layer
encrypted channel. This directory holds TLA+ modules of the parts whose
correctness depends on order, timing, failure or arithmetic at a boundary, TLC
configurations that check them, and TLAPS proofs of every invariant that is checked.

## Inventory

| Component | State | Operations | Talks to | What is hard | What makes it correct |
|---|---|---|---|---|---|
| Encrypted channel, `shared/crypto/channel.ts` | send counter, highest received counter, set of seen counters | `encrypt`, `decrypt` | its peer | packets reordered, repeated, late; the boundary of the window | at-most-once delivery; late packets within the window are not lost; the set is bounded |
| Handshake, `shared/protocol/handshake.ts` | ephemeral keys, transcript | `createInit`, `processInit`, `processReply`, `createFinish`, `verifyFinish` | the session layer, the proxy | messages lost, late, repeated, crossed or damaged, of several attempts at once | both ends agree on peer and keys; no dangling half of a handshake |
| Session layer, `remote/server.ts` | maps `sessions` and `pendingHandshakes`, rate windows | `/handshake/init`, `/handshake/finish`, `/request`, `checkRateLimit`, `cleanupSessions` | channel, handshake, tool handlers | two maps with two TTLs, a handler's `await`, restarts | nothing dangles, nothing leaks, no early loss, bounded rate |
| MCP proxy, `mcp/server.ts` | one `channel` variable shared by concurrent tool calls | `establishChannel`, `getChannel`, `sendEncryptedRequest` | remote server | races between awaits, retry after 401, timeouts | a call runs its tool at most once, returns, and recovers |
| Tool handlers, `remote/server.ts` | none | `http_request`, `list_routes`, `poll_events`, `ingestor_status` | routes, ingestor manager | route matching | the first matching route only |
| Ring buffer and base ingestor, `remote/ingestors/` | buffer, event counter, seen keys | `push`, `toArray`, `since`, `pushEvent`, `getEvents` | ingestors, manager | wrap-around, eviction, pruning of keys, reboots | cursors neither skip nor repeat |
| Ingestor manager | map of ingestors | `startAll`, `stopAll`, `getEvents`, `getAllEvents` | ingestors | `stopAll` while `startAll` runs | nothing runs after a stop |
| Poll ingestor | timer, error count, state | `start`, `stop`, `poll` | HTTP services | overlapping polls, `stop` during a poll, pruning of seen ids | no timer after `stop`; the state tells the truth; no item twice |
| Discord gateway | socket, sequence, session, timers | payload handlers, heartbeat, reconnect | Discord | events of replaced sockets, untracked timers, silence | bounded connections, a true state, a quiet stop that is final |
| Slack socket mode | socket, timer, attempts | envelopes, reconnect | Slack | `close` events, awaited URL | one live connection; "disabled" is final |
| Webhook ingestors | as base ingestor | verify, parse, filter, push | GitHub, Stripe, Trello | lost answers, retries, fan-out | an acknowledged event is in every buffer that verifies it, once |
| Tunnel, `remote/tunnel.ts` | child process | `startTunnel`, `stop` | cloudflared | exit, timeout and URL racing, a child killed by a signal | the process ends, and its tunnel before it |
| Start-up and shutdown, `remote/server.ts` | tunnel handle | `main`, `shutdown` | tunnel, manager | a signal during start-up, the forced exit, a taken port | every server that is told to stop does |
| Daemon CLI, `bin/drawlatch.js` | PID file | `start`, `stop`, `restart`, `status` | remote server | two commands at once, timeouts shorter than the server's | no live server the PID file does not name |
| Configuration, connections, keys, logger, registry | files | load, merge, save | all | - | pure data or start-up I/O |

`PROJECT.json` lists under `hazards` what is hard to test, at the line where it
bites, with the properties that cover it.

## Modules

**`AntiReplayWindow`** holds the arithmetic of `EncryptedChannel.decrypt()` as
operators on a record of `maxRecvCounter` and `replayWindow`: the checks before
decryption (`TooOld`, `Duplicate`) and the update after it (`Record`, `Prune`).
Both the channel and the server use it.

**`EncryptedChannel`** is one direction of a channel: a sender that encrypts, a
receiver that decrypts, and a set `net` of every packet ever sent, from which
anything may arrive, any number of times, intact or damaged. Each way `decrypt()`
ends is an action, in the order of the code. AES-GCM is abstracted to whether the
tag over counter and ciphertext is the sender's; a damaged packet may carry any
counter. Counters are natural numbers: the code's wrap at 2^64 is out of reach.

**`AtMostOnceDelivery`** is what the header of `channel.ts` promises, with neither
counters nor windows. `EncryptedChannel` implements it, and so does a webhook
ingestor's buffer, whose messages are the deliveries of a service.

**`Handshake`** is the mutual handshake: `HandshakeInitiator` as `establishChannel()`
drives it, `HandshakeResponder` as the two routes do. An attempt or a session stands
for the ephemeral key and the nonce it draws. Signatures, hashes and derived keys are
records of what goes into them, so that two are equal only if their inputs are; the
transcript is the pair of messages as each end saw them. Any message that was sent may
be received any number of times, by any attempt or session it could be meant for, as
it was or with one field damaged. The type of an init is neither checked nor signed,
and the transcript notices only later: that is in the model.

**`SecureChannel`** composes the two: the channel is used once an attempt is
connected, while other handshakes go on. `MCSecureChannel` gives the attempts owners.

**`SessionServer`** is the session layer of the remote server in an open
environment: any message may come for any session at any time, readable or not.
The maps are sets of ids; a timestamp is kept as its age, as the code only ever
computes `now - t`. `RequestUnknown`, `RequestLimited`, `RequestUnreadable` and
`RequestDispatched` are the ways `POST /request` ends up to the `await` of the
tool handler (401, 429, an encrypted error, a running handler); `HandlerReturns`
is the rest. Time advances in ticks and does not pass a due run of the cleanup
timer. A restart empties both maps. An unknown tool name, for which the code
throws after decrypting, is a handler that returns at once.

**`RateLimitHistory`** adds to `SessionServer` a history: how many requests were
admitted in each session within the last *a* ticks, for every *a* up to a window.

**`SecureProxy`** closes `SessionServer` with the proxy. Concurrent tool calls
share the module's `channel` variable; each call is cut into the steps between its
awaits: `Start`, `OnInitReply`, `OnFinishReply`, `OnResponse`. The server's actions
are those of `SessionServer`, joined with the message they answer. The network
delays, repeats, damages and loses messages; calls time out; the server restarts
and expires sessions. A timeout that loses a reply is a timeout before the server
answers. Damage is of messages to the server only; a damaged
init may be accepted all the same and leave a session whose keys, and id, differ from
the proxy's. A channel sends no more than `MaxCounter` messages, a bound that stands for
the code's 2^64.

**`RingBuffer`**, **`BaseIngestor`** are the data structures behind an ingestor, as
operators on records of their fields; loops over a sequence are recursive functions,
which can be expanded in a proof. **`EventPolling`** puts ingestors into the
manager's map, lets services deliver events with new, repeated and absent
idempotency keys, lets agents poll as the description of `poll_events` tells them
to, and reboots the server. The random key of an event without one is represented
by its id, which is as unique. `MCEventPolling` adds the symmetry of keys.

**`SlackSocketMode`** is the connection of the Slack ingestor: every listener, timer
callback and continuation after an `await` is an action. A socket is `connecting`,
`open`, `greeted` (its hello has come), `closing` or `closed`; `ws` is the field, and
any number of sockets may be alive beside the one it names, because the listeners do
not ask which socket they belong to. Likewise `timers` counts the armed reconnect
timers, and `reconnectTimer` says whether the field holds one of them: a second call
of `scheduleReconnect()` overwrites the handle of the first. `fetches` counts the calls
of `openConnection()` that await the URL. A closed socket stands for one not made yet.
A failing `fetch`, an answer without a URL and a missing token end alike and are one
action. Acknowledging and filtering events are left out; what becomes of an event is in
`BaseIngestor`.

**`DiscordGateway`** is the same for the Discord ingestor, whose `connect()` does not
wait and whose timers are all held by fields and cleared together; hence `timers` is a
set of field names. A socket goes from `connecting` over `open`, `greeted` and the
request `identify` or `resume` to `ready`; it may fall `silent`. `given` is the Gateway
session Discord serves on each socket, `discordSessionId` the field. A request goes to
the socket `ws` names, whichever was greeted; `delayed` counts the identifies and
resumes that wait after an invalid session, held by no field. `keyed` remembers, for
every event, the session its idempotency key names and the session it came from.
Sequence numbers are left out, as the code sets and clears them with the session id.

**`PollIngestor`** holds the timer, the polls under way (there may be several, since
`fetch` has no timeout) and both sides of `shouldPush`: the ids seen, pruned by half,
and the feed, which shows its newest items in either order. What a poll was answered
is fixed when the answer comes, and used when the poll ends. `SeenAssumption` relates
the page to the limit: see the remark on it below.

**`WebhookIngestor`** holds operators: the three signature schemes and what one request
does to a buffer. A signature is the record of what it was computed from. A request
has an age, for Stripe's tolerance, and a Trello signature covers the callback URL.

**`IngestorManager`** puts both under the manager: `startAll()` starts webhook
ingestors at once and awaits a poll ingestor's first poll, `stopAll()` may come at any
time, even before it. `POST /webhooks/:path` fans out to the ingestors in the map at
that moment, and the service repeats an event until an answer of 200 reaches it.
`MCIngestorManager` has two services post to five ingestors of one path: one with a
stale callback URL, one disabled, two that share a secret.

**`ServerProcess`** has the server as a process, from `main()` to its exit, with its
`cloudflared`: signals before and after the handlers are there, `shutdown()` that
waits in `stopTunnel()`, the forced exit, a port that is taken, crashes of either.
**`DrawlatchCli`** adds the commands, each cut where it waits or touches what other
commands touch: the PID file, the processes, the port.

Operators whose comment begins with *Mutant* are plausible wrong versions of the
definition that follows them. They are used by no specification; each exists so
that a property can be seen to fail on it.

## Runs

| Run | Checks | Bounds |
|---|---|---|
| `channel` | `WindowBounded`, `LateIsNotLost`, `ImplementsAtMostOnce`, `KeysAgree` | window 3, 6 messages; two attempts of two peers, two sessions |
| `sessions` | `PendingHasSession`, `UnusedIsReclaimed`, `AtMostTwiceTheLimit`, `EstablishedLastsUntilIdle` | one session, limit 3, window of 2 ticks, TTLs 4 and 1, cleanup every 2 |
| `proxy` | `CallRunsAtMostOnce`, `ServedOnlyWhenFinished`, `RetriesBoundedByLosses`, `CallsReturn`, `CallsRecover` | two calls, two faults |
| `polling` | `RingHoldsLatest`, `NoKeyTwiceInBuffer`, `EachPollGivesTheUnread` | buffer of 2, 3 seen keys, 3 keys, 5 events per boot, 2 boots |
| `polling_all` | finds `EachPollGivesTheUnread` violated | two connections, one agent |
| `slack` | `StateIsTrue`, `OneMorePerRefresh`, `QuietStopIsFinal`, `Settles` | four sockets, two attempts, three faults |
| `slack_stop` | finds `StopLeavesNothing` violated | as `slack` |
| `slack_link_disabled` | finds `LinkDisabledIsFinal` violated | as `slack` |
| `discord` | `StateIsTrue`, `OneMorePerReplaced`, `QuietStopIsFinal`, `Settles`, `SilenceIsNoticed` | three sockets, two attempts, four sessions, two faults |
| `discord_keys` | finds `KeysNeverCollide` violated | as `discord` |
| `ingestors` | `SinglePollsAreSound`, `AckedReachesAll`, `QuietStopIsFinal`, `WebhookIsBufferedOnce`, `EventsAreAccepted` | a poll ingestor with two polls at a time, three items, two remembered ids, two errors; five webhook ingestors, two events |
| `daemon` | `ServersAreKnown`, `CleanExitStopsTunnel`, `EverythingEnds` | two terminals, two server processes, one crash |

Each module's type invariant is checked as well; that of `SessionServer` is part of
`PTypeOK`, which `proxy` checks.

*Why these bounds are enough.* The window's logic depends on the difference
between a counter and the highest one; 6 messages with a window of 3 let a packet be
overtaken by fewer than, exactly, and more than the window. Two attempts and two
sessions let an init be served twice, replies cross, and one peer's session meet the
other's. The server's
code never relates two sessions, so one suffices in `sessions`, and `proxy` has up to
eight. A rate limit of 3 with a window of two ticks lets requests fall into different
windows within a minute, which is what the property is about; the session TTL is
shortened, and remains longer than the handshake's and than a cleanup period. In
`proxy` a fault is a restart, a tick (with TTLs of zero, enough to expire anything), a
timeout, a repeated or a damaged message; each hazard of the proxy takes two calls
and one or two of these. The event buffer goes round twice per boot, and the keys are
pruned while the buffer is full; the pruned half (2) is as large as the buffer, the
boundary case of `NoKeyTwiceInBuffer`.

In `slack` a fault is a disconnect message, a dropped connection or a refused URL.
Three of them let two refreshes overlap, a late close meet a newer socket, and the
attempts run out. There is always a closed socket for a URL to be turned into:
`OneMorePerRefresh` bounds the others by four.

In `discord` a fault is a reconnect message, a dropped or silent connection, a late
answer to a heartbeat, an invalid session that need not be, or a refused URL; two of
them make a replaced socket's close event meet its successor, and two live sessions. In
`ingestors` the feed shows one item and two ids are remembered, so that every item
after the second prunes; larger pages, whose product with the webhooks is too large for
a run, are left to the theorem. In `daemon` a command for each
terminal, a second server, and one crash of server or tunnel are what each hazard
listed for the CLI takes; processes are spawned at most twice, and a command that
spawns needs one left.

*Fairness.* `SecureProxy` assumes weak fairness of each proxy step, of the report of a
broken connection, of some message on the wire being served and of some handler
settling. Node's event loop runs every ready callback; `fetch` carries an
`AbortSignal.timeout` in the proxy (10 s and 30 s), and the server's own outgoing
`fetch` ends by undici's default timeouts. Nothing obliges an agent to make a call, a
timeout to strike, or time to pass. `SlackSocketMode` assumes that armed timers fire,
that a request for a URL is answered (undici's timeouts end it otherwise), that sockets
open and are greeted, and that a closed socket raises its close event; a bounded number
of faults can undo each of these, so `Settles` is about a network that calms down. The
same holds for `DiscordGateway`, whose timers include the heartbeat's and whose Discord
answers what is asked on a socket it serves, and closes one that never identifies; a
silent connection is under no obligation, which is what `SilenceIsNoticed` is about.
`IngestorManager` assumes that the server calls `startAll()`, that the first poll ends,
well or badly, and that the service repeats an event until it gets its 200.
`DrawlatchCli` assumes that a command goes on, since each of its waits has a limit, and
that ten seconds pass, after which a server told to stop exits. The other modules check
safety only.

*What the `proxy` run says about retries.* A 401 means that this copy of the
request was not run. A call can still run twice in one case, which
`CallRunsAtMostOnce` names: something between proxy and server repeats the HTTP
request, and the session is lost in between; one copy runs, the other is answered
401, and the proxy sends the call again.

*What `polling_all` shows.* Ids are unique per ingestor only, and
`getAllEvents` applies one cursor to all. An agent that omits `connection` and
passes the id of the last event it received, as the tool's description says, never
gets the events of another connection whose ids are lower. Polling each connection
by name is correct; that is what `polling` checks.

*What `slack_stop` and `slack_link_disabled` show.* `stop()` while `start()` or a
reconnect awaits the URL leaves a socket that is made afterwards and that nothing
closes; its hello sets the state back to `connected`. And `link_disabled`, after which
the code means to stop for good, closes the socket, whose close event schedules a
reconnect. The same close event follows a refresh, which has scheduled its own
reconnect already: a refresh can leave one connection more than there was.
`OneMorePerRefresh` states that this is all that is added, and `QuietStopIsFinal` when
`stop()` does what it promises.

*What `discord_keys` shows.* An event's key names the session in the field when it
arrives. A replaced socket's late close event schedules a second connection; both get
a session, and the events of the older are keyed with the id of the newer.

*Conditions in the other properties.* Some state what holds, and by their condition
what does not. Discord: `OneMorePerReplaced` counts the connection that the late close
event adds; `SilenceIsNoticed` holds while no socket was replaced, since that event also
clears the new connection's heartbeat, and before hello no timer watches at all; a rival
socket's READY undoes a non-recoverable close; an invalid session leaves the state at
connected while a new one is asked for. Manager: `QuietStopIsFinal` needs a `stopAll()`
that finds nothing under way, since `startAll()` and a poll that is awaited go on
afterwards; `AckedReachesAll` needs a secret in every ingestor in use (`AllVerify`),
since one without takes an event that is already too old for the others, and its 200
ends the repeats; `SinglePollsAreSound` needs polls that do not overlap. Daemon:
`CleanExitStopsTunnel` is about a tunnel `main()` knew of, since a shutdown while it
starts leaves its process behind; `EverythingEnds` needs the forced exit, since
`stopTunnel()` waits for a close event that a child killed earlier has already raised;
`ServersAreKnown` is about commands given one after the other, and about a port that no
server in the foreground holds: Express hands a `listen()` error to a callback that
ignores it, so that a server which never listens logs that it does, and the other one
answers its health check. Last, `restart` ends without starting anything if the server
dies between its two reads of the PID file, as `cmdStop` then exits the process.

Three more remarks made while modelling. `server.ts` line 500 says that a session "will
be activated on finish", but there is no such state: `/request` serves it from
`/handshake/init` on. `ServedOnlyWhenFinished` shows that the proxy never makes use
of that. And the "max requests per minute" of the README is a fixed window that
restarts at the first request after it ran out: `AtMostTwiceTheLimit` is the bound
that holds for an arbitrary minute. Last, remembering as many ids as a page has items
does not suffice to push no item twice: with items listed newest first, a prune in the
middle of a page can forget an item that the next page still shows, although it was
seen again. What suffices is that two pages that share an item are within the half that a
prune keeps (`SeenAssumption`); with the 10000 ids of the code, pages of up to 2501 items.
With pages of 3 and a limit of 6, TLC finds an item pushed twice.

## Proofs

Eight modules hold proofs. Every invariant and every action property that a run checks
is a theorem of one of them, for every value of the constants that satisfies the named
assumptions:

| Module | About | Theorems on the runs' properties |
|---|---|---|
| `SecureChannel_proofs` | `EncryptedChannel`, `Handshake`, `SecureChannel` | `TypeOK`, `WindowBounded`, `LateIsNotLost`, `ImplementsAtMostOnce`, `KeysAgree` |
| `SessionServer_proofs` | `SessionServer`, `RateLimitHistory` | `PendingHasSession`, `UnusedIsReclaimed`, `EstablishedLastsUntilIdle`, `AtMostTwiceTheLimit` |
| `SecureProxy_proofs` | `SecureProxy` | `PTypeOK`, `ServedOnlyWhenFinished`, `RetriesBoundedByLosses`, `CallRunsAtMostOnce`; that it implements `SessionServer` |
| `EventPolling_proofs` | `RingBuffer`, `BaseIngestor`, `EventPolling` | `TypeOK`, `RingHoldsLatest`, `NoKeyTwiceInBuffer`, `EachPollGivesTheUnread` |
| `IngestorManager_proofs` | `PollIngestor`, `WebhookIngestor`, `IngestorManager` | `TypeOK`, `SinglePollsAreSound`, `AckedReachesAll`, `QuietStopIsFinal`, `WebhookIsBufferedOnce` |
| `SlackSocketMode_proofs`, `DiscordGateway_proofs` | their modules | `TypeOK`, `StateIsTrue`, `OneMorePerRefresh` and `OneMorePerReplaced`, `QuietStopIsFinal` |
| `DrawlatchCli_proofs` | `ServerProcess`, `DrawlatchCli` | `TypeOK`, `ServersAreKnown`, `CleanExitStopsTunnel` |

*Assumptions.* A window of at least one counter; natural limits; a handshake TTL no
longer than the session TTL (30 s and 30 min); a finite number of sockets; a damaged
field that is no peer, attempt or session; a positive buffer capacity, no more than the
keys that a prune leaves where duplicates are concerned (200 and 501); pages as in
`SeenAssumption`; a webhook ingestor with a secret, where one buffer is looked at; and
agents that name their connection, since those that do not are what `polling_all` is
about. Each is an `ASSUME` that TLC evaluates on the runs, or stands in the theorem.

*Channel.* `LateIsNotLost` and at-most-once delivery are not inductive. `ChannelInv`
adds: counters number the messages sent (`Numbering`); a message is delivered at most
once and lies no higher than the highest counter (`DeliveredOnce`); and the seen-set is
exactly what was delivered and is still within the window (`SeenIsDelivered`). A packet
that comes again is then either still remembered or too old, which is all the refinement
needs: `Accept` maps to `Deliver`, `Encrypt` to `Send`, and the other ends of `decrypt()`
to stuttering.

*Handshake.* `HandshakeInv` says of what the keys of each end are made: an attempt's of
its own init and some reply signed over its nonce, a session's of its own reply and some
init signed by the peer it found. If then a finish message's id and payload fit, or the
answer comes, the two secrets and transcripts are equal field by field (`SharedKeys`):
the init was this attempt's and undamaged, so the peer is its owner. That sessions
differ follows from the ephemeral key in each (`ResponderKeysDiffer`).

*The two composed.* A step of `SecureChannel` is a step of one component and a stutter of
the other, so it implements both specifications (`Composition`), and all of the above
holds of it (`SecureChannelSafe`). Only the composition can say that nothing is sent on
keys the server does not hold (`NothingSentTooSoon`): a connected attempt stays
connected, and with `KeysAgree` has an established session.

*Server.* That a pending handshake has its session relates two maps pruned by different
tests in one action. The invariant says that a pending session has been idle no
longer than its handshake is old; with the assumption on the TTLs, cleanup that
removes the session removes the handshake. That nothing unused is kept needs the age
of the last cleanup: a session idle for longer than the TTL has become so since.
`NoEarlyLoss` is an action property that follows from the guards of the
only actions that shrink the map, and from established sessions not being pending.

*Rate.* A minute meets at most two of the fixed windows. The invariant says it of the
history (`CountsMatch`): as far back as the present window reaches, no more was admitted
than its count and its limit; farther back, at most one limit more; and a window that has
run out has admitted nothing since.

*Proxy.* That a tool runs at most once for a call joins four arguments, each a part of
`PInv`. A request is only ever sent on an established session (`OnEstablished`). What
is on the wire is no news to its call: it belongs to an earlier attempt, or names the
session and counter the call still holds (`Ordered`), and these belong to no other
call (`Numbered`). A call goes round again only after a 401, which means that the
session had been forgotten, so its attempts are bounded by the losses
(`LossesCounted`). And a repeated copy is refused by the anti-replay window, as long as
the session that recorded the first is there. Without repeats each attempt runs once
at most, and not at all if it was answered 401 (`RunOnceIfUnrepeated`); without losses
there is one attempt (`RunOnceIfNothingLost`).

*Proxy and server.* `SecureProxy` joins actions of `SessionServer` with the messages they
answer. That each such step is one of the open server's (`StepOfServer`) needs the
invariant in one place: a counter on the wire is within what the environment of
`SessionServer` may send. With `ProxyUsesTheServer` the server's theorems hold under the
proxy without being proved again (`ServerSafeUnderProxy`).

*Events.* The ring is related to the list of all events accepted in this boot
(`RingMatches`): slot by slot, modulo the capacity, the latest of them. Ids grow along
that list and from boot to boot, and an agent was given nothing above its cursor and, of
what is still buffered, everything up to it (`ReadUpTo`), whence a poll gives the unread.
That no key is buffered twice relates the list to the remembered keys (`Remembered`): they
are those of the latest events, all different, and at least as many as a prune leaves.
The recursive functions `NewerThan` and `PushItems` are treated by induction over the
natural numbers, in the form that the least counterexample leads to a contradiction.

*Poll ingestor.* An item that was pushed must be remembered while the feed can still
show it. `Remembers` says that it is, and `InOrder` why it will be: an id that was added
later is of an item less than a page older. So fewer than `2 * PageSize - 1` ids can be
added after an item that is still shown (`TooManyAfter` counts them as a set), and a prune,
which by `SeenAssumption` keeps that many, forgets only what is shown no longer. The loop
of `PushItems` leads from memories with these properties to others, item by item, in
either order of the page. Without an overlap the only poll under way is the one the state
is about (`Lone`), which makes the state true.

*Slack.* The safety properties together are nearly inductive. `IInv` adds that
nothing is under way before `start()`, without which the first request could be a
second one, and that only `stop()` makes a quiet stop. The lemma
`ScheduleReconnectType` says what `scheduleReconnect()` leaves in each of its three
cases; `SocketMade` and `SocketClosed` count the sockets for `OneMorePerRefresh`.
`ReportedStateIsTrue`, `BoundedConnections` and `QuietStop` are the three results.

*Discord.* The same argument, with `SendType` for what a request does to the sockets.
The quiet stop needs one more part, `NothingWithoutToken`: a delayed identify sets the
state to error if the token is missing, after `stop()` too; but then Discord was never
asked for a session, and no request is delayed.

*Manager.* `AckedReachesAll` and the quiet stop are nearly inductive; the latter needs
that the poll ingestor is in the map from the moment `startAll()` begins it
(`PollIsKnown`), so that `stopAll()` reaches it. An ingestor that verified a request
with a secret finds the delivery's key in it (`VerifiedHasKey`), so a repeat is known
as one; hence every request maps to a delivery of `AtMostOnceDelivery` or a stutter.

*CLI.* A server with a tunnel that was told to stop owes it an end: `Owed` follows the
debt from the signal over the wait in `stopTunnel()` to the closed port and the exit.
`ServersAreKnown` speaks of the moments between commands only; `Known` says what holds
during one (`Accounts`): a server that lives is in the PID file, save between its spawn
and `writePid()`; it is the one that the command has read or spawned; and there is none
when `start` spawns or `stop` removes the file. Servers that stop or die by themselves
preserve all of it, since only a spawn adds to what lives (`NoneIsBorn`).

*Only model-checked:* liveness, which no installed prover decides (`CallsReturn`,
`CallsRecover`, `Settles`, `SilenceIsNoticed`, `EventsAreAccepted`, `EverythingEnds`);
and `TypeOK` of `EventPolling` when an agent polls without naming a connection, where
the cursor comes out of a sort.

## Not modelled

The cryptographic primitives themselves, encoding and logging; configuration, key and
template files, which are read at start-up and merged as data; `executeProxyRequest`'s
choice of a route and its placeholders, pure functions over strings; `status`, `logs`,
`config` and `sync` of the CLI, which read, print or copy. `RingBuffer.clear` is called
nowhere. The branch of `/request` that deletes a session when encrypting an error fails
(server.ts 645-649) is not reached: encrypting a short JSON object does not fail.
PIDs are never reused in `ServerProcess`: in the program, a PID read from the file may
belong to another process after a crash, and nothing there can tell. A poll whose
`fetch` hangs for ever is outside the fairness of `IngestorManager`: it keeps every
later ingestor from starting.

## Plan

1. *Proofs*: an abstract specification of a gateway connection, with what Slack's and
   Discord's have in common, implemented by both; `TypeOK` of `EventPolling` without the
   condition on the agents.
2. *Route matching and placeholder resolution* as operators checked against a
   reference definition.
3. *Acknowledging* in `SlackSocketMode`: an ack goes to the current socket, whichever
   delivered the event, and is dropped while there is none.
