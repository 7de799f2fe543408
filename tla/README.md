# A TLA+ model of ocpp-ws-io

This directory specifies the repository in TLA+: the OCPP RPC client and server
over WebSocket of `packages/ocpp-ws-io` with its Redis cluster, its plugins and
its client for browsers, and the parts of the other packages that have a life
of their own: the protocol proxy, the smart charge engine, the simulated charge
point, the record of connections of the dashboard. TLC checks small instances,
TLAPS proves for every value of the constants all the safety properties that the
runs check but two, and the two refinements.

`PROJECT.json` lists the components, the runs, the source lines each definition
stands for, the slips of code each property catches, the findings and the
hazards. To check a run: `tlc -config MCCallQueue.cfg MCCallQueue`; to check the
proofs: `tlapm CallQueueProofs.tla`.

Contents: [the system](#the-system), [the plan](#the-plan),
[modules and code](#modules-and-code), [runs](#runs), [bounds](#bounds),
[fairness](#fairness), [proofs](#proofs), [findings](#findings),
[what is not modelled](#what-is-not-modelled).

## The system

Source paths are below `src/packages/ocpp-ws-io/src/` unless they say more.

Everything runs on event loops of Node or of a browser: one task at a time in a
process, so a piece of code without `await`, callback or event is atomic. The
hard behaviour is between the pieces: code after an `await` uses what was read
before it; timers, socket events and promise continuations come in any order;
an event handler of the application runs in the middle of a method; connections
break at any point; and between processes there is only Redis.

| Component | State | Operations | Talks to |
| --- | --- | --- | --- |
| Call queue, `queue.ts` | `_concurrency`, `_running`, `_queue` | `push`, `_drain`, the `finally` callback, `setConcurrency` | pushed to by `call`, the retry loop and the offline flush |
| Client connection, `client.ts` | `_state`, `_ws`, `_reconnectAttempt`, `_reconnectTimer`, `_closePromise` | `connect`, handshake events, `_onClose`, `_scheduleReconnect`, `close`, `_closeInternal` | the `ws` library; all other parts of the client read `_state` and `_ws` |
| Outgoing calls, `client.ts` | `_pendingCalls`, `_offlineQueue`, `_outboundBuffer`, the retry loops | `call`, `callImmediate`, `_callWithRetry`, `_sendCall`, `_handleCallResult`, `_handleCallError`, `_flushOfflineQueue`, `_rejectPendingCalls`, `reconfigure` | the call queue, the connection, middlewares |
| Backpressure queue, `client.ts` | `_backpressureQueue`, its timer | `_safeSend`, `_startBackpressureDrain`, `_cleanup` | `bufferedAmount` of the socket |
| Keep-alive, `client.ts` | `_pingTimer`, `_pongTimer`, `_lastActivity` | `_startPing`, `_stopPing`, `_recordActivity`, the `pong` listener | the socket, which it terminates |
| Incoming calls, `client.ts`, `server-client.ts` | `_pendingResponses`, `_badMessageCount`, `_inboundChain` | `_onMessage`, `_handleIncomingCall`, `_onBadMessage`, `_processInboundMessage` | handlers, plugins, the worker pool, the validator |
| Server registry, `server.ts` | `_state`, `_clients`, `_clientsByIdentity` | `_handleUpgrade`, the `close` listener of a client, `close`, `listen` | routers and middlewares, the cluster adapter |
| Authentication of an upgrade, `server.ts`, `router.ts` | locals of one upgrade: `authCalled`, the abort signal, the timer | the middleware chain, `accept`, `reject` | the auth callback of the application |
| Routing, `radix-trie.ts`, `router.ts`, `server.ts` | the trie, the lists of routers | `route`, `insert`, `freeze`, `match` | every upgrade |
| Rate limits, `server-client.ts`, `server.ts`, `adaptive-limiter.ts` | token buckets per address, connection and method, a multiplier | `_checkRateLimit`, the bucket of `_handleUpgrade`, the sweep, `_sample` | every upgrade and message |
| Cluster, `server.ts`, `adapters/redis/` | presence keys and streams in Redis, `_pendingRemoteCalls` | `sendToClient`, `_onUnicast`, `_publishRemoteResult`, `_refreshPresence`, `_rehydratePresence` | other nodes, through Redis |
| Redis streams, `adapters/redis/index.ts` | `_streams`, `_streamOffsets`, `_handlers`, `_closed`, the pool | `publish`, `publishBatch`, `subscribe`, `unsubscribe`, `disconnect`, `_pollLoop` | Redis |
| Worker pool, `worker-pool.ts` | `_pending`, `_workers` | `parse`, respawn, `shutdown` | worker threads; the inbound chain of a server client awaits it |
| Circuit breaker, `plugins/` | a circuit for each station in a bounded map | the call middleware, `onConnection`, `onDisconnect` | calls of the server to a station |
| Replay buffer, `plugins/` | a list in Redis, one flush loop per connection | the call middleware, `onConnection` | Redis, calls of the server |
| Message deduplication, `plugins/` | a claim and an answer in Redis for each message | `onBeforeReceive`, `onBeforeSend` | Redis, incoming calls |
| Event export, `plugins/async-worker.ts` | `queue`, `active`, `dropped`, `accepting` | `enqueue`, the drain of `onClosing`, `onClose` | brokers, behind seven plugins |
| Records of connections, `plugins/`, `packages/ocpp-ws-board` | counts; start times, spans and records by identity | hooks on connection, eviction, disconnect; requests of administrators | the registry calls them |
| Browser client, `browser/` | as the client | as the client | the WebSocket of browsers |
| Protocol proxy, `packages/ocpp-protocol-proxy` | upstream clients by identity, sessions with translated ids | connection handling, the core preset | a server and many clients |
| Sessions, `server.ts`, `lru-map.ts` | `_sessions`, with a limit and an age | the copy at an upgrade, `_updateSessionActivity`, the collector | `client.session` of the application |
| Smart charge engine, `packages/ocpp-smart-charge-engine` | sessions, settings, `_dispatching`, the timer | session and setting methods, `optimize`, `dispatch` | a function that sends profiles |
| Simulated charge point, `packages/cli/src/simulator` | state of engine and connector, the active transaction, pending requests, timers | keys, requests of the CSMS, `boot`, `startTransaction`, `stopTransaction` | a CSMS |
| Event buffer, alerts and formats of plugins, validation, framework bindings, drivers, front ends | small | | see [what is not modelled](#what-is-not-modelled) |

What makes each of them correct, and what is hard about it:

* **Call queue.** No slot is lost or given back twice, no call waits while a slot
  is free, calls start in order. The slot comes back some microtasks after the
  caller has its result, and the limit changes meanwhile.
* **Client connection.** One socket at a time; a state that tells the truth; a
  `close()` that resolves, and means it; reconnection that ends. `close()`
  suspends in its middle, may be called twice, during a handshake and between
  reconnections; handlers run before the code that emitted has finished.
* **Outgoing calls.** Exactly one of answer, timeout, abort, failing send and lost
  connection settles a call and removes its entry; nothing is sent twice; every
  call settles. There are five places a call can wait in, each with its own way out,
  and the error of a send may come when its attempt has long ended.
* **Backpressure queue.** Order, and one fate per message, over connections that
  come and go while one timer drains a queue that belongs to the client.
* **Keep-alive.** Only a silent connection is terminated, and a silent one is.
* **Incoming calls.** The guard against duplicates leaves with the handler; the
  server dispatches in wire order, whatever plugins and parser await.
* **Server registry.** Two collections, the sockets and the cluster agree while
  replaced connections close late; the cap; `close()` ends and leaves no client, unless the
  `close()` of a client does not.
* **Authentication.** Nothing is upgraded that was not accepted, in time, on an
  open socket, though timeout, abort and a late `accept()` race; each ends.
* **Routing.** A path finds exactly the patterns that fit it, whatever was
  inserted, in whatever order, before and after the first match.
* **Rate limits.** No burst passes more than a bucket and its refill, although
  buckets are swept, made anew and refilled at changing rates.
* **Cluster.** A forwarded call settles once, its request is handed over once, and
  the registry finds its way back to the truth after crashes and blackouts.
* **Redis streams.** What is read is read once, in order and without a gap, over
  reads under way while the channel is unsubscribed and subscribed again.
* **Worker pool.** Every parse settles, whatever crashes.
* **Plugins.** The circuit counts its calls while connections of a station come and
  go; buffered commands are in one place and not sent twice, by loops of two connections; a
  repeated message is executed once and answered; no exported event vanishes
  uncounted; what is remembered of a station is about the right connection.
* **Sessions.** A station finds again what its last connection left, though events of
  old connections come late, the map has a limit and idle sessions are collected.
* **Proxy.** A number of the station and a UUID of the CSMS stand for one
  transaction, though answers are late and connections replace each other.
* **Smart charge engine.** Shares are fair and fit the grid; runs of the
  dispatcher do not overlap, and none that was asked for is forgotten.
* **Simulator.** It knows the transaction it has open, and stops it once.

## The plan

All modules of the plan are written. In their order:

1. `CallQueue`, `CallQueueProofs`: the smallest part, used by every call.
2. `ConnectionView`, `ClientConnection`: what the rest of the client may rely on
   about its connection, and the code, which implements it.
3. `RpcCalls`: calls, composed of `ConnectionView` and `CallQueue`.
4. `SendBuffer`, `KeepAlive`, `InboundCalls`: the rest of a connection.
5. `NodeView`, `ServerRegistry` and `Cluster`.
6. `CircuitBreaker`, `WorkerPool`, `ReplayBuffer`, `MessageDedup`, `AsyncWorker`,
   `ConnectionRecords`: workers and plugins.
7. `RateLimits`, `Routing`, `Handshake`, `Sessions`: the rest of an upgrade;
   `RedisStream`: the rest of the adapter.
8. `ChargingProfiles`, `SmartCharging`, `ProxySessions`, `BrowserClient`, `Simulator`:
   the other packages.
9. `ClientConnectionProofs`, `RpcCallsProofs` (an instance of `CallQueueProofs`),
   `ServerPartsProofs`, `ClusterProofs`, `LivePartsProofs`, `SafePartsProofs` and
   `SmartChargingProofs`: the same properties for every value of the constants.

## Modules and code

Composition: `RpcCalls` contains an instance of `ConnectionView` (its `View`) and
one of `CallQueue` (its `Q`), and all of its steps are made of theirs and its
own. `ClientConnection` implements `ConnectionView` under the refinement mapping
of its `View`. `ServerRegistry` implements `NodeView` under its own `View`.
`Cluster` describes what a node knows of its stations by that promise: a set of
identities, one presence command in each step that changes it. `SmartCharging`
extends `ChargingProfiles`, the functions it dispatches the results of. The
other modules share no state with each other in the code either: plugins,
packages and the browser client meet the rest through calls and hooks, which are
their actions.

Definitions with a suffix (`Release_SlotLeak`) are slips a change to the code
could make. They are part of no specification; each is listed in
`PROJECT.json` with the property that catches it.

**`CallQueue`** (`queue.ts`). A task is a pushed function. `Push`, `Settle` (its
promise settles and the caller is told), `Release` (the `finally` callback),
`SetConcurrency`; each but `Settle` drains, by the operator `Drain`, all of the
while loop at once, because nothing in it awaits. The function of a task is run
in the loop; what it does is up to the modules that use the queue.

**`ClientConnection`** (`client.ts` 298-512, 1500-1608). A step is a task of the
event loop: a socket event, a timer, a call of the application. What a task
leaves to do after it has emitted an event, or for a promise continuation, is
the variable `cont`; `NextTask` says when another task may start. So `_onClose`
is `SocketCloses`, then `AfterDisconnect`, then `Arm`; the failed handshake of a
reconnection is `HandshakeFails`, then `AfterFailedReconnect`. `close()` is
`CloseNow`, `CloseAgain`, or `CloseGracefully` and `CloseProceeds` around the
await of pending calls. `orphans` are timers that still run although
`_reconnectTimer` was overwritten, which is proved never to happen; `closePromise` has the value `resolved` for
the promise that a synchronous `_closeInternal` leaves in `_closePromise` after
`_cleanup` has cleared it. Sockets have the states of the `ws` library; a socket
the server refused with an HTTP status stays as it is, since the library leaves
it to the listener of `unexpected-response`. Calls are counted, those a
`close()` waits for apart from the others. Event handlers of the application
are taken not to call `connect` or `close` themselves (see the findings).

**`ConnectionView`**. Two variables, `_state` and what the current socket is good
for; eight steps. It is the contract between connection and calls, and it
includes what a user would not expect: a client that is `CLOSING` may become
`OPEN` (the handshake succeeds during `close()`), a `CLOSED` one `CONNECTING`
(the reconnection that goes on).

**`RpcCalls`** (`client.ts` 704-981, 1349-1447, 1500-1522, 1610-1670). An attempt
`<<c, n>>` is the n-th sending of call `c`, with a message id of its own unless
the call has an `idempotencyKey`. `phase` is what the caller waits for or was
told; `slot`, `waiting`, `running`, `concurrency` are the call queue. Starting
an attempt and sending it are two steps, as middlewares may await; an answer is
looked up twice, before and after its middlewares (`Answer`, `Resolve`). `Open`
is `onOpen`: the offline queue goes onto the call queue and the buffer onto the
wire in one task. `Lose` is `_rejectPendingCalls`. `CallImmediate` passes the
queue by. `backlog` is what the backpressure queue holds of calls, each with its
callback, which is called once: with success by the tick that writes it (`Drains`),
with an error when its socket is no longer open (`DrainFails`). That callback
deletes the entry under its message id whether or not its attempt still waits
(`client.ts:950-956`), so that with an `idempotencyKey` a retry may lose its entry.
`stale` is a timer that was started for an earlier socket. Bytes `ws` has accepted
but not written fail when the socket breaks; what their callbacks remove before
`_rejectPendingCalls` runs is left open (`Displaced`).

**`SendBuffer`** (`client.ts` 1680-1775, 2019-2026). A message has a number. The
timer of the queue remembers the socket it was started for, as the closure in
`_startBackpressureDrain` does. A tick sends any number of messages: how many
the socket takes, and which of them have waited ten seconds, is left open.

**`KeepAlive`** (`client.ts` 1779-1836, the listeners in `_attachWebsocket`, and
`_onClose`). Time passes in ticks, and a timer that is due fires before the next
one. The options are chosen in the initial state. `idle` is the time since
`_lastActivity`, which a new connection does not reset and which starts out as
ages ago, as zero does in the code. `pong` is the timer `_pongTimer` refers to,
`lost` those that were overwritten while they ran. The marks on a timer
(`heard`, `old`) are there for the property.

**`InboundCalls`** (`client.ts` 1089-1347, 1451-1496; `server-client.ts` 157-296).
An arrival is a message on the wire; a repeated CALL is another arrival with the
same id. On the server side arrivals first pass the chain of promises
(`Preprocess`), one at a time. What a plugin, the rate limit, a middleware or
the schema decides is a choice.

**`ServerRegistry`** (`server.ts` 817-1427, 1561-1707). An upgrade is checked
(`Upgrade`), authenticates if there is something to wait for, and registers in
one task (`Register`), which evicts the client found under the identity.
`Closed` is the `close` event of a client, which may come long after its
eviction. `close()` of a client that has calls in flight is "awaiting"; when they end
without telling it (`CallsEnd`: a timeout, an abort, a failing send, see
`close_hangs`) it is "unheard", and "stuck" when its socket has closed, for then
nobody emits `close`. The phases of `close()` of the server are the values of
`closeStep`, one for each await. `presence` is the last word to the adapter on each identity.

**`NodeView`**. Identities become connected and are announced in one step, and are
disconnected and withdrawn in one step.

**`Cluster`** (`server.ts` 1812-2232, `adapters/redis/index.ts`). Commands of one
node reach Redis in order, those of two nodes in any order. `Crash` forgets all
memory and the commands under way; a process that starts again draws a new id
and so is another node. `publish()` may reject whether or not Redis has the
message. That a node reads its stream once and in order is what `RedisStream`
says, but for a Redis client that sends a command again.

**`RedisStream`** (`adapters/redis/index.ts`). Messages are numbered; an entry of
the stream has an id and a message. `Executed` appends one and may trim, `Resent`
is a lost connection of the publisher whose client sends commands again that
Redis had executed, `Failed` one that never reaches Redis. The poll loop is
`Turn` (take the streams of this moment), `Read`, `Handle`; `unsubscribe` and
`subscribe` may come between them. `missed` accounts for every loss.

**`WorkerPool`** (`worker-pool.ts`). `posted` and `answers` are the two directions
between the threads; a crash is seen by `Exited`, which fails the tasks of the
worker and starts another at its index, or leaves a dead one there.

**`CircuitBreaker`** (`plugins/circuit-breaker.ts`). The middleware of a connection
keeps the circuit it found; the map may have lost it or hold another.

**`ReplayBuffer`** (`plugins/replay-buffer.ts`, `client.ts` 949-981, 1500-1522,
1715-1749). A call admitted by an open client
runs later (`Runs`), when the client may have closed: then the plugin puts it on the
list (`Stores`). An open socket is given the message, or the message waits in the
`backlog` until the socket takes more (`Drains`); a socket that closes fails it
(`DrainFails`, `Closes`), and most of these errors are none that the plugin takes
for a closed connection's. Each connection has a loop that takes commands off the list
and makes calls of them. `misread` counts errors of commands that were written whose
text makes the plugin believe the connection closed; `lost` are commands dropped
unwritten, or in doubt, after their callers were told that they are queued.

**`MessageDedup`** (`plugins/message-dedup.ts`, `server-client.ts` 196-296). One
CALL and its copies; claim and cached answer are keys that expire apart.

**`AsyncWorker`** (`plugins/async-worker.ts`). Tasks are numbered; `closing` is the
hook `onClosing`, whose timer goes on after a drain that ended (`drainTimer`).

**`ConnectionRecords`** (`plugins/connection-guard.ts`, `metrics.ts`, `otel.ts`, the
exporters, `ocpp-ws-board/src/external/`). One step of the server calls the hooks
of all plugins, so `Connect` and `Closes` change all of their state. An evicted
connection is `leaving` until its event comes. `Ask` and `AskEnds` are the two
halves of a request to the dashboard around `await client.close()`.

**`Handshake`** (`server.ts` 1095-1300, `router.ts` 23-55). Middlewares nest: `at`
is the depth that has begun, `dir` whether it runs, has returned or thrown.

**`Routing`** (`radix-trie.ts`, `server.ts` 451-484, 905-997). `Insert` and
`MatchFrom` are the loops of the trie; the property says what a path must find
without a trie.

**`RateLimits`** (`server-client.ts` 76-122, `server.ts` 850-888, 1546-1557,
`adaptive-limiter.ts`). Tokens are fractions, so that all refills are whole
numbers. `kept` is the bucket as it would be had it not been swept.

**`Sessions`** (`server.ts` 152-170, 1325-1343, 1524-1538, `lru-map.ts`). The map refers
to the session object of a connection, so `Writes` needs no step to save. `Message`
is possible for every connection there ever was: handlers and chained messages
go on after the end. `lost` marks stations whose session was collected, pushed
out or replaced by that of an older connection since the last message.

**`ChargingProfiles`, `SmartCharging`** (`ocpp-smart-charge-engine`: `engine.ts`,
`strategies/`). Power is in hundredths of a kW, the unit to which the code
rounds. `WaterFill`, `BuildProfile` and `EnforceGridBudget` are the functions of
the source, the first as an iteration over its state; `Slips` are the values at
which rounding a floating point number down a second time loses a hundredth. `sent` are requests
to the dispatcher with the run they belong to. The dispatcher is taken never to
throw synchronously.

**`ProxySessions`** (`ocpp-protocol-proxy`: `proxy.ts`, `presets/core.ts`). A
connection and the upstream client made for it; the session of an identity, which
both of two connections use; `owner` and `station` remember which transaction a
UUID and a number stand for.

**`BrowserClient`** (`browser/client.ts`, `browser/queue.ts`). As the client for
Node, written apart and simpler: no tasks between `emit` and what follows it.

**`Simulator`** (`cli/src/simulator/Engine.ts`). A run is a method that waits for
the answer to a call. Answers, timeouts, the CSMS, keys and timers start and
continue them side by side. `crossed` marks that starts or stops overlapped.

## Runs

Eight runs pass, four find a disagreement. Every property of a passing run has a
slip of the code that TLC finds with the same configuration, so no bound hides
what it is about.

| Run | Instance | What it shows |
| --- | --- | --- |
| `call_queue` | 4 tasks; limits -1, 1, 2, 3 | `SlotAccounting`, `NoIdleSlot`, `StartsInOrder`, with resizes at any time. Four tasks fill three slots and leave one waiting, or two of them waiting behind two. |
| `connection` | 3 sockets, 2 reconnects, 2 pending calls, HTTP refusals | `StateIsTrue`, `CloseMeansClosed`, `CloseResolves`, `ReconnectingEnds`, and `ViewImplemented`. A socket can be used again after it is gone, so three are enough for the current one, an old one and one more if the code allowed it; `StateIsTrue` says it does not. Two reconnects have a first, a last and none left. |
| `close_hangs` | the same, without refusals | finds `EveryCloseResolves` violated. |
| `rpc_calls` | 2 calls, one keyed, one retry each, limits 0 and 1, offline queue of 1 | `CallsExact` and `EveryCallSettles`, over any number of connections. Two calls contend for a slot, overflow the offline queue and share the buffer and the backpressure queue. A limit of 0 acts as 1 (`queue.ts:20`); what resizing does to calls under way is the subject of `call_queue`, and the theorem is for every limit. |
| `late_send_error` | 1 keyed call, one retry, no offline queue | finds `LossIsTold` violated. |
| `server_parts` | the registry with 4 upgrades, 2 of one station, cap 2, all routes waiting in an authentication, or none; the send buffer with 4 messages, 3 connections; the incoming calls with 3 arrivals, 2 ids, bad after 2, for a reconnecting client and for the server side | `CollectionsExact`, `NodeViewImplemented`, `GuardsHold`, `CloseEnds`: evictions, late closes, close and listen again in any order. `WrittenInOrder` and `OneFate` of the buffer. `InboundExact` of incoming calls; three arrivals are a CALL, its duplicate and the duplicate's duplicate. `MessagesEnd`: no message waits for ever in the buffer or in the pipeline. |
| `cluster` | 2 nodes, 1 station, 1 call, 3 connections, 2 commands under way, 1 blackout | `RequestsExact`, `SettledIsFinal`, `ClusterSettles`, with crashes and lost answers. Stations and calls do not interact but through their node's stream and commands, of which one call and a moving station make all kinds. |
| `smart_charging` | 3 transactions, 3 kinds of terms, 2 grid limits, 2 margins, 3 strategies | `FairShare`, `WithinGrid`, `OneRunAtATime`, `RequestsServed`. |
| `replay_loses` | 2 commands, 2 connections, no error misread, Redis without failures | finds `QueuedIsKept` violated. |
| `late_routes` | 2 routers, patterns added late | finds `LateRoutesTaken` violated. |
| `safe_parts` | eight parts, see below | `PeersWatched`, `BreakerSound`, `NumbersMatch`, `LimitsHold`, `RoutesMatch`, `TransactionsKept`, `RecordsTrue`, `SessionsKept`. |
| `live_parts` | seven parts, see below | `ExecutedOnce`, `CommandsKept`, `ClientSound`, `UpgradeJustified`, `WorkKept`, `StreamExact`, and for all of them and the pool `PartsSettle`. |

A property of a run is usually a conjunction of named parts, each with its own
comment in the module: `CallsExact` is `PendingExact`, `SlotsHeld`,
`OfflineExact` and `SentOnce`;
`ClusterSettles` is `CallsSettle` and `PresenceConverges`; and the type invariants are conjuncts of the invariants of their modules.

`server_parts`, `safe_parts` and `live_parts` are disjoint unions: `part` chooses in the initial
state which module a behaviour is of, the other modules stay in an initial
state, and each property speaks of its own part. The parts share no state in the
code, so nothing is gained from interleaving them, and nothing is lost.
`safe_parts` holds those that promise only safety; transactions of the proxy and
methods of the simulator are interchangeable there, and nothing but invariants is
checked, so the symmetry is sound. In `live_parts` everything that can begin is
bounded, so "each thing that begins ends" is `<>[]` of "nothing waits" under the
fairness of the part (`PartsSettle`); a part at rest has no fair step.

## Bounds

Each is a constant with a comment in its module.

| Part | Bounds | Why they are enough |
| --- | --- | --- |
| connection | `MaxPending` 2 | calls a `close()` waits for, and others |
| send buffer | `MaxMessages` 4, `MaxSockets` 3 | two written, two waiting, over an old connection, the current and the next |
| keep-alive | interval 4 ticks, jitter 3 to 5; timeouts none, 2 and 5; ages and pings in flight saturate | unbounded in time; 5 is the default, above the interval, where timers overlap, with 2 they do not |
| inbound | `MaxArrivals` 3 | see the run |
| cluster | `MaxCommands` 2, `MaxConnects` 3, `MaxBlackouts` 1 | a station leaves, comes elsewhere, and back |
| circuit breaker | 3 calls, 2 connections, 2 circuits, threshold 2, concurrency 2, failures counted to 3 | one call too many; one circuit in the map and one held by a connection |
| proxy | 2 transactions, 2 connections, 2 UUIDs, 2 numbers, 2 calls at once | an old and a new connection, each with a transaction |
| rate limits | limit 2, window 3, 1 by method, 6 ticks | two windows, so that a bucket empties, refills and is swept |
| routing | 2 routers, 2 patterns among literals, parameter, wildcard and a RegExp | any two patterns in conflict or overlap; a third adds no new relation between two |
| simulator | 2 methods under way, 2 transactions, 2 sockets, 1 timer of each kind | two methods overlap, on two connections |
| records | 2 stations, 4 connections, guard limit 2, 1 request | a station evicted twice next to another one |
| sessions | 3 stations, 4 connections, 2 sessions kept for 1 tick, 1 write | two connections of one station; one session too many |
| worker pool | 4 messages, 2 workers, 3 pending, 2 crashes | a refused parse, a crash of each worker or twice of one |
| deduplication | 3 copies, 2 failures, 2 losses | the claimed one, one that waits, one after expiry |
| replay buffer | 2 commands, 2 connections, 1 misread error, 1 failure | two loops on one list, a backlog of one message behind another |
| browser client | 3 calls, limit 1, 2 reconnects, 3 sockets, 2 closes | as `connection` |
| handshake | 2 middlewares | one around another |
| async worker | 6 tasks, 2 at a time, 2 waiting | two overflows |
| Redis stream | 2 messages, length 1, pool up to 2, 2 subscriptions, 2 errors | a message trimmed or sent again behind another, read around a new subscription |
| smart charging | power in 1/100 kW, shares exact in 4800 parts of it | three sessions, of which one is at its cap and two share |

Runs with such bounds, and runs in which all calls can settle or all sockets be
gone, may stop: they have `CHECK_DEADLOCK FALSE`. `call_queue` and
`smart_charging` cannot stop and check for deadlock.

## Fairness

Liveness is checked under weak fairness of what the platform runs by itself.
Nothing is assumed of the application, but where it says so.

* `ClientConnection`: continuations run and timers fire. Every handshake ends, so
  does every closing handshake (the `ws` library limits it to 30 seconds), and an
  awaited call settles. The client sets no `handshakeTimeout`: that a server which
  has accepted a connection answers the upgrade or drops it is an assumption about
  the network, and it is listed as a hazard. That an awaited call tells `close()`
  so is an assumption too: a timeout does not (`close_hangs`), and
  `CloseResolves` is about the calls that do.
* `RpcCalls`: middlewares end, timeouts and backoffs fire, `finally` callbacks
  run. Nothing is assumed of the peer, of the connection or of the backpressure
  queue.
* `SendBuffer`: the timer ticks, and a socket that takes nothing for ten seconds
  is given the head of the queue anyway, as the code does.
* `InboundCalls`: plugins, middlewares and handlers end.
* `ServerRegistry`: each wait of `close()` ends (the hooks settle, the drain stops
  after five seconds), calls that a client waits for end, each having a timeout, and a
  client that is past that wait closes. That the wait is over when the calls have
  ended is not assumed: `CloseEnds` excepts a server that stays `Blocked` by a client
  which was not told.
* `Cluster`: Redis executes commands, nodes read their streams, heartbeats and
  timeouts fire. Nothing is assumed of the station or of the other node, which
  may crash.
* `SmartCharging`: the promises of the dispatcher settle.
* `WorkerPool`: threads work or crash, and their events arrive. `MessageDedup`:
  what began goes on, keys expire, and the station retries until it is answered.
  `ReplayBuffer`: Redis answers, loops go on, a closing connection closes.
  `BrowserClient`: middlewares and calls in flight end (each has a timeout), a
  closed WebSocket reports it. `Handshake`: middlewares end, the timer fires; the
  auth callback may never speak. `AsyncWorker`: the timer of the drain fires; tasks
  may hang. `RedisStream`: commands are executed and the loop goes round.

## Proofs

`CallQueueProofs`, for every finite set of tasks and every set of requested
limits: `TypeCorrect`, `SlotsAccounted`, `NeverIdle`, `LimitRespected`,
`FifoStart`. The inductive invariant `IInv` says that the queue is in a state in
which `_drain` may run (`Drainable`: the queue holds the tasks that wait, each
once, and the counter is the number of those that hold a slot) and that no slot
is idle. `SlotAccounting` alone is not inductive: that a queue of the right
length with the right members has no duplicate must be known of every prefix
that a drain takes. The argument is in three lemmas: a prefix of a sequence
without duplicates has as many members as its length (`PrefixCardinality`), the
loop takes no more than there are slots or tasks and stops only at one of them
(`StartsBounds`), and so a drain takes one such state to another and leaves no
slot idle (`DrainStep`). Each action but `Settle` is then a small change
followed by a drain. The assumptions are that the set of tasks is finite and the
limits are integers.

`ServerPartsProofs` is about the registry, the send buffer and incoming calls.

* `CollectionsAgree`, for any sets of upgrades and stations: the two collections,
  the sockets and what the cluster was told agree. `ImplementsNodeView` is the
  refinement that `Cluster` builds on. The invariants are inductive only together:
  what a `close` event does is right only if the identity it looks at is held by a
  tracked client. `GuardsAreHard` (the cap, and that a closed server is empty) is for
  servers without an authentication that waits, and needs the finiteness of the
  client set.
* `OrderKept` and `FateKept`, for any number of messages and connections.
  `WrittenInOrder` is not inductive: that the next message is newer than the written
  ones must be known of the queue. The invariant says that what is written and what
  waits are each in order, and the first before the second. A drain moves a prefix of
  the queue to the end of the wire, which keeps the order and the members of the
  whole (`MovedInOrder`).
* `CallsHandledInOrder`, for any ids and number of arrivals. That the server
  dispatches in order needs to know that the chain is what came last, without a gap
  (`Lined`); `badCount`, which the type invariant bounds by the arrivals, is bounded
  by the messages done with (`Counted`). A theorem that no CALL is answered twice is
  not stated: a listener of the application that throws on `callResult` after the
  response was sent (`client.ts:1275-1313`) leads to an error as a second response,
  and listeners that throw are not in the model.

`ClientConnectionProofs`, for any sockets, reconnections and pending calls, with
and without reconnecting and refusals: `StateTellsTruth`, `CloseIsMeant`,
`ImplementsConnectionView` and `NoTimerForgotten`. What holds between two tasks
is not inductive, for a task may leave a part of itself to be done (`cont`). The
invariant says what each such rest finds (`Running`), which states of the client
go with which state of its socket (`Linked`), that only the current socket is at
work, that a timer runs only while there is neither a socket at work nor a task
to finish (`Timed`), and that a `close()` under way has left its promise
(`Promised`). `NoTimerForgotten` is a result of that attempt: `orphans` was in
the model because `_scheduleReconnect` overwrites `_reconnectTimer` without
clearing it, and the invariant shows that it never finds one that runs. For the
refinement, each action is a named step of `ConnectionView` or a stutter.

`RpcCallsProofs`, for any calls, retries, limits and length of the offline queue:
`CallsAreExact`. It rests on the proofs of the queue: `QP` is an instance of
`CallQueueProofs`, whose lemma `DrainStep` says what a drain does to the attempts
of the calls, whoever causes it. To its invariant are added: of each call only the
current attempt stands in the queue, and only while the call waits (`Slotted`);
each entry is of such an attempt, and a call without a connection waits for a
message that is in the buffer, unless it is a retry whose entry the late error of
an earlier attempt took, or may take (`Bereft`, `Entered`); nothing that is yet to
be sent is in the buffer or the backlog, each message is in one of them at most
once, and nothing in them was sent (`Unsent`). Without the last, `SentOnce` is
not inductive: the flush of the buffer would send what a retry sends again. That
the calls pending are no more than `running` is then a matter of counting their
slots.

`ClusterProofs`, for any nodes, stations, calls and bounds: `ForwardedCallsExact`
and `OutcomeIsFinal`. `HandedOverOnce` is inductive only with an account of where the
one request of a call is: with its publisher, in one stream at one place, handed
over, or lost (`OneRequest`); an answer of a client is in a stream only after
that. A crash loses requests and duplicates none, because a node that starts
again is another node.

`LivePartsProofs` is about six of the parts in `live_parts`; a behaviour is of one
part, so each invariant is that of its module under `part = ...`, and the other
parts need only be known to rest (`PartSteps`).

* `UpgradesAreJustified`, for any depth of middlewares: the chain goes in until the
  auth check and then out (`GoesIn`, `ComesOut`).
* `CallsExecutedOnce`, for any finite set of copies: while nothing failed or
  expired, the one copy that passed holds the claim.
* `CommandsAreKept`, for any commands, connections and failures: a command is in one
  place (`OnePlace`), one that is yet to be written, or waits in a backlog, has been
  written no more often than its error was misread (`Written`), and
  one whose caller was told that it is queued is on its way or was dropped (`Promised`).
  What else the backlog needs to be known for is `Backlogged`: that only the call which
  put a command there, or the error of it, is left of it elsewhere.
* `ExportsAreKept`, for any length of the queue, slots and tasks: slots are those of
  running tasks and none is idle while a task waits (`Slots`), the queue holds the
  tasks that wait in their order (`Line`), and those came after all that started
  (`Turns`). The oldest is dropped only when there is room for one task at least.
* `StreamsAreExact`, for any messages, connections of the publisher, trims, expiries,
  subscriptions and errors: the offset lies behind what was heard and before what
  was read, and what lies ahead of it in the stream was read or follows all that
  was (`Offsets`); every message that was not sent again has one entry at most, and
  none while it is on its way (`Single`). `Follows` adds the order of publishing
  for a pool of one connection. The lemmas `Joined`, `Cut`, `AfterId` and
  `LastEntry` are about sequences of entries with rising ids.
* `ClientsAreSound`, for any calls, slots and sockets of the client for browsers: the
  queue holds every call that waits once and no slot is idle then (`BrowserQueue`); a
  call that went out did so on a connection that opened, and its entry goes with
  that (`BrowserEntries`). For the state, what each state says is not enough: no
  socket but the current one is at work, what that one does says what the state is
  (`BrowserLink`), a timer runs only when there is none (`BrowserState`), and a
  graceful `close()` whose state is lost to a reconnection waits for a call that
  was given up (`GivenUp`). The two hold until a `close()` crosses a handshake, the
  exception that `StateIsTrue` names.

`SafePartsProofs` is about the parts in `safe_parts`, in the same way.

* `PeersAreAlwaysWatched`, for any interval and any timeouts of pongs. `DeadPeerDetected`
  needs the time to come: a silent peer is pinged soon enough, or a timer runs that
  will end the connection soon enough (`Watched`). That a timeout means silence holds
  for timeouts below the shortest interval, as there is then never more than one
  timer, and it ends before the next ping (`OneTimer`).
* `CircuitsAreSound`, for any calls, connections, circuits and thresholds: the
  connections hold circuits that were made (`Held`), and until one closes a circuit
  counts the calls in flight on it and no others (`Exact`).
* `NumbersAlwaysMatch`, for any transactions, connections and identifiers. What makes
  it hold is that the station has one call at a time, so that a call whose answer it
  waits for is the last of the last connection (`ProxyQueues`, `ProxyWaiting`): then
  the UUID that waits in the session is of the start that is answered.
* `LimitsAlwaysHold`, for any limits, windows and cooldowns: from each call let
  through on, a bucket has given and still holds no more than a full one and the
  refill since (`Spent`). A bucket that was swept is one that would be full by now
  (`SweptWhenFull`).
* `TransactionsAreKept`, for any methods, transactions, sockets and timers of the
  simulator: what each method waits for agrees with what was heard of its transaction
  (`RunsKnow`), and while no commands overlap at most one of them starts, meters or
  stops one (`Apart`).
* `RecordsAreAlwaysTrue`, for any stations and connections: the start kept under an
  identity is of one of its connections and was not measured yet (`Kept`), and is its
  own for a connection that met no other (`Lone`).
* `SessionsAreKept`, for any stations, connections and writes, any limit and lifetime:
  the map has one session of each station (`OneEach`), and of a station that has lost
  none it is that of its last connection (`OfLast`).

`SmartChargingProofs`, for any transactions, terms, snapshots, settings and values at
which rounding loses a hundredth: `RunsDoNotOverlap`, because between runs nothing is
sent (`RunsAlone`), and `GridIsNeverExceeded`. The second is about what a function
computes, the sum of an iteration over sets. The induction it needs is a theorem
about sets: a set that holds zero and all successors holds every number
(`Successors`, by counting), and so one that holds a set of parts whenever it holds
those with one member less holds every finite set (`PartByPart`). From it come
the existence of sums (`SumsExist`), their laws (`TotalAtMost`, `TotalOfBoth`) and the
turns of the water-fill (`FillsExist`). `GridIsNeverExceeded` asks no more of the
shares than that they are integers: the profiles made of them lie between minimum
rate and cap (`ProfilesFit`), and `EnforceGridBudget` brings any such profiles below
the limit, with the minimum rates where these fit (`Shrinks`, `ShrinksToFloors`).

The assumptions on constants are that the sets counted are finite and the bounds
natural numbers, that `NoSocket` is no socket and zero no transaction, that options
are Booleans, that the parts of a hundredth, a threshold of failures and the limits of
sessions, of the offline queue, of an export queue and of bad messages are at least
one. With a limit of zero the offline queue and the bad messages act as with one
(`client.ts:740`, `client.ts:1491`), an export queue counts a drop that is none
(`plugins/async-worker.ts:153`), and a map of sessions is not made (`lru-map.ts`).
Terms of sessions are natural numbers of hundredths. `ClusterProofs` needs no
assumption. They are stated as `ASSUME` in the modules (for the parts in
`MCServerParts`, `MCSafeParts` and `MCLiveParts`), and TLC evaluates them in every run.

Only model-checked:

* all liveness (`CloseResolves`, `ReconnectingEnds`, `EveryCallSettles`,
  `MessagesEnd`, `CloseEnds`, `ClusterSettles`, `RequestsServed`, `PartsSettle`),
  which is out of the prover's reach;
* `FairShare`: the code divides floating point numbers, the model rounds, so that
  shares are exactly fair only where `Parts` makes every division of an instance
  come out even;
* `RoutesMatch`: what a match finds is a recursion over the path that folds
  sequences, of which no proof was written.

## Findings

Four runs show the code to differ from what is said of it.

* `close_hangs`: a graceful `close()` puts callbacks around `resolve` and `reject`
  of the pending calls, but a call that times out, is aborted or cannot be written
  rejects its promise directly: `close()` then never resolves, though
  `client.ts:423` promises a promise "that resolves when the connection is fully
  closed".
* `late_send_error`: the callback of a send that fails deletes the entry under its
  message id, though its attempt may have timed out and, with an `idempotencyKey`, the
  entry be that of the retry. The answer to the retry is then dropped, and a close
  event does not reject it, where `client.ts:1501` says "Reject all in-flight calls
  and clear pending state": it waits for its own timeout.
* `replay_loses`: the replay buffer loses commands it has taken off its list for a
  client that closed, as a closed client throws before any middleware, and commands
  whose message waited for backpressure when the socket closed, as it does not know
  the error. `plugins/replay-buffer.ts:176` says "The interceptor middleware will
  re-queue if the client disconnected again".
* `late_routes`: `freeze()` freezes the lists of routers, so that a pattern added
  after the first match whose node exists throws, where `radix-trie.ts:214` says
  that "Late insertions will automatically unfreeze".

The models also do what follows, as the code does; no run is about it, and where
a property would not hold the exception is written into it.

The client:

* `close()` during the handshake of a reconnection resolves, and the client then
  reconnects (`client.ts:441`, `client.ts:1593`). A `close()` that found no socket
  to close leaves its promise in `_closePromise`: the `close()` of a later
  connection returns it and closes nothing. The socket of a refused upgrade is
  never closed, so a `close()` that waits for its event never resolves. These are
  exceptions in `CloseMeansClosed`, `CloseResolves` and `ReconnectingEnds`.
* A call that timed out while it was buffered is sent all the same when the
  client opens. Calls from the offline queue are not retried. A graceful
  `close()` waits for the calls pending at that moment, not for those in the
  queue or backing off.
* A duplicate of a CALL in progress deletes its guard, so that a third one starts
  a second handler; a CALL repeated after its answer runs again.
* With the default timeout of a pong, five seconds above the interval, pong timers
  overlap; a pong, and the end of a connection, clear the last one only, so that
  a live connection may be terminated. The first half of `PeersWatched` is about
  timeouts below the shortest interval between pings.
* `connect()` or `close()` called by a listener of `disconnect` or `reconnect`
  (excluded from the model) meets a method that has not finished: the
  reconnection it is about is scheduled after it returns.
* The client for browsers differs: a `close()` waits for ever for a call that is
  given up, and calls are sent into no connection while it reconnects.

The server:

* Upgrades that authenticate at the same time exceed `maxConnections`, the "hard cap
  on concurrent client connections" (`types.ts:624`): `server.ts:830` compares
  before the await only. One that authenticates while the server closes
  registers on a `CLOSED` server, and `close()` of a server that owns its HTTP
  server then waits for it.
* A client whose graceful `close()` is not told of its calls stays in the two
  collections after its socket is gone, counts for the cap, and `close()` of the
  server waits for it for ever (`close_hangs`, excepted in `TrackedExact` and
  `CloseEnds`).
* The disconnect of a station's old connection removes the presence entry of its
  new one on another node (`server.ts:1406`), which `clustering.mdx:16` describes
  as automatically tracked. `PresenceConverges` shows that the heartbeat repairs it.
* The id of a node is random (`server.ts:106`), so a restarted node does not
  resume the stream it had, as `clustering.mdx:76` describes for a stable id.
* The server looks only at whether the auth check was reached: a middleware that
  catches what `next()` throws lets a refused upgrade through. Without an auth
  callback the timeout of the handshake is ignored, and it never ends a
  middleware that hangs.
* A router with two patterns that match one path hears of its client twice.
* A late message event of an evicted connection puts its older session in the place
  of the newer one, and the session of a quiet station may be collected while it is
  connected: the next connection misses data that `system-design.mdx:104` says is
  restored (`lost`, excepted in `SessionsKept`).
* The collector of idle sessions and addresses is not started again by `listen()`
  after `close()` (`Sessions` does not ask that it runs).
* After `close()` and `listen()` the Redis adapter, once disconnected, neither polls
  nor has handlers, and the export queues refuse every event (`accepting` is
  never set again).

Redis and plugins:

* What is read from a stream while nobody is subscribed is skipped by the next
  subscription, which "resumes where it left off" (`adapters/redis/index.ts:232`).
  With a pool of more than one connection messages may be reordered. A Redis
  client that sends unanswered commands again adds messages twice: a forwarded
  call may then be executed twice.
* `publishBatch` sets no lease on the key of a stream, and a pipeline hides the
  errors of its commands. `disconnect` leaves the blocking client open, and a
  failed `SUBSCRIBE` leaves a channel without messages that looks subscribed
  (neither is in the model).
* HALF_OPEN is said to allow one probe (`plugins/circuit-breaker.ts:154`): only the
  call that finds the circuit OPEN looks at the time, and all calls until the
  probe ends pass. `onDisconnect` zeroes the count although a newer connection
  has calls under way. An evicted circuit is never opened again by its holder.
* The replay buffer may take the text of an error for that of a closed connection,
  and the command is sent twice.
* A worker that cannot be started again leaves a dead one at its index, to which
  `parse` posts without an error (`worker-pool.ts:108`).
* With more than one task at a time the export to Kafka is not in order, as a
  comment there says. Events of the shutdown are refused where the export plugin is
  registered before what emits them, and the timer of a drain that ended still fires.
* Records kept under an identity are wrong after an eviction: one duration is
  missing from the average, a span ends early and another never, and the dashboard
  shows a connected station offline, without ever showing "evicted". A request
  to purge may delete the record of a newer connection. An eviction at the limit
  of the guard closes the newcomer, as the evicted one still counts.

The other packages:

* Proxy: the close of an old connection clears the session of the new one and
  deletes its upstream client from the map; a StopTransaction then goes out
  under a random UUID. An upstream client that is connecting when the station
  leaves is never closed. Two connections whose clients connect in reverse
  order confuse their transactions (`late`, excepted).
* Smart charge engine: a limit reduced for a peak is not enforced against minimum
  rates; the request that clears a profile races the run that sets it; the label
  of a strategy is set before an unknown one throws; rounding twice may cost a
  hundredth of a kW of a minimum rate.
* Simulator: overlapping starts and stops forget a transaction and leak an
  interval; a connection lost during the boot is not replaced while the boot is
  retried; the timers of reconnection and boot survive `stop()`; the timer that
  makes a connector available fires in a new transaction; an active
  transaction survives a Reset.

## What is not modelled

Of the parts that are: `sendRaw` and `safeCall`; events emitted after a response;
CORS and TLS of an upgrade, whose refusals are a choice; `broadcast`;
changing the ping interval by `reconfigure`; parameters of a path; a clock that
is set back; incoming calls and `sendRaw` of the browser client; middleware and
the field translations of the proxy, session stores that are not in memory;
builders of profiles; tags, readings, configuration and reservation ids of the
simulator; all of the dashboard but its records of connections.

Not at all, with the reason in `PROJECT.json`: the event buffer (nothing in the repository uses it), alerts by threshold and
translations of single messages in plugins, schemas, validators and generated
types, framework bindings, front ends, load generators and auditors of the
command line. They are glue, single steps without interleaving, or generated:
a unit test reaches what can be wrong with them. A large part of the source
lines of the repository is of this kind (types, generated code, user interfaces,
examples), so that the definitions here stand for an eighth of all lines, and for
most of those that carry control.
