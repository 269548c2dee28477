# A TLA+ project for ModCDP

ModCDP lets a client speak the Chrome DevTools Protocol (CDP) plus its own
`Mod.*` commands to a browser.  A client (`js/src/client`) talks to an upstream
transport (WebSocket, pipe, NATS, native messaging, a reverse WebSocket,
`chrome.debugger`); an MV3 extension in the browser (`js/src/server`) serves the
`Mod.*` commands; a proxy (`js/src/proxy`) puts ordinary CDP clients in front of
it.  The TypeScript files are the source of every definition here; the Go and
Python trees are translations of them.  Paths below are relative to the
repository's root.

## 1. Inventory

| Component | State it keeps | Operations | Talks to | What is hard | What makes it correct |
|---|---|---|---|---|---|
| Upstream request multiplexer `transport/UpstreamTransport.ts` | `next_id`, `pending`, timers, listener sets | `send`, `parseAndEmitRecv`, `emitClose`, `on`, `onRecv`, `onClose` | every transport inherits it | answer, timer, close and failing raw send race for one entry | a promise settles once, only by its own command's answer; none is left behind |
| WebSocket upstream `transport/WSUpstreamTransport.ts` | `ws`, `connect_promise`, resolved URL | `connect`, `send`, `close`, listeners | browser, multiplexer, `resolveCdpWebSocketUrl` | shared dial, close during dial, events of replaced sockets | no caller waits on a dead dial or socket; close is final |
| Session router `router/AutoSessionRouter.ts` | two session maps, targets, contexts, waiters | `start`, `stop`, `send`, `ensureRouteForTarget`, `ensureExecutionContext`, event listeners, `getTopology` | upstream events and requests | lookups before awaits, events in between, two sessions per target | maps agree, no dead routes, no missed wakeups |
| Client `client/ModCDPClient.ts` | config, upstream, router, injector, heartbeat, event waits | constructor, `configure`, `connect`, `send`, `close`, `_onRecv` | all of the above | partial failure of connect, close during connect | connect is all or nothing; waits end |
| Extension server `server/ModCDPServer.ts` | `started_at`, client, router, middleware, downstreams | `start`, `configure`, `handleCommand`, `runMiddleware`, keep-alive | client, downstream set, offscreen page | start races configure; failed start | commands run in the configured order |
| Reverse WebSocket link `transport/ReverseWS*Transport.ts` | proxy: `socket`, `peer_waiters`; extension: `socket`, `reconnect_timer` | `connect`, `waitForPeer`, `accept`, `close`; `start`, `stop`, `connect`, `sendResponse` | proxy and extension | replaced peers, stale close events, reconnect loops | one current peer, waiters end, the link comes back |
| NATS bridge `transport/NATS*Transport.ts` | protocol buffer, `peer_seen`, waiters, reply subjects, reconnect timer | `connect`, `waitForPeer`, `send`, `close`; `start`, `stop`, `sendResponse`; `consumeProtocol`, `handlePayload` | NATS server, client, extension server | framing across chunks, async reads, hellos before subscriptions, ids shared by clients | every frame is delivered once and in order; the ends find each other; answers go to the asker |
| Native messaging `transport/NativeMessaging*Transport.ts` | port, reconnect timer, length-prefixed buffer | start, stop, port events | browser's native host | reconnect against late disconnects | one port, no lost frames |
| Pipe upstream `transport/PipeUpstreamTransport.ts` | buffer, pipes | `connect`, `send`, read loop, `handleClose` | browser | several messages per chunk | frames in order, pending rejected at the end |
| chrome.debugger upstream `transport/ChromeDebuggerUpstreamTransport.ts` | attached debuggees | `attachDebuggee`, `send`, event listeners | `chrome.debugger` | check, await, add | one attachment per target |
| Downstreams `transport/DownstreamTransport.ts`, `DownstreamTransportSet.ts` | leases, listeners | `handleRequest`, `sendEvent`, `mirrorEventsFrom` | server | async transforms reorder events | answers go to the asker |
| Proxy `proxy/proxy.ts` | per-client upstream, queue, shared reverse upstream | `startProxy`, `connectDownstream`, `handleDownstreamMessage` | CDP clients, client | the client leaves while the proxy connects; shared wait | queued messages are flushed or the client is closed |
| Translation `translate/translate.ts` | none (pure) | `routeFor`, `wrapCommandIfNeeded`, `unwrapEventIfNeeded` | client | scoping by session | what is wrapped is unwrapped to the same command |
| Injectors `injector/*.ts` | cached ready target | `inject`, `probeTarget`, `borrowVisibleServiceWorkers` | browser | probes that fail half-way | no session leaks |
| Launchers `launcher/*.ts` | child process, profile directory | `launch`, `close` | operating system | partial failure of launch | no process leaks |
| Types `types/*.ts` | registries of commands, events, middleware | `addCustomCommand`, `prepareCommand` | server, client | schema resolution | |

Everything runs on JavaScript event loops, one per process: a task (socket
event, timer, message) runs to its end, then every queued continuation of an
`await`, then the next task.  The hazards of `PROJECT.json` are the places
where state read before an `await` or a callback is used after it, where the
events of a replaced connection act on its successor, or where something must
eventually happen.

## 2. Modules

| Module | What it is |
|---|---|
| `CommandOutcomes` | abstract: what a caller of `send` is promised |
| `UpstreamTransport` | the request multiplexer: `next_id`, `pending` and its handlers |
| `WSUpstreamTransport` | the WebSocket transport over it, dialling on demand; implements `CommandOutcomes` |
| `UpstreamTransport_proofs`, `WSUpstreamTransport_proofs` | the theorems about them |
| `AutoSessionRouter` | the router's graph and the calls routed by it, with the browser as environment |
| `AutoSessionRouter_proofs` | the theorems about it |
| `ReverseWSUpstreamTransport` | the listening end of the reverse link; implements `CommandOutcomes` too |
| `ReverseWSDownstreamTransport` | the extension's end: one socket, dialled again by a timer |
| `ReverseWSLink`, `_proofs` | both ends and the network between them; the theorems about the listening end and the link |
| `Framing` | how bytes become messages over NATS, a pipe and native messaging, as pure operators, and the ways data reach them |
| `NATSLink`, `_proofs` | clients, the extension and a NATS server between them; implements `CommandOutcomes` |
| `ChromeDebuggerUpstreamTransport`, `_proofs` | overlapping commands over `chrome.debugger`, and a service worker that restarts |
| `NativeMessagingDownstreamTransport` | the extension's native port: state and handlers |
| `ModCDPServer`, `_proofs` | the extension's server over that port: start, configure, commands, middleware, events; the theorems about it and about the lease |
| `ClientLease` | the lease that closes the browser, and the heartbeats that keep it, in discrete time |
| `Proxy`, `_proofs` | downstream clients, their own `ModCDPClient`s and browsers, or the listener they share; the theorems about it and about `Framing` |
| `MC*` | finite instances for TLC |

### UpstreamTransport and WSUpstreamTransport

A *call* is one invocation of `send(method, ...)`.  Its `phase` says where it
stands: awaiting `connect()` ("connecting"), with its continuation queued
("connected"), in the map ("pending"), settled.  `pending` maps ids to calls as
the code's map does.  `RegisterCall` and `RegisterFails` are the two ways
through the promise executor, `TimerFires`, `AcceptResponse` and `EmitClose` the
three ways out of the map.

A dial *attempt* is one evaluation of the `connect_promise` closure.  Attempt k
creates socket k, so they share numbers.  `sock` is the `readyState`, with
"failing" for the stretch of one task between a socket's error and close events.
`url` is what `upstream_ws_cdp_url` holds: nothing, so that `connect()` throws
(`SendWithoutUrl`), an HTTP endpoint to be resolved, or a WebSocket URL;
`update()` changes it at any time.  An attempt ends without a socket when
discovery fails or the `WebSocket` constructor throws (`AttemptFails`).
`received` and `inbound` are the commands and answers on the wire.  The browser
may answer in any order, with a result or an error, or never.

`MicrotasksDone` and `MacrotaskMayRun` say when the event loop may start a task:
timers and socket events wait for queued continuations; the user's calls do not,
since a user may call from a continuation.

### AutoSessionRouter

The browser is the environment: targets, sessions, contexts, navigations and the
replies to `Target.attachToTarget` and `Runtime.enable`, delivered to the router
through the one ordered queue `events`.  A session's events stop when it is
detached; `CloseTarget` sends detaches and `targetDestroyed` in either order.
`AttachElsewhere` stands for auto-attach and for the sessions injectors open on
their own.  With `Chunked = FALSE` each message is a task of its own; with
`Chunked = TRUE` the transport may hand over several messages before
continuations run, as the parse loops of the pipe, NATS and native messaging
transports do.

A *caller* is one `send` of `Runtime.callFunctionOn` without a context, or one
`ensureExecutionContext` (`Enables`).  "attached", "routed", "enabled" and
"ready" are queued continuations.

Left out of the router: `start`/`stop` (they are in `ModCDPServer`), target metadata and topology, isolated
worlds, session-less upstreams, contexts without a `uniqueId` (Chrome has sent
one for years; the key is then the context itself).

### The reverse link

`ReverseWSUpstreamTransport` is the process that listens.  `socket` is the
current peer's connection; connections live in numbered *slots*, and a slot is
used again once its socket is closed.  Each listener of a socket is one action,
since none of them awaits; only `close()` does, and its two halves are `Close`
and `ListenerClosed`.  A socket on which `close()` was called ("closing") still
delivers messages, as the `ws` library does until the close event: so a late
hello can make such a socket the current peer, and a replaced peer's answers are
still accepted.  `since` is the `connected_after_ms` a caller of `waitForPeer`
noted earlier.

`ReverseWSDownstreamTransport` is the extension: state and handlers, with no
next-state relation of its own.  `SocketGone` is what its error and close
listeners share; `ReconnectTimer` is the handler `scheduleReconnect` installs.

`ReverseWSLink` is the listening end with the extension as an `INSTANCE`.  A slot
is one TCP connection with a `readyState` at each end; the ends learn of each
other's close at different times, and messages on different connections are not
ordered.  `InSlot` picks the first free slot, which loses nothing, slots being
alike.  The user starts and stops either end at will; `Fault` counts what the
network does wrong.

`Connect` comes up or fails; a listener that failed stays until `close()`.
`ErrorEvent` is about sockets that have said hello: before that a socket has no
error listener, so a protocol error is an uncaught exception and the process ends.

Left out: the HTTPS listener (`connect()` does not return with it: section 5), a
second `connect()` on a listening transport (it is in `Proxy`), the fan-out of events
to several extension listeners, an endpoint URL that the `WebSocket` constructor
rejects.

### The NATS bridge

`Framing` follows one connection.  The sender's frames, with bodies of one-
and two-byte characters, form a stream of bytes; each step delivers any next
piece of it, as one of the four things `readWebSocket` and `readTcp` accept.
A blob is two steps, since
`this.buffer += await data.text()` reads the buffer before it awaits.  A body
stands for a payload that `JSON.parse` accepts; what is cut wrongly does not
parse and is dropped, as `handlePayload` does.  A two-byte character that a chunk
ends inside reads as two others, and a body with such characters in its strings
still parses: `Readings` has all the ways a body may read.  Bodies and sizes are
written with `Letters`, and a size is one character, `Digit[n]`.  A payload is an
object, so its last word is never a number: a rest of it that is taken for a line
states no size.

Three loops read: `consumeProtocol`, the pipe's `read`, which decodes every chunk by
itself, and `readLengthPrefixedJSON`, which keeps bytes.  `NextFrame`,
`NextPipeMessage` and `NextNativeMessage` are one pass of each; `ReadAll` is the
loop, a function of the number of passes: a pass takes at least a character or
nothing at all, so the length of the text is enough of them.  `Take` puts back
what is left.

`NATSLink` starts where framing ends.  A client is a `NATSUpstreamTransport` in
role "client" over a WebSocket, the extension a `NATSDownstreamTransport`; both
write to the server, which handles each connection in order and forwards to the
connections it has seen subscribe.  Every client numbers its commands from 1;
`Response` carries the reply subject, which is the client.  `connect()`'s
continuations write to `this.socket`, whichever socket that is by then, and its
catch block drops it: `ClientOpens` and `ClientDialFails` do the same.  When the
server starts the closing handshake (`ServerCloses`) the socket stays
`this.socket` until its close event; what is sent on it meanwhile is dropped
without an error, and the request waits.

Left out: role "browser", the client's TCP socket in the bridge, `-ERR`,
`sendEvent`, a changed subject prefix, payloads the schema rejects.

### chrome.debugger

A *call* is one `send()` with a route, one without, one `attachToTarget()` or one
`Target.getTargets`.  Its `phase` is the extension API call it awaits; `request`
holds the calls the browser has not carried out yet, in any order, `queue` the
callbacks and detach events under way, in order.  Each action of the worker is
one callback, up to the next await: `DebuggeeFound` is `debuggeeForTarget` and
the check of `attachDebuggee`, `AttachAnswered` and `AutoAttachAnswered` its two
callbacks.  `WorkerRestarts` empties the worker's memory; the browser keeps its
attachments and still answers what it was sent, to nobody (`Orphan`).  Targets
open and close, another debugger holds the `Foreign` ones, and the user cancels
debugging.  A tab has one page target here, so a debuggee is its target.
`RejectedForCause` is about the transport's own causes: a command that is carried
out succeeds here, where the browser might answer an ordinary CDP error, and a
target is refused ("cannot attach") for another debugger only.

Left out: the maps of child sessions and of tabs to targets, and the listener
that turns debugger events into upstream events (it writes those maps only).

### The extension's server

`ModCDPServer` EXTENDS `NativeMessagingDownstreamTransport`, its native port: one
`port` at a time, numbered, `reconnect_timer`, and for each request the port it
came on.  `onDisconnect` of a port may come long after another one was opened.

`upstreams` lists every upstream the client has had; `upstream` is the one in
place.  A call of `start()` or a request has a `stage`, the await it is in, and
`at`, the upstream that await uses.  `start()` and `Mod.configure` share a tail:
dial, `router.start()`, list the targets.  `AfterConnect` is the continuation of
a dial, for all who waited for it: it reads `this.upstream` again, as
`connect()` does, so it may wire another upstream than the one that was dialled;
only the first of them starts the router, since `router.start()` returns at once
when it was called before.  `kind` is what a request asks for, `phase` the part
of `handleCommand` it is in: request middleware, the command, response
middleware.  Every middleware and custom command is one evaluation: find the
worker's target, attach, run; "refused" is an evaluation whose session belongs to
an upstream replaced meanwhile.  An event goes through event middleware, if
registered, and then to the port once per listener (`mirrors`).

Left out: the offscreen keep-alive page, `addCustomCommand`, `addCustomEvent`,
`status`, and the handshake of `next()` inside one middleware.

### The lease

`ClientLease` has a discrete clock.  `state` is where a client's `connect()` is:
its `Mod.configure` sent, received, applied, answered, then "beating" if it wants
the browser closed.  `due` and `pings` are countdowns that stop the clock at 0, so
no step is later than its bound; the lease timer may be later than its
countdown, since JavaScript promises no more.  `ApplyConfigure` sets the timeout
and the flag for all clients, as `downstream.update()` does; the last one wins.
`LeaseAssumption` says that a heartbeat sent once the configure request is
answered arrives before the shortest timeout is over.  It is an assumption on the
configuration: the client configures a timeout of 1000 ms unless told otherwise
(the schema default in `types/modcdp.ts:240` comes before the four intervals of
`ModCDPClient.ts:532`), so an interval near a second breaks it, and a
`Mod.configure` that takes longer than the timeout closes the browser.

### The proxy

`Proxy` has one `stage` per downstream socket, the await of `connectDownstream`:
preparing the injector, launching, dialling, setting up the extension; or, in
reversews mode, the waits for the extension's peer.  `launched`, `browser` and
`upstream` are that socket's own launcher and transport.  `CloseCdp` is
`cdp.close()` up to its first await: it ends the browser first and the upstream
after it (`BrowserEnds`), and does nothing about a launch or dial under way.
`Message` is the message listener: into the queue, or to `cdp.send()`, whose
websocket dials again when it is gone.  In reversews mode all share `listener`
and `peer`; `close()` of one client closes the listener for all, and a waiter
whose wait ends calls `connect()` a second time, which returns only if the
listener is still to come up (`WaitTimesOut`, "stuck").  `CloseNext` and
`CloseSockets` are `close()` of the proxy, one client after the other; between
two of them the task goes on unless it awaits something (`LoopRuns`), so with no
client left `wss.close()` comes before any other event, and nothing opens in
between.  `LaunchFails` may leave its browser behind ("stray"): a pipe that does
not become ready (`LocalBrowserLauncher.ts:431`) and a `DevToolsActivePort` that
cannot be read (line 473) make `launch()` throw without `close()`.

At this commit the constructor of `ModCDPClient` always throws: it uses an
undeclared name `config` (line 193).  The model takes that line as repaired, so
all three properties are about the repaired constructor.  With the proxy's defaults
(injector "none", no `server_config`) `connect()` throws after the upstream is up
(lines 320, 359-361), which is `SetupFails`.

Two more ways to fail are outside every `try` of the proxy, and an unhandled
rejection ends a Node process, after which there is nothing to say: the constructor
on a configuration it refuses (`proxy.ts:194`; `ModCDPClient.ts:164`, 170-187, 197,
202, 208), and a message that is no CDP command (`proxy.ts:275`).  So `Modes` are
configurations the constructor accepts and `Message` is a command.

Left out: the fixed HTTP answers and the text of messages and answers.

## 3. Runs

| Run | Shows |
|---|---|
| `ws` | dials, closes, errors, timeouts and late answers in any order leave no promise behind and settle none wrongly; `WSUpstreamTransport` implements `CommandOutcomes`; sends with a timer settle, and so do all sends on a socket that closes |
| `router` | on one connection, with one message per task, the maps follow the browser and no call is sent on a session or context the router has seen end; every call is sent or fails |
| `reverse` | replaced peers, late answers, timers and a closing listener leave no promise behind; without its timer a request is rejected by its own answer, or when the current peer ends, and then only if it was sent to that peer or to one given up before; one open peer at a time; no caller of `waitForPeer` is overlooked |
| `reverse_link` | the extension has one live socket; a connection open at both ends is the one both use; the two ends settle on one connection |
| `framing` | every way of cutting a stream into chunks: frames with one-byte bodies (and any body over native messaging) are taken exactly once and in order, PINGs are answered; whatever the bodies, none comes twice or out of order |
| `nats_blob` | (violation) two blobs being read at a time overwrite each other |
| `nats_link` | once both ends are subscribed the client has seen its peer; while no connection is lost a command sent after the hello is under way or its answer is, and is answered in the end; answers go to the client that asked; `NATSLink` implements `CommandOutcomes` |
| `chrome_debugger` | a debuggee taken for attached is attached or its detach is in flight; the transport rejects a command only because its target was taken or lost |
| `client_lease` | late heartbeats, slow configures, clients with other timeouts: the browser is not closed under a client that wants it, and is closed when all are gone |
| `extension_server` | polling never stops, an event is shown once, an answer goes to the host that asked, and the upstream in place is heard and routed, whatever calls of `start()` and `Mod.configure` overlap |
| `proxy` | messages keep their order; a socket that closed leaves no browser or upstream; every socket is connected or closed in the end |
| `proxy_preconnected` | (violation) a client that comes after the extension's peer is not served by it |

Bounds.  `ws`: one call with a timer and one without, two ids, two sockets:
enough for a socket to be replaced while a call waits on it, for a late answer
to meet a reused map slot, and for two callers to share a dial.  `router`: one
page with two frames and a context in each, two sessions (two sessions of one
target are the interesting case), a call of each kind, and at most `MaxEvents`
messages queued before the browser does something of its own accord; replies to
requests are never held back by the bound.  `Chunked` is FALSE and the connection
is never dialled again, so the run says nothing of a transport that hands over
several messages at once: there `RoutesAreCurrent` fails (section 5).  The properties
proved for any `Chunked` are listed in section 4.

`reverse`: two connections, so that a peer can be replaced and the slot used
again, and four at the extension, where sockets on their way out pile up while
it dials; the two instants of `MaxTime` tell a peer from before a wait from one
after it.  `reverse_link`: three connections and one fault, none of which is
needed for a stop, a start or a `close()`, which stay unbounded.

`framing`: three frames of kinds MSG, PING and INFO, all pieces, all six channels;
two frames in one chunk and one frame in many are both there, as are a body that
begins with MSG and one with two characters that may be cut.  `MaxReads = 1` is the
assumption that a blob is read before the next one comes; `nats_blob` drops it.
`nats_link`: two clients with a call each, one of them without a timer, three
connections in all and one `close()`, `stop()` or broken connection: enough for
either end to come first, and for either to reconnect while the other's hello
or answer is under way.

`chrome_debugger`: two calls, a tab, a worker target and a tab of another debugger:
two attaches of one target at a time, a new tab, a lost target and any number of
restarts.  `client_lease`: two clients that want the browser closed and one with a
longer timeout that does not; the timeouts are the smallest the assumption allows,
so no step has time to spare.  `extension_server`: two calls of `start()`, two
requests, two ports; two requests make at most three upstreams.
`proxy`: two sockets, two messages and one, all four modes; what two sockets share
is the listener.

Fairness.  Continuations run, started timers fire, discovery requests and dials
end one way or the other (the operating system times them out), a closing socket
gets its close event, queued messages are read, the reconnect timer fires, and
what one end of a connection does is seen by the other in the end.  Nothing is
assumed of the user or of the browser's answers.  In `nats_link` the server and
the sockets deliver and the extension's request handler returns; no dial,
reconnect or call is assumed, so `PeerAnswers` is about a link that is up.  In
`client_lease` time passes, the lease timer fires and pings arrive.  In `proxy`
every await of `connect()` has a timeout of its own, a process can be killed, a
closing handshake ends and a listener comes up or fails; no downstream client, no
peer and no `close()` is assumed.

Deadlock is not checked: a bounded run stops when its ids, sockets, calls, ports
or messages are used up, and `client_lease` when the browser is closed.

Where a run checks no `TypeOK` the invariant is in the module all the same, and
proved: so it is for the reverse link, the NATS bridge, `chrome.debugger`, the
lease, the extension's server and the proxy.  `Framing` has none of its own: its
safety property says what every variable is.

## 4. Theorems

`WSUpstreamTransport_proofs` proves, for every set of calls and all bounds, the
type invariant and the three safety invariants of run `ws`, that ids are never
used twice (`IdsUnique`), and that
`WSUpstreamTransport` implements `CommandOutcomes` (`Refinement`).  They rest on
one inductive invariant, `IInv`: type correctness, `PendingMatchesCalls`,
`IdsAreFresh` (an id is below `next_id` and names one call; without it a late
answer could be taken for another call's), `WireMatchesCalls` (what is on a
socket's wire belongs to a command written to that socket; it carries the
refinement's `Resolve` step), `AttemptsAreStarted`, `NoneWaitsOnDeadSocket` and
`AwaitedAttemptRuns`.  Assumptions: `NoCall` is not a call, the bounds are
natural numbers.

`AutoSessionRouter_proofs` proves the type invariant and the six safety
properties of run `router`, and that a context is recorded under a known session
only (`RecordsHaveSessions`), for any targets, frames, calls and bounds, and any
finite sets of sessions and contexts (the browser reports what a session listens
to, or which sessions end, in any order, and an order of an infinite set is not a
sequence).  The browser enters every argument through one lemma,
`BrowserContract`: a step sends only messages that are true in the state after
it, and reports every session and context it ends.  The invariants come in
layers, each proved with those before it:

* `BaseInv`: types, calls past their lookup have a session (`CallsHaveRoutes`),
  what is said to have ended has ended (`EndsAreTrue`).
* `GraphInv`: messages name sessions of the target they are about, and so do the
  calls' routes and the two maps; hence `MapsAgree`, `ContextsHaveSessions`,
  `NoMissedWakeup`.
* `ContextInv`: a reported or recorded context lives, or behind the report is a
  message that drops it (`Reported`); `ContextsAreCurrent` is its second half.
  Up to here `Chunked` is arbitrary: these properties survive chunks.
* `RouteInv` (`~Chunked`): the same for sessions, and a call about to be sent
  has looked its context up since the last message.
* `WaiterInv` (`~Chunked`): no end of a session is in front of the
  `Runtime.enable` reply that a call of that session continues on, so the call
  that starts to wait still has a known session.

That the last two need `~Chunked` is not an artefact: with `Chunked = TRUE` TLC
refutes `RoutesAreCurrent` (section 5).

`ReverseWSLink_proofs` proves the four properties of run `reverse` and the type
invariant of `ReverseWSUpstreamTransport`, for any calls, waiters and bounds.  Its
inductive invariant has the same `RequestInv` and `WireMatchesCalls` (a slot that
is used again starts with empty wires, and its old calls forget it), and
`PeerInv`: the current peer has said hello and is not closed, an open peer that
has said hello is the current one, and commands were written to such peers only.
The last two give `RejectedWithCurrentPeer` (`RejectedByCurrent`): `emitClose` runs
only when the current peer's socket errs or closes, and a request that it rejects
and that was not sent to this peer was sent to one that is no longer open.  More is
not true: a replaced peer that is still closing might have answered (section 5).

Then it proves the composition.  `LinkImplementsUpstream` says that `ReverseWSLink`
only restricts the listening end, whose environment becomes the extension and the
network: each step of the link is a step of `ReverseWSUpstreamTransport` or leaves
it alone, so all of the above holds in the link.  The extension's end has its own
invariant: types, `LiveSocketIsActive` (`OneLiveSocket`) and `KeepsTrying`
(`ExtensionKeepsTrying`: a started extension has its timer set or a socket whose
end sets it; the safety half of `LinkComesUp`).  `StagesInOrder` ties the two: the
process has accepted no connection that the extension does not know.  With
`PeerInv` these give `EndsUseOneConnection`: of the connections open at both ends
the extension's is the only one, and the process has it or will at its hello.
Neither end alone can say so: the process may hold an older peer whose close
event is still to come, the extension a newer socket whose hello is.

`NATSLink_proofs` proves the four safety properties of run `nats_link` and the type
invariant, for any clients, connections and bounds and any finite set of calls.
The inductive invariant is:

* `ConnInv`: the extension has no connection under way but its current one; only a
  connection that was opened is written to or subscribed; and on every wire a hello
  comes after the subscription (`SubThenHello`), since `connect()` writes them in
  that order.
* `IdInv`: a client's `next_id` counts the calls it has sent, so its ids are
  distinct.  (Here the set of calls has to be finite.)  Ids of different clients are
  not, which is what the reply subject is for.
* `DeadInv`: `NoneWaitsOnDeadSocket`, with the connection a call was written to.
* `RequestInv`: a command is under way in one place, once, until the extension
  takes it up.  Without it the extension could be handed a command again and answer
  it twice.
* `AnswerInv`: every answer under way is what the extension answered to a call of
  the client it goes to, under that call's id; with `IdInv` it carries the `Resolve`
  step of `Refinement`, also when the answer comes on a later connection.
* `HelloInv`: when both ends of a client's link are open and subscribed, the
  client has seen its peer or a hello is under way at one of them.  `HellosMeet` is
  its consequence.  It is inductive because whichever end subscribes second sends
  its hello after that (`ConnInv`), and the server handles each connection in order.

`NoneForgotten` (`NoCallForgotten`, the safety half of `PeerAnswers`) is about the
link while no connection is lost, and has an invariant of its own, `FlowInv`:

* `ConnsFlow`: every end has had one connection, the server sends to subscribed
  ones only, and what the extension wrote first, its subscription, is still first
  in line until the server takes it.
* `HellosFlow`: a hello reaches a client only when both ends are subscribed, so
  `peer_seen` says that the server has somewhere to send a command and its answer.
* `CallsFlow`: a command sent after the hello is in a queue, with the extension's
  handler, or answered by a message in a queue.  Each step that takes a message
  out of a queue puts it, or what answers it, in the next.

`ChromeDebuggerUpstreamTransport_proofs` proves the invariants of run
`chrome_debugger` for any calls and targets.  `AttachedIsLive` is not inductive:
the answer that makes the worker add a debuggee has to be followed by the detach
event when the debuggee was lost meanwhile (`ConfirmedIsLive`), and that event is
dropped unless the listeners are there before anything is under way
(`ListensFirst`).  `RejectedForCause` needs a promise about every message:
a request is about a target that lived when it was made or was lost since
(`Sound`), an answer tells of a failure only for such a cause (`Truthful`), and a
detach event still to be handled counts as a loss (`DetachIsLoss`).

`ModCDPServer_proofs` proves the safety properties of run `extension_server` for
any number of calls, requests, events and ports.  The port, the origins of
requests, the mirrored events and the upstreams are four invariants proved
apart; `UpstreamIsWired` is inductive with the types, given that a call waiting
for a dial of the upstream in place will wire it.  It is the reason
`AfterConnect` is stated for a set of callers and the upstream of that moment.

The same module proves `NotClosedUnderClient` of `ClientLease` (the two share the
server; their names do not meet) under `LeaseAssumption`, for any number of clients.
The strengthening is `Outlives`: the lease is longer than the time until the next
touch a client owes it, by where the client is.  Every touch gives the lease one of
the configured timeouts, each above `Configuring` and `Gap`, so it outlives all
clients at a time, whichever of them touched it.

`Proxy_proofs` proves `InOrder` and `NothingLeftBehind`.  The second rests on
`ClientInv`: what may be launched or dialled at each stage of a socket, open or
closed.

The same module proves `ReadsWhatArrived` of `Framing` for any letters, bodies,
frames and bounds, given that one blob is read at a time (`FramesRead`; with two,
run `nats_blob` refutes it).  `FramingInv` says that the payloads handed on are the
bodies of the first k frames and that the buffer reads as the bytes from there to
`taken`.  The rest is about what the operators compute:

* Induction is over sets of numbers (`SetInduction`, from `WFMin` of the library):
  the theorems that take a predicate as a parameter are of no use to the provers.
* `FlattenSeq`: its type, length and what it does to `Append` and `\o`
  (`FlattenAppend`, `FlattenConcat`), each from the fact that its recursive
  function exists.
* Coding: what is decoded after it was encoded is the text, also of the piece
  between two whole characters; a text without two-byte characters has one byte per
  character, so its pieces decode one by one.
* One pass of each parser on a text that begins like the stream: it takes the first
  frame if it is there in full, leaves exactly what follows, and otherwise changes
  nothing.  For lines that is so because neither a header nor a legible body holds a
  CR, and because the size stated is the length of the body in what is counted:
  bytes on the native channel, characters of one byte elsewhere.  That is the
  hypothesis of `ReadsWhatArrived`.
* The loop: after n passes the first n frames that are there in full have been
  taken (`ReadAll`'s function is shown to exist by giving it).

`FramesInOrder` proves `DeliversSubsequence`, where bodies may hold any character,
with the same bound on blobs.  There the buffer is no piece of the stream, so
`OrderInv` has the buffer *read as* one: `Reads(text, Stream, a, b)` says that the
characters of `text` are, in turn, bytes after a, up to b, a half character being
read as `?`.  Some byte a is such that the buffer reads as the stream from there,
and everything handed on is a reading of the body of a message that starts before
a, each after the one before it (`Placed`).  A pass keeps this (`Follows`):

* It removes characters from the front, so a only grows, and a message is taken at
  its own first byte, which is not before a; the next a is past it.
* The word MSG in the stream begins a message or is inside a body (`MSGAt`).  In
  the first case the size is the message's own and what is taken for its payload
  either parses as a reading of the body or is dropped (`PayloadOfMessage`: a body
  read with more characters than it has bytes does not exist, one with fewer is
  taken together with what follows it, which ends the body for `JSON.parse`).  In the
  second case the line ends where the body does, with a word that is no number
  (`LineInBody`), and the parser stops: the connection delivers nothing more, but
  nothing wrong either.
* Over the pipe a is always where a message starts, since NUL is in no body.

The tcp channel needs that text written back as bytes never ends inside a character
(`BytesEnd`), which is why decoding the buffer anew with the next chunk is decoding
that chunk; and the native channel follows from `FramingInv`.

The proof asks the sender's frames for what the text is: an earlier `FrameText`
was a CASE whose guards were not exclusive, so that what the pipe carried was left
open; it now ends in OTHER.

Every safety property of the passing runs is proved.  Only model-checked:

* Liveness: `TimedCallsSettle`, `ClosedSocketSettlesCalls`, `CallsSettle`,
  `LinkComesUp`, `PeerAnswers`, `ClosedWhenAllGone`, `SocketSettles`.  Each needs
  its fairness turned into `ENABLED`, which the prover does not support.  What such
  a property needs of every state is proved where it is an invariant:
  `AwaitedAttemptRuns`, `NoMissedWakeup`, `WaitersCanBeRejected`,
  `NoWaiterOverlooked`, `KeepsTrying`, `EndsAgree`, `NoHelloMissed`, `NoCallForgotten`, `KeepsPolling`.

## 5. Findings

* Run `nats_blob`: both ends append a blob's text to the buffer as it was before
  the blob was read (`NATSDownstreamTransport.ts:215`,
  `NATSUpstreamTransport.ts:259`); blobs are what a browser delivers for binary
  messages.
* Run `proxy_preconnected`: in reversews mode a downstream client waits for a peer
  that connects after it did (`proxy.ts:219`), so the extension that is already
  there never serves it; the retry awaits a "listening" event emitted before
  (`proxy.ts:239`).  In the trace the listener comes up, the peer connects, the
  downstream websocket opens and its wait times out; nothing is closed.  (At this
  commit line 219 is not reached: the constructor called at line 194 throws,
  `ModCDPClient.ts:193`, which the model takes as repaired.)

Known disagreements that have no run.  The models contain each of them, so the
formulas named here are the ones TLC refutes when they are stated:

* `close()` sets `ws = null`, but a `connect()` that is still resolving its URL
  stores and dials a socket afterwards (`WSUpstreamTransport.ts:80-82`); the test
  `js/test/test.WSUpstreamTransport.ts:61` expects `ws` to stay null.  "No close()
  since the last connect() and ws # null" fails in `WSUpstreamTransport`.
* The close listener of a socket resets `connect_promise` and rejects all pending
  requests whichever socket it belongs to (`WSUpstreamTransport.ts:87`); the
  Python and Go translations check that the socket is still the current one.
* `forgetSession` deletes the target's route although it names another session
  (`AutoSessionRouter.ts:662`), against "remove only the state affected by the
  browser event" (lines 77-78).
* `ensureRouteForTarget` records a session after an await without asking whether
  it was detached meanwhile (line 219): `RoutesAreCurrent` fails in
  `AutoSessionRouter` with `Chunked = TRUE`.
* `close()` of the reverse listener awaits the end of every accepted socket but
  closes the current peer only; a connection that says hello during the wait stays
  (`ReverseWSUpstreamTransport.ts:174, 206`).

Seen while reading:

* Client: the constructor uses an undeclared name `config`
  (`client/ModCDPClient.ts:193`).  The schema default of the downstream timeout
  hides the four heartbeat intervals of line 532, and the heartbeat stopped by a
  lost connection is not started again (line 225).  One lease and one
  configuration serve all clients, the last `Mod.configure` wins.  A service worker
  that restarts forgets both, so a browser whose clients are gone may stay open.
* Proxy: a constructor that throws (`proxy.ts:194`) and a message that does not parse
  (line 275) are outside any `try`, so they end the process.  A downstream socket that closes during `connect()` closes a client that
  goes on to launch and dial (`proxy.ts:208-210`); in reversews mode it closes the
  shared listener.  No event is forwarded in that mode (lines 214-221), and every
  `connect()` of the shared transport registers `accept()` once more
  (`ReverseWSUpstreamTransport.ts:136`).
* Launcher and pipe: a browser whose pipe does not become ready, or whose
  `DevToolsActivePort` cannot be read, is left running
  (`LocalBrowserLauncher.ts:431, 473`); `close()` of the pipe does not call
  `emitClose()`, so its requests without a timer stay pending.
* chrome.debugger: an attached child is recorded as the target of its parent's tab
  (`ChromeDebuggerUpstreamTransport.ts:265`); events go through
  `emitUpstreamEvent` only (line 271), so what the client mirrors to its
  downstreams gets none of them.
* Server: a failed first `start()` is never done again (`ModCDPServer.ts:126`);
  `router.start()` returns at once for a second caller, and nobody sends
  `setDiscoverTargets` after a redial (`AutoSessionRouter.ts:130`).
* Reverse link and NATS: the hello of a socket that the hello timer has closed
  still makes it the current peer (`ReverseWSUpstreamTransport.ts:189-206`); a
  request without a timer that was written to a peer since replaced stays pending
  when that peer ends (lines 211, 219), and is rejected when a later one ends, even
  if its own could still answer (lines 216, 223); a protocol error before the hello
  has no listener (line 218) and ends the process; with certificates `connect()`
  awaits a "listening" event that the HTTPS server has emitted before (lines
  121-138) and never returns; the size in a MSG line counts bytes but the
  buffer is cut by UTF-16 units (`NATSUpstreamTransport.ts:278-283`), which is why
  `ReadsWhatArrived` has its hypothesis; `close()` during a dial over NATS and a
  new `connect()` let the catch block of the first dial drop the socket of the
  second (lines 130-133); `peer_seen` outlives the connection it was seen on (line
  46), so a command sent after a reconnect may find nobody.

## 6. Not modelled

* `translate/translate.ts` is pure text and method-name mapping: without its
  strings a model of it would be its own specification.
* `injector/*`, the profile and HTTP parts of `launcher/*`: sequences of commands
  and operating-system calls; other modules have their outcomes as steps of the
  environment.
* `types/*` declares and generates schemas; `extension/modcdp/service_worker.js`
  is the bundle of the TypeScript sources, and the Go and Python trees are
  translations of them.  These files hold most of the repository's lines, so the
  share of lines the models stand for stays small however much of the control is
  modelled.
* Of the modelled components: what each subsection of section 2 leaves out, in
  particular the maps of child sessions, isolated worlds, the topology views and
  the client's event waits.

What could follow: the child-session maps of the chrome.debugger transport
composed with the router; the client's event waits.
