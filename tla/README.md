# Verification of spider-mesh

spider-mesh is a service mesh in TypeScript: a process builds a `SpiderMesh`,
gives it local services and transporters, and calls the services of other nodes
as if they were local objects.  This directory holds TLA+ models of its
concurrent core, the TLC configurations that check them on small instances, and
proofs checked by TLAPS that hold for every size.

Everything is single-threaded JavaScript: a callback runs to completion, and
concurrency is the order in which timers, promise continuations, socket events
and calls of the user are run.  An action of a module is therefore one such
callback, with every state change it makes.

## 1. The system

| Part | Where (`src/packages/`) | State it keeps | Operations |
|---|---|---|---|
| Topology | `core/src/Topology.ts` | `nodes$`, `#lastSeen`, `#reachability`, `#verifyingNodes`, two timers, `events$` | bindLocalNode, upsertRemote, patchPeer, removeRemote, verifyNode, reportReachability, two eviction timers, close |
| Topology routing | `core/src/Topology.ts` | `#routingStates`: a round-robin index and active counts per service | route, report, `#selectNode` |
| RPC lifecycle | `core/src/SpiderMesh.ts` | `#rpc.pending` (caller), `#rpc.running` (provider) | callRemoteService, the request, response, cancel and offline events of a transporter |
| Local node | `core/src/SpiderMesh.ts` | `#me$` and its version, `#transporters`, `#localServices` | registerTransporter, `#refresh`, `#ensureLocalTransporterPresence`, setLocalTopics, probeService, waitForService |
| RemoteService, decorators | `core/src/RemoteService.ts`, `decorators/` | the nodes a proxy watches | method call, watch, wait |
| LimitConcurrency | `core/src/helpers/LimitConcurrency.ts` | a queue and the slots in use | call, settle, end of a returned stream |
| HTTP/2 RPC | `tcp/src/Http2Rpc.ts` | `#connections`, `#connecting`, `#reconnecting`, `#pendingConnections`, `#responseStreams` | send, connect with retry and backoff, connection loss, response streams, probe, stop |
| HTTP/2 pub/sub | `tcp/src/Http2Pubsub.ts` | sessions, subscriptions | publish, subscribe, close |
| Discovery adapter | `tcp/src/TopologyDiscoveryAdapter.ts` | the binding | membership stream to upsertRemote, removeRemote |
| WebSocket transporter | `ws/src/BaseWebsocketTransporter.ts` | `#connections`, `#inflight`, `#nodes`, `#topics` | connect loop, send, frames, close, failInflight, verify |
| WebSocket relay | `ws/src/WebsocketRelayServer.ts` | `#nodes`, `#services`, `#serviceRrIndex`, `#listeners`, `#pendingRequests` | hello, request, response, cancel, subscribe, socket close |
| WebSocket discovery | `ws/src/WebsocketDiscovery{Client,Server}.ts` | known nodes, sockets, metadata | connect loop, frames, close |
| Kubernetes discovery | `k8s/src/{KubernetesDiscovery,membership,NodeStream}.ts` | `#peers`, one stream per target, EndpointSlices with a resourceVersion | list and watch, apply, node stream, DNS fallback, verify |
| EventBus | `events/src/EventBus.ts` | `#topicReferences`, `#transporters$` | publish, subscribe, registerTransporter |

How they interact.  A Discovery (WebSocket, Kubernetes, adapter) calls
`upsertRemote` and `removeRemote` of Topology, and Topology calls back
`discovery.verify`.  A transporter reads Topology (`route`, `nodes$`) to choose
a target, reports back (`report`, `reportReachability`), and emits `request`,
`response`, `cancel` and `offline` events.  SpiderMesh consumes these events and
calls `transporter.send`.  The local node flows the other way: `#refresh` emits
`localNode$`, which Topology binds and every Discovery announces.

The hard behaviours, and what makes each part correct:

- *Topology*: reports, snapshots, verdicts and timers come from independent
  sources, in any order and sometimes in the same millisecond.  Correct when
  no report or time stamp of a removed node survives it, when the events can be counted, when
  silent and dead nodes go in bounded time and live ones do not, and when the
  local node never goes.
- *RPC lifecycle*: an attempt may end on seven paths while its `send()` is
  unsettled, packets are under way, or a cancel is pending.  Correct when each
  call ends once, values arrive in order and without gaps, cancels go out exactly
  when they should, and neither side keeps entries for ever.
- *Transports* (HTTP/2, WebSocket, relay): reconnects race answers and
  shutdown.  Correct when each request that was accepted is answered, rejected
  or reported offline, once, and reachability follows the connection.  The code
  falls short of the first in the cases that section 3 names.
- *Discoveries*: a watch ends and resumes, several targets may be one node.
  Correct when the membership converges to what the source says.
- *EventBus, LimitConcurrency, routing*: counters.  Correct when every
  increment is undone exactly once on each way out.

`PROJECT.json` lists the hazards one by one, at the line where each bites, with
the properties that cover it or the reason why none does.

## 2. What is modelled

Sizes of things are parameters, a `Map` of the code is a function whose value
for a missing key is a constant such as `Absent`, `NoSocket` or `NoPeer`, and an
asynchronous call is two actions, its start and its settlement.  A definition
marked *Mutant* next to the one it resembles is a plausible bug of that code: the
properties are shown to notice it.

| Module | Models | Checked by | Proved in |
|---|---|---|---|
| `Topology` | membership, reachability, verification, timers, events | `MCTopology` | `TopologyProofs` |
| `CallPromise` | what a subscriber of a call may rely on (abstract) | `KeepsPromise` of `RpcCall` | `RpcCallProofs` |
| `RpcCall` | the life of RPC calls on both nodes | `MCRpcCall`, `MCServiceCall` | `RpcCallProofs` |
| `Announcements` | services that start, and their snapshots over datagrams | `MCServiceCall` | |
| `ServiceWait`, `ServiceProbe` | waiting for a service, with a Topology and without | `MCServiceCall` | |
| `LimitConcurrency` | the queue and the slots of the decorator | `MCServiceCall` | `ServiceCallProofs` |
| `RemoteService` | subscribed, awaited and batch calls of a proxy | `MCServiceCall` | |
| `ServiceCall` | the five above with `RpcCall` | `MCServiceCall` | `ServiceCallProofs` |
| `TopologyRouting` | route and report: round robin, least active | `MCHttp2Rpc` | `Http2RpcProofs` |
| `Http2Link` | connections, attempts, reachability, stop | `MCHttp2Rpc` | `Http2RpcProofs` |
| `Http2Rpc` | requests and streams over `Http2Link` | `MCHttp2Rpc` | `Http2RpcProofs` |
| `WsLink` | sockets of a WebSocket library (external) | `MCWsMesh` | `WsMeshProofs` |
| `WsRelay` | the relay server | `MCWsMesh` | `WsMeshProofs` |
| `WsTransporter` | the transporter of a node | `MCWsMesh` | `WsMeshProofs` |
| `WsMesh` | nodes and relays together | `MCWsMesh` | `WsMeshProofs`, `WsCallProofs` |
| `K8sPeers` | node streams to targets, and Topology's members | `MCK8sDiscovery` | `K8sDiscoveryProofs` |
| `K8sDiscovery` | list, watch, DNS, and the cluster | `MCK8sDiscovery` | `K8sDiscoveryProofs` |
| `WsDiscovery` | the WebSocket discovery client and server | `MCEventMesh` | `EventMeshProofs` |
| `LocalNode` | every change of the snapshot a process announces | `MCEventMesh` | `EventMeshProofs` |
| `EventBus` | registration, links, reference counted topics | `MCEventMesh` | `EventMeshProofs` |
| `Http2Pubsub` | publish over HTTP/2 sessions | `MCEventMesh` | `EventMeshProofs` |
| `EventMesh` | the four above together | `MCEventMesh` | `EventMeshProofs` |

### Topology

A JavaScript `Map` is a total function: `Absent`, `Never`, `"none"` and
`"idle"` stand for a missing key.

| TLA+ | Code |
|---|---|
| `nodes`, `lastSeen`, `reachability`, `verifying` | `nodes$`, `#lastSeen`, `#reachability`, `#verifyingNodes` |
| `staleAt`, `evictAt` | when the callbacks of the two `setInterval` are due |
| `feed` | `events$`, folded the way a monitoring subscriber would fold it |
| `bound`, `life` | `#localNodeId`; open, closing (close() awaits the Discovery), closed |
| `goodAt`, `badAt`, `verifying.overtaken` | history, read by properties only |
| `BindLocalNode`, `UpsertRemote`, `PatchPeer`, `DiscoveryRemoves` | the calls of mesh and Discovery |
| `ReportReachability`, `VerifyNode` | the calls of transporters and of the user |
| `VerdictArrives`, `VerificationEnds` | the `.then()` and the `.finally()` of a verification, two microtasks |
| `StaleTimer`, `UnreachableTimer`, `Tick` | the interval timers and `Date.now()` |
| `Close`, `CloseEnds` | close(), before and after its `await` |

Data abstracted: of a snapshot only the version; endpoints and services of a
node matter to routing, not here.  `observed_at` is always the current time,
since no transporter of the repository passes it.  `Date.now()` does not go
backwards.

### RpcCall

Each attempt of a call is a request `<<call, attempt>>`, with an own entry in
four functions: `call` (the subscriber's view), `req` (the entry of
`#rpc.pending` and the variables of the attempt's closure), `wire` (packets under
way), `server` (the handler on the provider, with its entry of `#rpc.running`
and its chain of replies).

| TLA+ | Code (`SpiderMesh.ts`) |
|---|---|
| `Subscribe`, `RetryTimer` through `Try` | the `Observable` of callRemoteService and its `retry({ delay })` |
| `Timeout`, `Unsubscribe` through `GiveUp`, `Teardown` | `timeout({ each })`, unsubscribing, the teardown function |
| `RequestLeaves`, `SendResolves`, `SendRejects` | the promise of `transporter.send(request)` with its `.then()` and `.catch()` |
| `ResponseArrives`, `NodeOffline` | the response and offline events |
| `RequestArrives`, `MethodReturns`, `MethodFails`, `StreamStarts`, `StreamEmits`, `StreamEnds` | the request event, the settlement of the method's promise, its Observable |
| `ReplySends`, `ReplyFails`, `CancelArrives` | the chain of `reply()`, the cancel event |
| `LinkLost` | external: the connection that carries a request goes |

The transport is the `RpcTransporter` contract of `types.ts`, as far as
SpiderMesh uses it: the packets of one request stay in order; when the link is
lost, some of what was under way arrives, and then a pending `send()` rejects or
the request is answered as offline, unless the transport is *mute*: it has not
noticed, or has forgotten the request, and says nothing any more.  Values are numbered, so that order, gaps and
duplicates can be seen.  The retry delay and the timeout are timers without a
length: they fire at any time.  `fallback` only renames the outcome.

Not in `RpcCall`: a subscriber that starts a new call from inside its own error
handler, and the end of the process on an unhandled rejection (`void reply(...)`).
Both are in the list of hazards.

### Waiting for a service and calling it

`ServiceCall` composes what happens around an `RpcCall`.

| TLA+ | Code |
|---|---|
| `Announcements`: `ServiceOnline`, `HookFails`, `EndpointKnown` | `SpiderMesh` runs the hooks of a service, then lists it; a transporter tells its endpoint |
| `Refresh`, `Heartbeat`, `Receive`, `Lost` | `TopologyDiscoveryAdapter`: each snapshot is broadcast, the last one again as a heartbeat; a datagram may be lost, late or out of order |
| `ServiceWait`: `WaitForService`, `Emits`, `CheckEnds`, `CheckFails`, `Stops` | `waitForService` over `watchService` (250 ms) with a checker per list, and its stop signal |
| `ServiceProbe`: `PollStarts`, `ProbeAnswers`, `ProbeFails`, `PollingStops` | `waitForService` without a Topology: every 500 ms a poll asks one transporter after the other |
| `LimitConcurrency`: `waiting`, `slots`, `Admit` | `queue$`, the calls `mergeMap` counts as active, and its refill |
| `Call`, `Settles`, `HandsOut`, `Subscribes`, `SubscriptionEnds` | local calls of a limited method; they may drop or share its Observable |
| `RemoteService`: `Observed`, `Awaited`, `Batch`, `Leaves` | the three ways to use a proxy; `firstValueFrom` leaves at the first value |
| `MethodArrives` ... `MethodCancelled` | the handler of `RpcCall` behind the decorator: a slot is released when the method or its stream is over, for whatever reason |

`topology` chooses at the start whether the mesh was given a Topology.  A poll
overlaps with the next one, and a probe that never answers blocks the
transporters after it.  `takeUntil(stop$)` stands before `mergeMap`: checkers and
polls under way still count after the stop.  A hook that fails ends the announcing
of all later services (`SpiderMesh.ts:100`), which `HookFails` keeps.

### HTTP/2

| TLA+ | Code (`Http2Rpc.ts`) |
|---|---|
| `link[p]`, `disposed` | the entry of a node in `#connections`, `#connecting`, `#reconnecting`; `#isDisposing` |
| `Announced`, `Removed`, `Probed` | the events of Topology, `probe()` |
| `Connected`, `Unconnected`, `LoopWakes` | an attempt's outcome and the backoff |
| `Lost`, `AfterLoss`, `CloseEvent` | a session's loss and its later close event; the event of an older session may come after a new one opened |
| `reach`, `index`, `active` | what Topology is told; `#routingStates` |
| `call`, `cancel`, `serving`, `stream` | the caller's end of a request, its cancel, the provider's end, frames under way |
| `Send`, `ReportRoute`, `Headers`, `Item`, `Final`, `Broken`, `Cancel` | send() and the handlers of the response stream |
| `RequestArrives`, `Replies`, `StreamCloses`, `CancelArrives` | the server side |
| `Dispose`; `Cancel` in phase `late` | stop(); cancel() stays callable after it, and connects |

`forgotten` marks the nodes whose loop reported and went on (`:392` compares with
`===`, so that the report is made once for a loop).

### WebSocket

| TLA+ | Code |
|---|---|
| `client`, `remote`, `up`, `down` | the two ends of a socket and the frames under way; neither end knows the other's state |
| `WsRelay`: `me`, `nodes`, `listeners`, `index`, `rr`, `pending` | metadata of a socket, `#nodes`, `#listeners`, `#services`, `#serviceRrIndex`, `#pendingRequests` |
| `Accept`, `Close`, `Crash` | on_connection, on_close, the end of the process |
| `OnHello`, `OnRequest`, `OnResponse`, `OnCancel`, `OnSubscribe`, `OnUnsubscribe`, `OnPublish` | one handler each, with all the frames it sends |
| `WsTransporter`: `conn`, `known`, `inflight`, `topic`, `reach` | `#connections`, `#nodes`, `#inflight`, `#topics`, the reports to Topology |
| `Connect`, `Reconnect`, `Opened`, `Lost`, `CloseUrl` | the connection loop and close(url) |
| `Announce`, `HelloArrives`, `OfflineArrives` | the local node and the directory |
| `Send`, `Resolve`, `CancelCall`, `ResponseArrives`, `RequestArrives`, `CancelArrives`, `Reply` | RPC; `Resolve` is the rest of send() after its promise |
| `Listen`, `Unlisten`, `LingerEnds`, `PublishTo`, `PublishArrives` | topics, with `unsubscribeDelayMs` |

### Kubernetes

| TLA+ | Code |
|---|---|
| `peers`, `synced`, `members` | `#peers`, `#synced`, the remote nodes in Topology |
| `Apply`, `Unknown` | `#apply(snapshot)` and `#apply(null)` |
| `Line`, `Connects`, `Breaks` | `#onNode` and the loop of `NodeStream` |
| `history`, `version`, `slices` | the slices at each resourceVersion, the client's version and copy |
| `ListRead`, `ListArrives`, `WatchOpens`, `WatchEvent`, `WatchEnds`, `SourceFails`, `Denied`, `SourceWakes` | `kubernetesApiMembership` with 410, 401/403/404 and backoff |
| `ResolvesCached`, `ResolvesPartly`, `ResolveFails` | `dnsMembership`; one of the two families may fail to resolve |
| `Starts`, `Dies`, `ReadinessChanges`, `SliceChanges`, `Edits` | external: the cluster and the other processes |

### Events

| TLA+ | Code |
|---|---|
| `WsDiscovery`: `Connect` ... `CloseClient` | `WebsocketDiscoveryClient`: connection loop, hello and offline frames, verify, close |
| `Lost` by a close, or by an error | `close$` with `#clearNodes`, or `error$`, which ends the socket before its close: `leftover` is the history of what the directory then keeps |
| `Accept`, `HelloRead`, `ServerLoses`, `Crash`, `Restart` | `WebsocketDiscoveryServer` |
| `LocalNode`: `SetLocalTopics`, `SetMetadata`, `RegisterRpc`, `RpcEndpoints`, `UnregisterRpc` | `SpiderMesh.#refresh` and who calls it |
| `EventBus`: `Register`, `Unregister`, `Listening`, `Subscribe`, `Unsubscribe` | the transporters of a bus, their servers, links and `#topicReferences` |
| `Http2Pubsub`: `Publish`, `SessionOpens`, `PostArrives`, `Answered`, `SessionEnds`, `ClosePubsub`, `Outcome` | publish() to the nodes of a topic, its sessions and requests, close(); `Kept` sessions exist at the start |

A metric is modelled as the version of the node it belongs to.

## 3. What the runs check

| Run | Question | Instance |
|---|---|---|
| `topology_heartbeat` | Do Discovery, verification and the stale timer agree with events, traces and deadlines? | one id, which is the local node once it is bound and a remote node before; versions 0 and 1; time 0..4, staleness 2 |
| `topology_links` | Is a node evicted when all its links are down for the window, neither early nor late? | one id as above, two transporters, window 2, timer late by up to 1, time 0..5 |
| `topology_dropped_verdict` | *violated*: a dead verdict removes the node | one id, time 0..3 |
| `rpc_stream` | Does a wait for a service end?  Is the stream then delivered, cancelled and cleaned up exactly, and does its slot come back? | two providers, one of which comes later and is wanted, two transporters, two polls; one call with one attempt and up to two values, one slot, one local call with two subscriptions, one fault |
| `rpc_retry` | Do late packets of the first attempt leave the second alone? Does a call with a timeout end? | one call, two attempts, one value each |
| `rpc_early_cancel` | *violated*: a cancelled stream stops | one call, one node |
| `ws_calls` | Does a call through a relay end if losses are noticed, and is an abandoned one cancelled at its provider? | a caller with one socket, a provider with two, one relay; the caller may close once |
| `ws_directory` | Do index, directories and subscriptions follow what each node said last? | the same nodes, two services, one topic, a relay that may crash |
| `http2` | Do the reconnect loop, the reports to Topology, the routing counters and the streams agree? | two nodes, of which one has two connections, one request of one value, unreachable after two attempts |
| `k8s` | Does Topology follow the ready pods, and only them? | this process and two others, three addresses in two slices, one of which passes from a pod to the next; one fault, three versions |
| `events` | Does what a process listens for reach the publishers, and what they publish the listeners? | two processes with two sockets each, three transporters, three links (one by name, one that fans out), one message, one session kept from earlier to an instance that may be replaced, three changes, losses or errors of a socket |
| `discovery_reconnect` | *violated*: a discovery client reconnects | the same |

Each property is stated, with the code it is about, at its definition.  The ones to
read first:

- `TracesMatchMembership`, `EventsTellMembership`, `EventsTellReachability`: no
  report or time stamp of a removed node is left, and `events$` tells the whole state.
  `SilentNodesLeave`, `DownNodesLeave`: removal in bounded time, stated over the
  clock, so that no fairness is needed.  `NoEvictionInsideWindow`,
  `DeadVerdictIsCurrent`: what a removal may never do.
- `PendingIsCurrent`, `CancelsAreExact`, `OfflineSparesOthers`,
  `RunningMatchesStreams`: the two maps of `SpiderMesh` hold what is in flight, an
  abandoned request is cancelled exactly once, and an offline event fails its own
  requests only.  `AttemptsEnd`: without a timeout an attempt ends with its answer or
  its link, unless the transport is mute.  `KeepsPromise`: `RpcCall` implements `CallPromise`.
- `SlotsAreExact`: slots are neither lost, nor given twice, nor idle while a call
  waits.  `WaitsEnd`: a wait for a service that comes ends.
- `ReachIsCurrent`, `DownNodesAreReported`, `KeepsKnocking`: Topology is told the
  truth about a connection, and no member is given up.  `ActiveIsExact`: the
  least-active counter has all requests without headers yet, and nothing else at a node
  whose ended send()s were all reported.  `CallsAreCarried`: while its connection lives, a
  waiting call is on its way, at its provider, or answered.  `StopsForGood`: after stop()
  nothing is connected but for a call cancelled even later.
- `CallsAreInGoodHands`, `AbandonedStreamsStop`, `PendingHasBothEnds`,
  `IndexIsExact`, `DirectoryIsCurrent`, `StaleNodesAreUnreachable`,
  `SubscriptionsAreExact`: the relay and its clients agree.  Most of it holds through a
  socket that is replaced while the old one lives; `CallsAreInGoodHands` and
  `SubscriptionsAreExact` leave out the node that this happened to (`overlap`).
  `CallsEnd` of `WsMesh`: a call ends without a timeout if the losses it depends on are
  noticed, with the same exception.
- `PeersAreCurrent`, `MembersArePeers`, `KeepsReadyNodesUnlessPartial`,
  `Converges`: the streams follow the membership, the members the streams.
- `PublishersKnowListeners`, `VerifyTellsTheTruth`, `ResolvedMeansDelivered`: the
  topics announced reach the publishers, verify() does not contradict the server but for
  nodes left over after an error, and a publish that resolves has reached the listeners at
  the other end of the sessions it used.

### Bounds

*Topology*.  Nodes do not interact: no action reads the entry of one id to change
that of another, and the timers treat ids alike.  One id therefore shows every
behaviour of a node, and the id of the local node those of a remote one too,
before it is bound.  Two transporters are needed because a node is down only when
all of those that reported are.  `MaxTime` lets each timer fire at least twice
after a node has come.  `Lag` is 1 in one run so that a late timer happens.

*RPC*.  Two attempts are enough for late packets: more add attempts between which
nothing new can happen.  Two nodes make a wrong `destination_node_id` visible.  Two
values let a gap, a swap and a duplicate be told apart.  In `rpc_retry` no transport turns
mute (`NothingMute`): its fairness is that of the timers, so that a transport which says nothing
is there as one that is not scheduled, and `rpc_stream` has the mute ones.  In `rpc_stream` the call is
made from a state that `Settled` describes (all providers known as they are,
nothing lost), and discovery stands still afterwards: `RpcCall` leaves open anyway
which node is chosen.  `MaxFaults` bounds lost datagrams, deaths, failing hooks and
lost endpoints; with one, the heartbeat has to make good what was lost.

*HTTP/2*.  One request suffices as requests share only the counters and the link;
one node with two connections shows a late close event of the first.

*WebSocket*.  A socket is never used again, and a node has a bounded number of them.
The second socket of the provider is what shows an old socket's late close or
hello.  All runs have one relay; with two, the defects named below under two
relays would hide the others.

*Kubernetes*.  Three versions allow an expired one, two addresses of one pod in two
families a node known under two targets, and an address that passes on a ghost.

*Events*.  Three changes are a registration, a subscription and a loss; an error of a socket
counts as one, the close of a socket whose other end is closed does not.  Nodes start
connected, with one transporter listening, and the publisher with a session to an instance
that can be unregistered and replaced: with one message in the run, this is what lets a publish use a
session that was kept.

Symmetry is not used with liveness.  Deadlock is not checked where a system may
stop: a closed Topology or transport, calls that are all over, counters at their
bounds.

### Fairness

What the event loop and the timers of the code give:

- `TimerSpec` of `RpcCall`: the one timer a call waits for fires.
- `FairSpec` of `RpcCall` adds the promises and deliveries of a transport while the link is
  up, what it says of a link whose loss it noticed, and the chain of replies.  Of a mute
  transport nothing is assumed, nor of subscribers, user methods and streams, cancels, or
  links; that a transport is not mute is never assumed either.
- `Progress` of `WsMesh`: frames that arrived are read, promises settle, methods end.  It is
  not assumed that one end of a socket notices the loss of the other: no timer of the
  code sees to that (`BaseWebsocketTransporter.ts:302-309` pings and waits for no pong).
- `NewsArrives` of `ServiceCall`: the timers of waiting fire and heartbeats are sent.

What is assumed of the surroundings, since no code of the repository can give it:

- in `NewsArrives`, that one of the heartbeats sent arrives, and that checkers and probes
  answer.  Heartbeats are an option of the adapter; without them a lost snapshot is not
  made good;
- in `Progress`, that user methods end, and in `Fairness` of `EventMesh` that a discovery
  server that stopped is started again;
- in `Fairness` of `K8sDiscovery`, that a watch is not closed for ever before it delivered
  anything (the one strong fairness), that it delivers while it is open (the client has no
  timeout of its own for a watch), and that DNS gives the current addresses in the end.
  The idle timeout of `NodeStream` notices a dead stream.

### Disagreements found

1. `topology_dropped_verdict`.  `ARCHITECTURE.md:67-68` says that a dead verdict
   removes the membership.  An outage that begins while an older verification is
   in flight shares its promise; if a snapshot came in between, the dead answer
   is dropped and the second outage is never verified.
2. `rpc_early_cancel`.  `core/README.md:161` says that unsubscribing cancels the
   stream at the provider.  A cancel that arrives before the method's promise has
   settled is forgotten, and the stream that then starts is not stopped.
3. `discovery_reconnect`.  `WebsocketDiscoveryClient.ts:84` says that close() stops
   the reconnect loop.  A connection that is refused already does: errors are
   listened to only after `open` (`:147`), so `retry` never sees it.

Other places where the models follow the code into something its authors may not
want, or against what a document says; the properties leave them out by name, so that
they would not be refuted by them:

- Topology: `removeRemote` leaves the verification in flight (`Topology.ts:200-217`), which
  the next incarnation of the node shares (`:275`); and the counts of least-active.
- Least-active: the count goes down at the headers, which a provider sends on receipt, so
  that it is neither "the node processing the fewest requests" (`core/README.md:292`) nor
  the requests the transporter has not completed (`Topology.ts:376`).  A send() that fails
  in `#connect` (`Http2Rpc.ts:156`) or whose stream ends without headers (`:186-191`)
  reports nothing and its count is never given back.
- HTTP/2: a stream that ends without headers leaves send() unsettled (`:186-191`), although
  `tcp/README.md:214-218` ends the calls of a lost connection with
  `MICROSERVICE_OFFLINE`; cancel() after stop() opens a connection that nothing closes
  (`:220-227`); a cancelled streaming call keeps its HTTP/2 stream (`:459-462`).
- WebSocket: a loss that neither end notices leaves a call without a timeout waiting, as
  `ws/README.md:112-114` says and line 148 denies.  An old socket's late close or
  hello removes or captures the newer registration (`WebsocketRelayServer.ts:181`, `:244`), and
  a frame of the old socket about a topic that is read after those of the new one
  overwrites them (`:372-398`; `overlap` in the properties).  A socket closed in the turn of
  send() leaves the call hanging (`BaseWebsocketTransporter.ts:165-171`; `raced`).
  close(url) reports nothing.  With two relays, an offline from the one that reported last
  removes a node the other still serves, and a publish is delivered twice.
- WebSocket discovery: an error of the open socket ends it before its close, so that
  `#clearNodes` never runs (`WebsocketDiscoveryClient.ts:130-138`, `:163-164`) and verify()
  calls alive who left meanwhile (`leftover`); the late close of an older socket drops a
  process that is there (`WebsocketDiscoveryServer.ts:120-130`; `overlap`).  verify() right
  after a reconnection says dead before the hellos are read; server.close() leaves clients
  connected to a deaf server.  The refused connection of the third violation emits an
  `error` that nobody hears; where such an event is fatal, as on Node.js, it ends the process.
- Events: a session kept to an instance that has been replaced answers 204 to nobody
  (`Http2Pubsub.ts:110`, `:142`, `:43`), and a request closed without an end leaves
  publish() unsettled (`:91-103`).
- Kubernetes: a partial answer of DNS drops reachable nodes
  (`membership.ts:277-278`); a pod with two addresses goes when one of them goes
  (`KubernetesDiscovery.ts:258`).
## 4. What is proved

The proofs hold for all values of the constants that satisfy
the assumption their module names, which gives the parameters their types, says which
sets are finite where the code has a finite `Map`, and little more: any
number of nodes, transporters, sockets, calls and retries, any periods and
lateness, unbounded time.  What goes beyond types: `K8sPeersAssumption` has the pods
that exist at first at different addresses, and `WsLinkAssumption` has finitely many
nodes and requests, without which a relay could not list them in one message after another.

**Topology** (`TopologyProofs`).  Most invariants are not inductive alone.
`TopologyInv` joins three parts: `MembershipInv` (traces, events and the local
node: an event is sent exactly when an entry appears or goes, and a node with no
entry has no traces); `ClockInv` (no time stamp is in the future, the next
firing of a timer is at most a period away, and at its last firing no node was
overdue, from which the deadlines follow); `HistoryInv` (what `since` and the
remembered `seen` say about when something was reported).  Removal has four
callers, and the lemma `RemovalEffect` describes it once; `StepKinds` reduces each
action to a removal, a quiet step or one of the few others.  `TypeCorrect`,
`InvariantHolds`, `TracesMatch`, `LocalNodeNeverLeaves`, `MembershipEventsExact`,
`EndpointEventsExact`, `SilentNodesGo`, `DownNodesGo`, `WindowProtects` and
`DeadVerdictsAreCurrent` cover all properties of the passing runs.

**RpcCall** (`RpcCallProofs`).  `PendingIsCurrent` and `CancelsAreExact` depend on
each other: a cancel is exact only if the teardown runs once, and that is so
because the entry is known exactly while the attempt is open.  `AttemptsInv` says
it of each call (`CallSound`) and request (`ReqSound`), and that later attempts
are unused.  For `OfflineSparesOthers`, `CarrierInv` says that an attempt believed
to be served by a node is carried by it, or not yet carried and pinned to it.
For `RunningMatchesStreams`, `ProviderInv` says that a request arrives once, with
its cancel behind it, and that an entry without a stream has its terminal reply in
the chain.  The theorems are `TypeCorrect`, `PendingExact`, `CancelsExact`,
`OfflineIsPrecise` and `RunningIsExact`.

**HTTP/2** (`Http2RpcProofs`).  `Inv` is `LinkInv`, which says of each node that its
link is tidy, knocking, current and reporting (`Sound`), and `CallInv`, which says of
each request where it is carried (`Carries`).  Both speak of one node or one request
at a time, so that an action is one lemma about the node or request it changes.
`ActiveIsExact` is proved by counting (`CountsInv`): the counter is the number of requests
that have not reported, the unsettled ones and those that never will, and an action adds or
takes away one element.  `StopsForGood` is inductive with `LateStays` (a call cancelled
after stop() remains so, at its node) and `HeldStays` (after stop() a link is held only by
who held it before, or by such a cancel).  The theorems are `Typing`,
`Knocks`, `ReachIsTrue`, `DownIsReported`, `Carriage`, `StopIsFinal` and
`LeastActiveCounts`.  `DownIsReported` assumes `UnreachableAfter > 1`: with 1, the late
close event of an older session overwrites the only report of the loop.

**The promise of a call** (`RpcCallProofs`).  `PromiseKept` is the refinement
`Spec => KeepsPromise`: under the refinement mapping of `RpcCall` every step of caller, wire
and provider is a step of `CallPromise` or a stutter.  `PromiseInv` adds `AnswersInv` to the
invariants of `RpcCallProofs`: what is still to come of an answer, on the wire or in the
reply chain, continues what the subscriber has got, in order and without a gap, and
says the end once and last; of a request that has not left there is no answer.

**Services around the calls** (`ServiceCallProofs`).  `ServiceMakesCalls` shows that
discovery, proxies, waits and the decorator make no step that is not one of `RpcCall`,
and `ServiceCallsAreSafe` carries the invariants over.  `SlotsExact` has an invariant of
its own, `SlotInv`: nobody queues twice or while holding a slot (`Lined`), the slots are
all held while somebody queues (`Full`), and only a call whose method has not answered
queues (`Young`), without which a call that ends would leave its place behind.

**Kubernetes** (`K8sDiscoveryProofs`).  `SourceSound` relates phase, version, slices and
streams: the slices are those of the version, and the streams go to its addresses. It
needs `HistorySteps`: from one version to the next, one slice has changed, which is what
a watch event says.  `StreamsSound` says which process a stream may have told of; together
with `AddressesHeldOnce` (no two living processes share an address) it gives
`ReadyNodesStay`, an action property: a step takes a member away only with its stream,
and the streams to an address that is listed in every version stay.  `PeersFollow` and
`NoGhosts` are parts of the invariant.

**WebSocket relays** (`WsMeshProofs`).  `WsInv` has three parts: `LinkTypeOK`;
`RelayInv`, that the relay's maps agree (the socket registered for a node is open, belongs
to this relay and its metadata names the node; the index offers what the metadata lists,
no node twice; a pending entry has two open sockets); and `NodeInv`, that a node's
connections have sockets of their own in the state their loop is in.  `PendingIsLive` and
`IndexFollows` follow.  `SubscriptionsFollow` takes more, since frames are under way:
`TopicInv` adds that the last frame under way about a topic tells the truth or, if none
is, the relay's listeners do (`Agrees`); that a socket without metadata has a
hello and the topics at the head of its queue (`Introduced`); that nodes say hello in their
own name (`OwnNames`); and that two live sockets of a node are on record (`OverlapSound`).

`DirectoryFollows` and `LeftoversAreUnreachable` rest on `NewsInv`, which follows the
news of one node on its way to another.  The last frame under way about a node says what the
relay has registered (`LastWord`); with none under way the receiver believes just that
(`Follows`, `Believes`): the services of the hello, or, of a node that is not registered,
nothing or that it is unreachable (`Doubted`).  While a node has no open connection it
doubts every entry it has (`Dormant`), so what a reconnection leaves over stays doubted until
a hello revokes it.  `#shouldSyncDiscovery` enters where the relay keeps silent: it does so
only if what it would say has been said.  Both theorems assume one relay: with two, the
directory of a node is what the last of them said, and the property is not meant.

**Calls over the relays** (`WsCallProofs`).  `AbandonedStreamsStop` spans five places: the
caller's socket, the relay's queue, its pending map, the provider's queue and the method
that serves.  `CallInv` adds to `WsInv` that a request is in one of them at a time
(`GoingUp`, `GoingDown`, `Served`: while it is on its way up, nobody has it in hand and
no final answer exists; while it is served, no final answer exists), that no cancel is
ahead of its request in a queue (`Ordered`), and above all `Bound`: from the moment the
relay has passed a request on, the relay's entry names this caller and this provider, or a
cancel is behind the request in the provider's queue.  `GivenUp` says the same at the other
end: what a caller that cancelled has left behind is a cancel not yet read, or no entry.
`RequestFades` states once what a step must leave alone so that the invariant survives
for the requests it is not about; each action then has only its own request to account for.

`CallsAreKept` says where a call is that its caller still waits for.  `HandsInv` adds to
`CallInv` and `TopicInv` that it is `Handled`: the request is on its way to the relay; or the
relay has an entry for it, the caller is registered, and the provider of the entry owes the
answer (`Entered`, `Owed`: the request or the final answer is under way, the method runs, or
the connection is lost and its close will fail the call); or the last frame of the answer
is on its way down; or the relay has closed the caller's socket, which ends the call there; save the two cases
the property leaves out, `raced` and `overlap`.
That is inductive with five facts around it: the caller is registered when its request is
read, since hello is the first frame on a socket (`Enlisting`); the entry names the
socket the request went to (`Placed`); a final frame goes to the caller and to nobody
else (`Addressed`); no provider is told to cancel without a reason (`Reasoned`); and a
stream is mute only when its connection is lost (`Silenced`).  One relay is assumed here too:
a provider that has lost a relay may answer over another one, whose own failure then
takes the answer with it.


**Events** (`EventMeshProofs`).  `EventInv` has a part for each layer.  `DiscoveryInv` is
about what is under way: the last frame about a node in a client's queue is what the server
knows of that node, and with no frame about it the client and Topology agree with the server
in all that the client has heard since it connected (`HeardOf`, its directory less what an
error left in it; `Tells`); what is on its way to the server ends with what the node is
(`Learns`); no snapshot anywhere is newer than its node, or names a transporter of another
(`Genuine`), so that the version guard of Topology never keeps an older snapshot against
the current one.  That rests on the sockets: a socket not yet opened is unused, a client
that waits has heard of nobody, and a node with two open sockets is in `overlap`.  `BusInv` counts:
a reference count is the cardinality of the links that listen to the topic
(`ReferencesAreExact`), the announced topics are those with references, the endpoints those
of the transporters that are registered and have started.  `PubsubInv` follows a request:
a session leads to a transporter of its node and stays while it has requests; until a link
that is owed an event has heard it, the request that serves it is under way to a transporter
that link listens to, or lost (`Serves`); a publisher that does not fan out has all its
requests at one transporter (`PostedOnce`).  `VerdictsAreTheServers`, `ListenersAreKnown`
and `DeliveredWhenResolved` follow.  The proofs need what the code takes for granted of its
configuration: finitely many nodes and links, and an event transporter whose name is not
that of the RPC transporter, since the snapshot has one entry for each name.

**Only model-checked**: the liveness properties (`AttemptsEnd`, `CallsEnd`, `WaitsEnd` and
`Converges`), which need fairness and ENABLED and are beyond this prover, and the three
expected violations, where the counterexample is the result and there is nothing to prove.
Every safety invariant and action property that a passing run checks is stated by a
theorem too; three of those, about the relays, are stated of a mesh with one relay, as
the runs check them.

## 5. What is not modelled

Encoding, logging, HTTP and WebSocket framing, TLS and the Kubernetes client's
I/O are left to the libraries.  Of the parts that are modelled, the following is
left out, as `PROJECT.json` says for each component: `resolveService` and the
deprecated `pickRpcNode`, which choose as `route` does; a transporter that
registers during a poll; `set()` and the merged options of RemoteService, the names
no method may have, and the decorators, which note metadata; verify and close of the
discovery adapter; `watchService` and pings of the WebSocket transporter; an invalid
frame in the discovery client; processes of another mesh namespace, of which one at an address used again would keep the
older node a member (`KubernetesDiscovery.ts:269-275`); process restarts
with the same node id in `EventMesh`.  Two hazards at `SpiderMesh.ts` have no
property: a subscriber that starts a call from inside its own error handler
(`:239`), and the end of the process on the unhandled rejection of a reply (`:445`).

## 6. Running it

    tlc -workers 2 -config MCTopology_links.cfg MCTopology
    tlapm TopologyProofs.tla

Each run of `PROJECT.json` names its module and configuration; the longest takes
about three minutes.
