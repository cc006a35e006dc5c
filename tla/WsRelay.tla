------------------------------ MODULE WsRelay ------------------------------
(***************************************************************************)
(* The relay of packages/ws: WebsocketRelayServer.ts.  It keeps the        *)
(* directory of the nodes that said hello, an index of their services, the *)
(* listeners of each topic, and the two ends of every request in flight.   *)
(*                                                                         *)
(* One action per kind of frame and one for the close of a socket; each is *)
(* the whole handler with every frame it sends.  The order in which the    *)
(* hellos of a directory leave is not modelled: they are about different   *)
(* nodes.  Every connection is taken for that of a server, as the relay    *)
(* does unless isServerConnection is given.  Relays do not know of one     *)
(* another, so every map has the relay as its first index.                 *)
(***************************************************************************)
EXTENDS WsLink, SequencesExt

VARIABLES
    me,         \* metadata of each socket: the last hello received on it
    nodes,      \* #nodes: the socket registered for a node
    listeners,  \* #listeners: the nodes that subscribed to a topic
    index,      \* #services: the providers of a service, in insertion order
    rr,         \* #serviceRrIndex, -1 when undefined
    pending     \* #pendingRequests

relayVars == <<me, nodes, listeners, index, rr, pending>>

Nobody == [node |-> NoNode, services |-> {}]
NoEntry == [caller |-> NoSocket, provider |-> NoSocket]

RelayInit ==
    /\ me = [s \in Sockets |-> Nobody]
    /\ nodes = [k \in Relays |-> [n \in Nodes |-> NoSocket]]
    /\ listeners = [k \in Relays |-> [t \in Topics |-> {}]]
    /\ index = [k \in Relays |-> [v \in Services |-> <<>>]]
    /\ rr = [k \in Relays |-> [v \in Services |-> -1]]
    /\ pending = [k \in Relays |-> [r \in Requests |-> NoEntry]]

IsOpen(s) == s # NoSocket /\ remote[s] = "open"

-----------------------------------------------------------------------------
(* What a handler sends: a function from sockets to sequences of frames.   *)

Silence == [s \in Sockets |-> <<>>]
To(s, frame) == [t \in Sockets |-> IF t = s THEN <<frame>> ELSE <<>>]
Also(first, second) == [t \in Sockets |-> first[t] \o second[t]]

\* on_broadcast: every other connection of a server.
Broadcast(frame, sender) ==
    [t \in Sockets |-> IF /\ t # sender
                          /\ RelayOf(t) = RelayOf(sender)
                       THEN <<frame>> ELSE <<>>]

\* #syncClientState: a hello for each registered node, but not for the socket itself.
Directory(t, registered, metadata) ==
    LET others == {n \in Nodes : registered[RelayOf(t)][n] \notin {NoSocket, t}}
    IN SetToSeq({Hello(n, metadata[registered[RelayOf(t)][n]].services) : n \in others})

\* #syncServerConnections
Sync(k, registered, metadata) ==
    [t \in Sockets |-> IF RelayOf(t) = k THEN Directory(t, registered, metadata) ELSE <<>>]

\* Only sockets whose readyState is OPEN are written to.
Write(readyState, frames) ==
    down' = [s \in Sockets |-> IF readyState[s] = "open" /\ client[s] # "closed"
                               THEN down[s] \o frames[s] ELSE down[s]]
Deliver(frames) == Write(remote, frames)

-----------------------------------------------------------------------------
(* The service index.                                                      *)

\* A Set without one of its members.
Without(set, n) ==
    LET at == CHOOSE j \in DOMAIN set : set[j] = n
    IN IF \E j \in DOMAIN set : set[j] = n
       THEN [j \in 1..(Len(set) - 1) |-> IF j < at THEN set[j] ELSE set[j + 1]]
       ELSE set

Unindexed(ix, n) == [v \in Services |-> Without(ix[v], n)]

\* Mutant: services no longer offered stay.
ReindexedOnlyNew(ix, n, services) ==
    [v \in Services |-> IF v \in services THEN Append(Without(ix[v], n), n) ELSE ix[v]]

\* #updateServiceIndex: a node that says hello again moves to the end.
Reindexed(ix, n, services) ==
    [v \in Services |-> IF v \in services THEN Append(Without(ix[v], n), n)
                        ELSE Without(ix[v], n)]

\* #removeFromServiceIndex forgets the round robin of a service with no provider left.
ResetEmpty(robin, ix) == [v \in Services |-> IF ix[v] = <<>> THEN -1 ELSE robin[v]]

\* #removeTopicListeners
Unlistened(at, n) == [t \in Topics |-> at[t] \ {n}]

\* #resolveSenderId
SenderOf(s) == me[s].node

\* #sendOfflineError
OfflineAnswer(r) == Response(r, NoNode, NoNode, "offline")

\* #pickServiceNode: the next of the providers whose socket is open.
Open(k, v) == {j \in DOMAIN index[k][v] : IsOpen(nodes[k][index[k][v][j]])}
NextIndex(k, v) == (rr[k][v] + 1) % Cardinality(Open(k, v))
Picked(k, v) ==
    index[k][v][CHOOSE j \in Open(k, v) :
                    Cardinality({i \in Open(k, v) : i < j}) = NextIndex(k, v)]

-----------------------------------------------------------------------------
(* Connections.                                                            *)

\* on_connection, and the microtask that tells a new server the directory.
Accept(s) ==
    /\ client[s] = "connecting" /\ remote[s] = "unused"
    /\ remote' = [remote EXCEPT ![s] = "open"]
    /\ down' = [down EXCEPT ![s] = @ \o Directory(s, nodes, me)]
    /\ UNCHANGED <<client, up, me, nodes, listeners, index, rr, pending>>

\* Mutant: only the requests the socket made.
InvolvedAsCaller(k, s) == {r \in Requests : pending[k][r].caller = s}

\* #failPendingRequests: the other end of each request of the socket is told.
Involved(k, s) == {r \in Requests : s \in {pending[k][r].caller, pending[k][r].provider}}
\* Mutant: the callers of a provider that leaves are not told.
FarewellToProviders(k, s) ==
    [t \in Sockets |-> SetToSeq(
        {Cancel(r) : r \in {q \in Involved(k, s) : pending[k][q].provider = t /\ t # s}})]

Farewell(k, s) ==
    [t \in Sockets |-> SetToSeq(
        {OfflineAnswer(r) : r \in {q \in Involved(k, s) :
                pending[k][q].caller = t /\ t # s}}
        \cup {Cancel(r) : r \in {q \in Involved(k, s) :
                pending[k][q].provider = t /\ t # s}})]

\* on_close: requests first, then membership, by the node_id of the socket's metadata.
Close(s) ==
    LET k == RelayOf(s)
        n == me[s].node
        after == [remote EXCEPT ![s] = "closed"]
        registered == [nodes EXCEPT ![k][n] = NoSocket]
    IN
    /\ remote[s] = "open"
    /\ remote' = after
    /\ up' = [up EXCEPT ![s] = <<>>]
    /\ pending' = [pending EXCEPT ![k] =
                      [r \in Requests |-> IF r \in Involved(k, s) THEN NoEntry ELSE @[r]]]
    /\ me' = [me EXCEPT ![s] = Nobody]
    /\ IF n = NoNode
       THEN /\ Write(after, Farewell(k, s))
            /\ UNCHANGED <<nodes, listeners, index, rr>>
       ELSE /\ nodes' = registered
            /\ listeners' = [listeners EXCEPT ![k] = Unlistened(@, n)]
            /\ index' = [index EXCEPT ![k] = Unindexed(@, n)]
            /\ rr' = [rr EXCEPT ![k] = ResetEmpty(@, Unindexed(index[k], n))]
            /\ Write(after, Also(Farewell(k, s),
                                 Also(Broadcast(Offline(n), s), Sync(k, registered, me))))
    /\ UNCHANGED client

\* The relay's process ends and starts again: its sockets and its maps are gone.
Crash(k) ==
    /\ k \in Crashing
    /\ \E s \in Sockets : RelayOf(s) = k /\ remote[s] = "open"
    /\ remote' = [s \in Sockets |-> IF RelayOf(s) = k /\ remote[s] # "unused"
                                    THEN "closed" ELSE remote[s]]
    /\ up' = [s \in Sockets |-> IF RelayOf(s) = k /\ remote[s] # "unused"
                                THEN <<>> ELSE up[s]]
    /\ me' = [s \in Sockets |-> IF RelayOf(s) = k THEN Nobody ELSE me[s]]
    /\ nodes' = [nodes EXCEPT ![k] = [n \in Nodes |-> NoSocket]]
    /\ listeners' = [listeners EXCEPT ![k] = [t \in Topics |-> {}]]
    /\ index' = [index EXCEPT ![k] = [v \in Services |-> <<>>]]
    /\ rr' = [rr EXCEPT ![k] = [v \in Services |-> -1]]
    /\ pending' = [pending EXCEPT ![k] = [r \in Requests |-> NoEntry]]
    /\ UNCHANGED <<client, down>>

-----------------------------------------------------------------------------
(* Frames.                                                                 *)

Reads(s, type) ==
    /\ remote[s] = "open"
    /\ up[s] # <<>>
    /\ Head(up[s]).type = type
    /\ up' = [up EXCEPT ![s] = Tail(@)]

\* Mutant: only a node that was not there is news.
ShouldSyncNewcomers(k, n, services) == nodes[k][n] = NoSocket

\* #shouldSyncDiscovery compares the service list with the one registered before.
ShouldSync(k, n, services) ==
    \/ nodes[k][n] = NoSocket
    \/ me[nodes[k][n]].services # services

\* hello: #registerNode, then the directory to all servers if the services changed.
OnHello(s) ==
    LET k == RelayOf(s)
        n == Head(up[s]).node
        services == Head(up[s]).services
        was == me[s].node
        moved == was \notin {NoNode, n}
        kept == IF moved THEN [nodes EXCEPT ![k][was] = NoSocket] ELSE nodes
        registered == [kept EXCEPT ![k][n] = s]
        metadata == [me EXCEPT ![s] = [node |-> n, services |-> services]]
        cleared == IF moved THEN Unindexed(index[k], was) ELSE index[k]
        left == IF moved THEN Broadcast(Offline(was), s) ELSE Silence
        synced == IF ShouldSync(k, n, services) THEN Sync(k, registered, metadata) ELSE Silence
    IN
    /\ Reads(s, "hello")
    /\ nodes' = registered
    /\ me' = metadata
    /\ listeners' = IF moved
                    THEN [listeners EXCEPT ![k] = Unlistened(@, was)]
                    ELSE listeners
    /\ index' = [index EXCEPT ![k] = Reindexed(cleared, n, services)]
    /\ rr' = IF moved THEN [rr EXCEPT ![k] = ResetEmpty(@, cleared)] ELSE rr
    /\ Deliver(Also(left, synced))
    /\ UNCHANGED <<client, remote, pending>>

\* Mutant: any response ends the request.
OnResponseEndsRequest(s) ==
    LET k == RelayOf(s)
        f == Head(up[s])
        target == IF f.destination = NoNode THEN NoSocket ELSE nodes[k][f.destination]
    IN
    /\ Reads(s, "response")
    /\ Deliver(IF IsOpen(target) THEN To(target, f) ELSE Silence)
    /\ pending' = [pending EXCEPT ![k][f.request] = NoEntry]
    /\ UNCHANGED <<client, remote, me, nodes, listeners, index, rr>>

\* A response goes to the socket registered for its destination, if that is open.
OnResponse(s) ==
    LET k == RelayOf(s)
        f == Head(up[s])
        target == IF f.destination = NoNode THEN NoSocket ELSE nodes[k][f.destination]
    IN
    /\ Reads(s, "response")
    /\ Deliver(IF IsOpen(target) THEN To(target, f) ELSE Silence)
    /\ pending' = IF f.end # "more" THEN [pending EXCEPT ![k][f.request] = NoEntry] ELSE pending
    /\ UNCHANGED <<client, remote, me, nodes, listeners, index, rr>>

\* A request, pinned to a node or given to the next provider of the service.
OnRequest(s) ==
    LET k == RelayOf(s)
        f == Head(up[s])
        picks == f.destination = NoNode /\ Open(k, f.service) # {}
        target == IF f.destination # NoNode THEN nodes[k][f.destination]
                  ELSE IF picks THEN nodes[k][Picked(k, f.service)]
                  ELSE NoSocket
    IN
    /\ Reads(s, "request")
    /\ rr' = IF picks THEN [rr EXCEPT ![k][f.service] = NextIndex(k, f.service)] ELSE rr
    /\ IF IsOpen(target)
       THEN /\ pending' = [pending EXCEPT ![k][f.request] =
                              [caller |-> s, provider |-> target]]
            /\ Deliver(To(target, f))
       ELSE /\ Deliver(To(s, OfflineAnswer(f.request)))
            /\ UNCHANGED pending
    /\ UNCHANGED <<client, remote, me, nodes, listeners, index>>

OnCancel(s) ==
    LET k == RelayOf(s)
        r == Head(up[s]).request
    IN
    /\ Reads(s, "cancel")
    /\ pending' = [pending EXCEPT ![k][r] = NoEntry]
    /\ Deliver(IF pending[k][r] = NoEntry THEN Silence
               ELSE To(pending[k][r].provider, Cancel(r)))
    /\ UNCHANGED <<client, remote, me, nodes, listeners, index, rr>>

\* subscribe replaces all topics of the sender, who must have said hello.
OnSubscribe(s) ==
    LET k == RelayOf(s)
        n == SenderOf(s)
        others == Unlistened(listeners[k], n)
    IN
    /\ Reads(s, "subscribe")
    /\ listeners' = IF n = NoNode THEN listeners
                    ELSE [listeners EXCEPT ![k] = [t \in Topics |->
                             others[t] \cup {i \in {n} : t \in Head(up[s]).topics}]]
    /\ UNCHANGED <<client, remote, down, me, nodes, index, rr, pending>>

OnUnsubscribe(s) ==
    /\ Reads(s, "unsubscribe")
    /\ listeners' = IF SenderOf(s) = NoNode THEN listeners
                    ELSE [listeners EXCEPT ![RelayOf(s)][Head(up[s]).topic] = @ \ {SenderOf(s)}]
    /\ UNCHANGED <<client, remote, down, me, nodes, index, rr, pending>>

\* publish: once to each listener, the publisher included; only hellos are needed.
OnPublish(s) ==
    LET k == RelayOf(s)
        f == Head(up[s])
        receivers == {nodes[k][n] : n \in listeners[k][f.topic]}
    IN
    /\ Reads(s, "publish")
    /\ Deliver([t \in Sockets |-> IF me[s].node # NoNode /\ t \in receivers
                                  THEN <<f>> ELSE <<>>])
    /\ UNCHANGED <<client, remote, relayVars>>

OnMessage(s) ==
    \/ OnHello(s) \/ OnResponse(s) \/ OnRequest(s) \/ OnCancel(s)
    \/ OnSubscribe(s) \/ OnUnsubscribe(s) \/ OnPublish(s)

RelayStep ==
    \/ \E s \in Sockets : Accept(s) \/ Close(s) \/ OnMessage(s)
    \/ \E k \in Relays : Crash(k)

=============================================================================
