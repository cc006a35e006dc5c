------------------------------- MODULE WsMesh -------------------------------
(***************************************************************************)
(* Nodes and relays of packages/ws together: every frame one side sends is *)
(* read by the other, and either side may lose a socket without the other  *)
(* noticing at once.                                                       *)
(***************************************************************************)
EXTENDS WsRelay, WsTransporter, Functions

VARIABLES
    overlap     \* history: a node's old and new socket were both live at a relay

vars == <<linkVars, relayVars, nodeVars, overlap>>

Init == LinkInit /\ RelayInit /\ NodeInit /\ overlap = {}

Overlaps(s) ==
    \E t \in Sockets \ {s} :
        remote[t] = "open" /\ Owner(t) = Owner(s) /\ RelayOf(t) = RelayOf(s)

RelayActs ==
    /\ RelayStep
    /\ UNCHANGED nodeVars
    /\ overlap' = overlap \cup
          {<<Owner(s), RelayOf(s)>> : s \in {t \in Sockets : remote[t] = "unused"
                                                            /\ remote'[t] = "open"
                                                            /\ Overlaps(t)}}

NodeActs ==
    /\ \E n \in Nodes : NodeStep(n)
    /\ UNCHANGED <<relayVars, overlap>>

Next == RelayActs \/ NodeActs

Spec == Init /\ [][Next]_vars

\* Frames that arrived are handled, and methods come to an end.  That an end notices the
\* loss of the other is not assumed: the relay has neither ping nor idle timer, and the
\* client waits for no pong (BaseWebsocketTransporter.ts:302-309).
Progress ==
    \/ /\ UNCHANGED <<nodeVars, overlap>>
       /\ \E s \in Sockets : OnMessage(s)
    \/ /\ UNCHANGED <<relayVars, overlap>>
       /\ \E n \in Nodes :
             \/ \E k \in Relays :
                   \/ HelloArrives(n, k) \/ OfflineArrives(n, k) \/ ResponseArrives(n, k)
                   \/ RequestArrives(n, k) \/ CancelArrives(n, k) \/ PublishArrives(n, k)
             \/ \E r \in Requests :
                   \/ Reply(n, r, "completed")
                   \/ CallerOf[r] = n /\ Resolve(r)

FairSpec == Spec /\ WF_vars(Progress)

-----------------------------------------------------------------------------
(* Types.                                                                  *)

\* Every variable has the shape the code gives it; in particular the providers of a
\* service are a Set (WebsocketRelayServer.ts:40): no node is in it twice.
TypeOK ==
    /\ LinkTypeOK
    /\ me \in [Sockets -> [node : Nodes \cup {NoNode}, services : SUBSET Services]]
    /\ nodes \in [Relays -> [Nodes -> Sockets \cup {NoSocket}]]
    /\ listeners \in [Relays -> [Topics -> SUBSET Nodes]]
    /\ index \in [Relays -> [Services -> Seq(Nodes)]]
    /\ \A k \in Relays, v \in Services : IsInjective(index[k][v])
    /\ rr \in [Relays -> [Services -> -1..(Cardinality(Nodes) - 1)]]
    /\ pending \in [Relays -> [Requests -> [caller : Sockets \cup {NoSocket},
                                             provider : Sockets \cup {NoSocket}]]]
    /\ conn \in [Nodes -> [Relays -> [phase : {"off", "waiting", "connecting", "open"},
                                       socket : Sockets \cup {NoSocket}]]]
    /\ local \in [Nodes -> [services : SUBSET Services, speaks : Nat, closes : Nat]]
    /\ known \in [Nodes -> [Nodes -> [relay : Relays \cup {NoRelay},
                                       services : SUBSET Services]]]
    /\ reach \in [Nodes -> [Nodes -> {"none", "reachable", "unreachable"}]]
    /\ inflight \in [Requests -> Sockets \cup {NoSocket}]
    /\ call \in [Requests -> [phase : {"idle", "sending", "sent", "answered", "cancelled",
                                       "disconnected", "offline"},
                               destination : Nodes \cup {NoNode},
                               socket : Sockets \cup {NoSocket}, raced : BOOLEAN]]
    /\ serving \in [Requests -> [by : Nodes \cup {NoNode}, via : Sockets \cup {NoSocket},
                                  made : 0..MaxItems, mute : BOOLEAN]]
    /\ topic \in [Nodes -> [Topics -> {"none", "on", "lingering"}]]

-----------------------------------------------------------------------------
(* Calls.                                                                  *)

Holds(queue, type, r) == \E j \in DOMAIN queue : queue[j].type = type /\ queue[j].request = r
HoldsFinal(queue, r) ==
    \E j \in DOMAIN queue : /\ queue[j].type = "response" /\ queue[j].request = r
                            /\ queue[j].end # "more"

\* The provider at socket q still owes the answer, or will be found to be gone.
AtProvider(r, q) ==
    \/ client[q] = "closed"
    \/ Holds(down[q], "request", r)
    \/ serving[r].by = Owner(q)
    \/ \E t \in Sockets : Owner(t) = Owner(q) /\ remote[t] = "open" /\ HoldsFinal(up[t], r)

\* No call is forgotten: as long as a caller waits, its request is on its way, at the
\* relay with a provider that owes the answer, or answered, or a socket whose loss will
\* end it has been lost (packages/ws/README.md:148: a call ends even without a timeout).
\* Two cases are left out, in which the code does forget: the socket was closed while send() was
\* unsettled (BaseWebsocketTransporter.ts:165-171), and an old socket of the caller was
\* still live at the relay when it connected again (WebsocketRelayServer.ts:181).
CallsAreInGoodHands ==
    \A r \in Requests :
        call[r].phase = "sent" /\ ~call[r].raced =>
            LET s == call[r].socket
                k == RelayOf(s)
                n == CallerOf[r]
            IN /\ inflight[r] = s
               /\ client[s] = "open"
               /\ \/ remote[s] = "closed"
                  \/ Holds(up[s], "request", r)
                  \/ pending[k][r] # NoEntry /\ AtProvider(r, pending[k][r].provider)
                  \/ \E t \in OpenSockets(n) : HoldsFinal(down[t], r)
                  \/ <<n, k>> \in overlap

Healthy(s) == client[s] = "open" /\ remote[s] = "open"

\* A provider whose connection is healthy does not work for a caller that has gone: when
\* the caller cancelled or lost its connection, a cancel is on its way to the provider, or
\* the relay has yet to read it or to notice the loss (WebsocketRelayServer.ts:198-218).
AbandonedStreamsStop ==
    \A r \in Requests :
        /\ serving[r].by # NoNode /\ Healthy(serving[r].via)
        /\ call[r].phase \in {"cancelled", "disconnected"}
        => LET s == call[r].socket IN
           \/ Holds(down[serving[r].via], "cancel", r)
           \/ remote[s] = "open" /\ (client[s] = "closed" \/ Holds(up[s], "cancel", r))

\* One end has gone and the other has not noticed.
HalfOpen(s) == {client[s], remote[s]} = {"open", "closed"}

\* The socket of the caller, or that of the provider it was sent to.
WaitsOnLostSocket(r) ==
    LET s == call[r].socket
        entry == pending[RelayOf(s)][r]
    IN HalfOpen(s) \/ (entry # NoEntry /\ HalfOpen(entry.provider))

\* With no timeout set a call ends, whatever sockets and providers are lost, unless a loss
\* it depends on is never noticed: packages/ws/README.md:112-114 says that such a call waits
\* for ever, line 148 that every call ends.  The two cases of CallsAreInGoodHands are left
\* out too: a socket closed while send() was unsettled, and an old socket of the caller
\* that is still live at the relay.
CallsEnd ==
    \A r \in Requests :
        call[r].phase = "sending" ~> \/ call[r].phase \notin {"sending", "sent"}
                                     \/ call[r].raced
                                     \/ <<CallerOf[r], RelayOf(call[r].socket)>> \in overlap
                                     \/ []WaitsOnLostSocket(r)

\* The relay's pending map holds only requests with both sockets open, so that it cannot
\* outlive them nor send to a socket that is gone (WebsocketRelayServer.ts:198-218).
PendingHasBothEnds ==
    \A k \in Relays, r \in Requests :
        pending[k][r] # NoEntry =>
            remote[pending[k][r].caller] = "open" /\ remote[pending[k][r].provider] = "open"

-----------------------------------------------------------------------------
(* The directory.                                                          *)

\* The index of services never differs from the nodes registered, through any order of
\* hellos, replaced sockets and late closes (WebsocketRelayServer.ts:232-259, 317-347).
IndexIsExact ==
    \A k \in Relays, v \in Services, n \in Nodes :
        (\E j \in DOMAIN index[k][v] : index[k][v][j] = n)
            <=> nodes[k][n] # NoSocket /\ v \in me[nodes[k][n]].services

\* All that the relay sent to a node has arrived.
Told(n, k) ==
    /\ conn[n][k].phase = "open"
    /\ remote[conn[n][k].socket] = "open"
    /\ down[conn[n][k].socket] = <<>>

\* A node that has read everything knows each registered node with the services of its
\* last hello, and answers Topology that it is alive: no change of services is kept from
\* the others by #shouldSyncDiscovery.
DirectoryIsCurrent ==
    \A n \in Nodes, k \in Relays, i \in Nodes :
        /\ Told(n, k) /\ i # n /\ nodes[k][i] # NoSocket
        => /\ known[n][i].services = me[nodes[k][i]].services
           /\ Verify(n, i) = "alive"

\* A node left over from before a reconnection, which the relay no longer lists, counts as
\* unreachable, so that Topology may remove it (BaseWebsocketTransporter.ts:459-473).
\* An explicit close() reports nothing and is left out.
StaleNodesAreUnreachable ==
    \A n \in Nodes, k \in Relays, i \in Nodes :
        /\ Told(n, k) /\ known[n][i].relay = k /\ nodes[k][i] = NoSocket
        /\ local[n].closes = 0
        => reach[n][i] = "unreachable"

\* When a relay has read all a node sent on the socket it knows it by, it lists the node
\* for exactly the topics whose stream the node keeps, after a loss noticed by both ends
\* and a new socket too (BaseWebsocketTransporter.ts:281-287, 503-515).  Not so where the
\* relay once had two open sockets of the node: subscriptions are kept by node id, so that
\* a frame of the old socket which is read after those of the new one overwrites what they
\* said, until a topic changes again (WebsocketRelayServer.ts:372-398).
SubscriptionsAreExact ==
    \A n \in Nodes, k \in Relays, t \in Topics :
        LET s == conn[n][k].socket IN
        /\ conn[n][k].phase = "open" /\ nodes[k][n] = s /\ up[s] = <<>>
        /\ <<n, k>> \notin overlap
        => (n \in listeners[k][t] <=> topic[n][t] # "none")

=============================================================================
