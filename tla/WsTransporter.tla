--------------------------- MODULE WsTransporter ---------------------------
(***************************************************************************)
(* The WebSocket transporter of a node: BaseWebsocketTransporter.ts.  It   *)
(* keeps one connection loop per relay, the directory the relays report,   *)
(* the requests in flight by the socket that carries them, and the topics  *)
(* the node listens to.  It serves as RPC transport and as Discovery.      *)
(*                                                                         *)
(* Around it stands what packages/core does with it: a call is sent when   *)
(* canRoute() allows it, ends with the first final response or with the    *)
(* offline event of its node, and a request that arrives is served until   *)
(* its last reply or a cancel.  send() answers through a promise: until it *)
(* is settled only code that runs in the same turn can come in between.    *)
(***************************************************************************)
EXTENDS WsLink, FiniteSetsExt

CONSTANTS
    Offers,         \* the services a node provides at first
    MaxItems,       \* bound: replies of a stream before its last
    MaxSpeaks,      \* bound: announcements, subscriptions and publications of each node
    MaxCloses,      \* bound: explicit closes of each node
    MaxQueue        \* bound: frames under way when a node speaks up by itself

ASSUME WsTransporterAssumption ==
    /\ Offers \in [Nodes -> SUBSET Services]
    /\ MaxItems \in Nat

VARIABLES
    conn,       \* #connections: the loop of each relay and its socket
    local,      \* the last local node announced, and the bounded counts
    known,      \* #nodes: the directory, with the relay that reported last
    reach,      \* what was reported to Topology.reportReachability
    inflight,   \* #inflight: the socket that carries a request
    call,       \* the caller's side of each request
    serving,    \* the requests a node's methods are working on
    topic       \* #topics and the state of their shared streams

nodeVars == <<conn, local, known, reach, inflight, call, serving, topic>>

Off == [phase |-> "off", socket |-> NoSocket]
Unknown == [relay |-> NoRelay, services |-> {}]
Uncalled == [phase |-> "idle", destination |-> NoNode, socket |-> NoSocket, raced |-> FALSE]
Unserved == [by |-> NoNode, via |-> NoSocket, made |-> 0, mute |-> FALSE]

\* Constructed, and given the first local node by start().
NodeInit ==
    /\ conn = [n \in Nodes |-> [k \in Relays |-> Off]]
    /\ local = [n \in Nodes |-> [services |-> Offers[n], speaks |-> 0, closes |-> 0]]
    /\ known = [n \in Nodes |-> [i \in Nodes |-> Unknown]]
    /\ reach = [n \in Nodes |-> [i \in Nodes |-> "none"]]
    /\ inflight = [r \in Requests |-> NoSocket]
    /\ call = [r \in Requests |-> Uncalled]
    /\ serving = [r \in Requests |-> Unserved]
    /\ topic = [n \in Nodes |-> [t \in Topics |-> "none"]]

-----------------------------------------------------------------------------
(* Sockets.                                                                *)

Connected(n) == {k \in Relays : conn[n][k].phase = "open"}
OpenSockets(n) == {conn[n][k].socket : k \in Connected(n)}

\* A frame written to an end that is gone is lost.
SendAll(n, frames) ==
    up' = [s \in Sockets |-> IF s \in OpenSockets(n) /\ remote[s] = "open"
                             THEN up[s] \o frames ELSE up[s]]
SendOn(s, frame) ==
    up' = IF client[s] = "open" /\ remote[s] = "open"
          THEN [up EXCEPT ![s] = Append(@, frame)] ELSE up

Listened(n) == {t \in Topics : topic[n][t] # "none"}

\* #disconnectSocket: what the node has not read is lost.
Disconnected(s) == client' = [client EXCEPT ![s] = "closed"] /\ down' = [down EXCEPT ![s] = <<>>]

\* #announceLocalNode
LocalHello(n, services) == <<Hello(n, services)>>

\* Mutant: the topics are not announced again.
AnnouncementWithoutTopics(n, services) == LocalHello(n, services)

\* A local node is announced together with the topics (without any topic in the model,
\* the frame that lists them is left out).
Announcement(n, services) ==
    LocalHello(n, services) \o (IF Topics = {} THEN <<>> ELSE <<Subscribe(Listened(n))>>)

\* #selectRpcSocket: the relay that reported the node, else any open one.
RpcSockets(n, destination) ==
    LET preferred == IF destination = NoNode THEN NoRelay ELSE known[n][destination].relay
    IN IF preferred \in Connected(n) THEN {conn[n][preferred].socket} ELSE OpenSockets(n)

\* canRoute
Providers(n, service) == {i \in Nodes : service \in known[n][i].services}
CanRoute(n, service, destination) ==
    /\ Connected(n) # {}
    /\ IF destination = NoNode THEN Providers(n, service) # {}
       ELSE destination \in Providers(n, service)

\* verify
Verify(n, i) ==
    IF Connected(n) = {} THEN "unknown" ELSE IF known[n][i] # Unknown THEN "alive" ELSE "dead"

\* A promise of send() is unsettled: no event of the loop is handled before it.
Settled(n) == \A r \in Requests : CallerOf[r] = n => call[r].phase # "sending"

-----------------------------------------------------------------------------
(* The connection loop of a relay.                                         *)

Fresh(n, k) == {j \in 1..MaxSockets[n] : client[<<n, k, j>>] = "unused"}

\* #setConnectionStatus and #deleteConnectionStatus, with the socket of the loop.
SetConnection(n, k, phase, s) == conn' = [conn EXCEPT ![n][k] = [phase |-> phase, socket |-> s]]

\* createSocket
CreateSocket(s) == client' = [client EXCEPT ![s] = "connecting"]

Dial(n, k) ==
    /\ Fresh(n, k) # {}
    /\ LET s == <<n, k, Min(Fresh(n, k))>> IN
       /\ CreateSocket(s)
       /\ SetConnection(n, k, "connecting", s)
    /\ UNCHANGED <<remote, up, down, local, known, reach, inflight, call, serving, topic>>

\* connect(url) does nothing when the loop already runs.
Connect(n, k) == Settled(n) /\ conn[n][k].phase = "off" /\ Dial(n, k)
Reconnect(n, k) == Settled(n) /\ conn[n][k].phase = "waiting" /\ Dial(n, k)

\* 'open': the replayed local node is announced to every open relay, then the topics.
Opened(n, k) ==
    LET s == conn[n][k].socket
        open == OpenSockets(n) \cup {s}
        frames == Announcement(n, local[n].services)
    IN
    /\ Settled(n)
    /\ conn[n][k].phase = "connecting" /\ remote[s] # "unused"
    /\ client' = [client EXCEPT ![s] = "open"]
    /\ SetConnection(n, k, "open", s)
    /\ up' = [t \in Sockets |-> IF t \in open /\ remote[t] = "open"
                                THEN up[t] \o frames ELSE up[t]]
    /\ UNCHANGED <<remote, down, local, known, reach, inflight, call, serving, topic>>

\* Mutant: only requests whose node is known.
CarriedAndPinned(s) == {r \in Requests : inflight[r] = s /\ call[r].destination # NoNode}

\* #failInflight: every request the socket carries gets a final offline response.
Carried(s) == {r \in Requests : inflight[r] = s}
FailInflight(s) ==
    /\ inflight' = [r \in Requests |-> IF r \in Carried(s) THEN NoSocket ELSE inflight[r]]
    /\ call' = [r \in Requests |->
                  IF r \in Carried(s) /\ call[r].phase = "sent"
                  THEN [call[r] EXCEPT !.phase = "disconnected"]
                  ELSE IF call[r].phase = "sending" /\ call[r].socket = s
                  THEN [call[r] EXCEPT !.raced = TRUE]
                  ELSE call[r]]

\* finalize() of the connection loop, however the socket is left.
Finalized(s) == Disconnected(s) /\ FailInflight(s)

\* Mutant: the connection that is lost still counts as connected.
ReportUnreachableEarly(n, k) ==
    reach' = IF Connected(n) = {}
             THEN [reach EXCEPT ![n] = [i \in Nodes |-> IF known[n][i] # Unknown
                                                       THEN "unreachable" ELSE @[i]]]
             ELSE reach

\* #reportDirectoryUnreachable, unless another relay is connected.
ReportUnreachable(n, k) ==
    reach' = IF Connected(n) \subseteq {k}
             THEN [reach EXCEPT ![n] = [i \in Nodes |-> IF known[n][i] # Unknown
                                                       THEN "unreachable" ELSE @[i]]]
             ELSE reach

\* 'close' or 'error' of the socket, before or after it was open.
Lost(n, k) ==
    LET s == conn[n][k].socket IN
    /\ Settled(n)
    /\ conn[n][k].phase \in {"connecting", "open"}
    /\ SetConnection(n, k, "waiting", NoSocket)
    /\ ReportUnreachable(n, k)
    /\ Finalized(s)
    /\ UNCHANGED <<remote, up, local, known, serving, topic>>

\* close(url), also in the turn of a send(): it reports nothing to Topology.
CloseUrl(n, k) ==
    LET s == conn[n][k].socket IN
    /\ conn[n][k].phase # "off"
    /\ local[n].closes < MaxCloses[n]
    /\ local' = [local EXCEPT ![n].closes = @ + 1]
    /\ SetConnection(n, k, "off", NoSocket)
    /\ IF s = NoSocket
       THEN UNCHANGED <<client, down, inflight, call>>
       ELSE Finalized(s)
    /\ UNCHANGED <<remote, up, known, reach, serving, topic>>

-----------------------------------------------------------------------------
(* The local node and its directory.                                       *)

\* Bounds: the node speaks up by itself a few times, and with few frames under way.
MaySpeak(n) ==
    /\ local[n].speaks < MaxSpeaks[n]
    /\ \A s \in OpenSockets(n) : Len(up[s]) < MaxQueue
Spoken(n) == [local EXCEPT ![n].speaks = @ + 1]

\* broadcast: #me$ holds the local node for the connections to come.
Remembered(n, services) == [Spoken(n) EXCEPT ![n].services = services]

\* localNode$ of the mesh, to which bind() or start() has subscribed: hello and the
\* topics, once per open connection.
Announce(n, services) ==
    /\ Settled(n)
    /\ services # local[n].services
    /\ MaySpeak(n)
    /\ local' = Remembered(n, services)
    /\ SendAll(n, Announcement(n, services))
    /\ UNCHANGED <<client, remote, down, conn, known, reach, inflight, call, serving, topic>>

Receives(n, k, type) ==
    LET s == conn[n][k].socket IN
    /\ Settled(n)
    /\ conn[n][k].phase = "open"
    /\ down[s] # <<>>
    /\ Head(down[s]).type = type
    /\ down' = [down EXCEPT ![s] = Tail(@)]

Packet(n, k) == Head(down[conn[n][k].socket])

\* on_hello: the last relay that reports a node is the one it is reached through.
HelloArrives(n, k) ==
    LET f == Packet(n, k) IN
    /\ Receives(n, k, "hello")
    /\ IF f.node = n
       THEN UNCHANGED <<known, reach>>
       ELSE /\ known' = [known EXCEPT ![n][f.node] = [relay |-> k, services |-> f.services]]
            /\ reach' = [reach EXCEPT ![n][f.node] = "reachable"]
    /\ UNCHANGED <<client, remote, up, conn, local, inflight, call, serving, topic>>

\* on_offline: only the relay that reported the node removes it, but calls to it fail
\* whichever relay says so; their entries of #inflight stay.
OfflineArrives(n, k) ==
    LET i == Packet(n, k).node IN
    /\ Receives(n, k, "offline")
    /\ IF known[n][i].relay = k
       THEN /\ known' = [known EXCEPT ![n][i] = Unknown]
            /\ reach' = [reach EXCEPT ![n][i] = "none"]
       ELSE UNCHANGED <<known, reach>>
    /\ call' = [r \in Requests |->
                  IF CallerOf[r] = n /\ call[r].phase = "sent" /\ call[r].destination = i
                  THEN [call[r] EXCEPT !.phase = "offline"] ELSE call[r]]
    /\ UNCHANGED <<client, remote, up, conn, local, inflight, serving, topic>>

-----------------------------------------------------------------------------
(* Calls.                                                                  *)

\* send() of a request, up to its await: the frame has left on the chosen socket.
Send(n, r, service, destination) ==
    /\ CallerOf[r] = n
    /\ call[r].phase = "idle"
    /\ CanRoute(n, service, destination)
    /\ \E s \in RpcSockets(n, destination) :
          /\ call' = [call EXCEPT ![r] = [phase |-> "sending", destination |-> destination,
                                          socket |-> s, raced |-> FALSE]]
          /\ SendOn(s, Request(r, service, destination))
    /\ UNCHANGED <<client, remote, down, conn, local, known, reach, inflight, serving, topic>>

\* The rest of send(): the request enters #inflight, whatever became of its socket.
Resolve(r) ==
    /\ call[r].phase = "sending"
    /\ inflight' = [inflight EXCEPT ![r] = call[r].socket]
    /\ call' = [call EXCEPT ![r].phase = "sent"]
    /\ UNCHANGED <<client, remote, up, down, conn, local, known, reach, serving, topic>>

\* The caller unsubscribes: the cancel follows the request on its socket.
CancelCall(n, r) ==
    /\ CallerOf[r] = n
    /\ Settled(n)
    /\ call[r].phase = "sent"
    /\ call' = [call EXCEPT ![r].phase = "cancelled"]
    /\ inflight' = [inflight EXCEPT ![r] = NoSocket]
    /\ SendOn(call[r].socket, Cancel(r))
    /\ UNCHANGED <<client, remote, down, conn, local, known, reach, serving, topic>>

\* on_rpc at the caller; the first response tells which node serves the call.
ResponseArrives(n, k) ==
    LET f == Packet(n, k)
        r == f.request
        awaited == CallerOf[r] = n /\ call[r].phase = "sent"
        final == f.end # "more"
    IN
    /\ Receives(n, k, "response")
    /\ inflight' = IF final THEN [inflight EXCEPT ![r] = NoSocket] ELSE inflight
    /\ call' = IF ~awaited THEN call
               ELSE IF final THEN [call EXCEPT ![r].phase = "answered"]
               ELSE [call EXCEPT ![r].destination = f.sender]
    /\ UNCHANGED <<client, remote, up, conn, local, known, reach, serving, topic>>

\* on_rpc at the provider: the method starts.
RequestArrives(n, k) ==
    LET r == Packet(n, k).request IN
    /\ Receives(n, k, "request")
    /\ serving' = [serving EXCEPT ![r] = [by |-> n, via |-> conn[n][k].socket,
                                           made |-> 0, mute |-> FALSE]]
    /\ UNCHANGED <<client, remote, up, conn, local, known, reach, inflight, call, topic>>

CancelArrives(n, k) ==
    LET r == Packet(n, k).request IN
    /\ Receives(n, k, "cancel")
    /\ serving' = IF serving[r].by = n THEN [serving EXCEPT ![r] = Unserved] ELSE serving
    /\ UNCHANGED <<client, remote, up, conn, local, known, reach, inflight, call, topic>>

\* send() of a reply selects its socket anew, by the caller's node; with no relay
\* connected it rejects, which silences the stream for good.
Reply(n, r, end) ==
    LET sockets == RpcSockets(n, CallerOf[r])
        mute == serving[r].mute \/ sockets = {}
    IN
    /\ Settled(n)
    /\ serving[r].by = n
    /\ end = "more" => serving[r].made < MaxItems
    /\ serving' = IF end = "more"
                  THEN [serving EXCEPT ![r].made = @ + 1, ![r].mute = mute]
                  ELSE [serving EXCEPT ![r] = Unserved]
    /\ IF mute THEN UNCHANGED up
       ELSE \E s \in sockets : SendOn(s, Response(r, n, CallerOf[r], end))
    /\ UNCHANGED <<client, remote, down, conn, local, known, reach, inflight, call, topic>>

-----------------------------------------------------------------------------
(* Topics.                                                                 *)

\* The first subscriber of a topic's shared stream announces all topics anew.
Listen(n, t) ==
    /\ Settled(n)
    /\ topic[n][t] # "on"
    /\ MaySpeak(n)
    /\ local' = Spoken(n)
    /\ topic' = [topic EXCEPT ![n][t] = "on"]
    /\ IF topic[n][t] = "none"
       THEN SendAll(n, <<Subscribe(Listened(n) \cup {t})>>)
       ELSE UNCHANGED up
    /\ UNCHANGED <<client, remote, down, conn, known, reach, inflight, call, serving>>

\* The last subscriber leaves: the stream stays for unsubscribeDelayMs.
Unlisten(n, t) ==
    /\ Settled(n)
    /\ topic[n][t] = "on"
    /\ topic' = [topic EXCEPT ![n][t] = "lingering"]
    /\ UNCHANGED <<linkVars, conn, local, known, reach, inflight, call, serving>>

LingerEnds(n, t) ==
    /\ Settled(n)
    /\ topic[n][t] = "lingering"
    /\ topic' = [topic EXCEPT ![n][t] = "none"]
    /\ SendAll(n, <<Unsubscribe(t)>>)
    /\ UNCHANGED <<client, remote, down, conn, local, known, reach, inflight, call, serving>>

\* publish goes through every relay that is connected.
PublishTo(n, t) ==
    /\ Settled(n)
    /\ MaySpeak(n)
    /\ local' = Spoken(n)
    /\ SendAll(n, <<Publish(t)>>)
    /\ UNCHANGED <<client, remote, down, conn, known, reach, inflight, call, serving, topic>>

\* on_publish: what a topic's subscribers do with it is theirs.
PublishArrives(n, k) ==
    /\ Receives(n, k, "publish")
    /\ UNCHANGED <<client, remote, up, nodeVars>>

NodeStep(n) ==
    \/ \E k \in Relays :
          \/ Connect(n, k) \/ Reconnect(n, k) \/ Opened(n, k) \/ Lost(n, k) \/ CloseUrl(n, k)
          \/ HelloArrives(n, k) \/ OfflineArrives(n, k) \/ ResponseArrives(n, k)
          \/ RequestArrives(n, k) \/ CancelArrives(n, k) \/ PublishArrives(n, k)
    \/ \E services \in SUBSET Services : Announce(n, services)
    \/ \E r \in Requests :
          \/ \E v \in Services, d \in Nodes \cup {NoNode} : Send(n, r, v, d)
          \/ CallerOf[r] = n /\ Resolve(r)
          \/ CancelCall(n, r)
          \/ \E end \in {"more", "completed"} : Reply(n, r, end)
    \/ \E t \in Topics : Listen(n, t) \/ Unlisten(n, t) \/ LingerEnds(n, t) \/ PublishTo(n, t)

=============================================================================
