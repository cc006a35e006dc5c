---------------------------- MODULE WsDiscovery ----------------------------
(***************************************************************************)
(* The discovery-only variant of packages/ws: the clients of the nodes     *)
(* (WebsocketDiscoveryClient.ts), which put what they are told into their  *)
(* Topology, and the server (WebsocketDiscoveryServer.ts), which repeats   *)
(* the snapshot of each node to all others.  A socket is one attempt of a  *)
(* client and is never used again; its two ends are lost separately, with  *)
(* the frames they have not read.                                          *)
(***************************************************************************)
EXTENDS Integers, Sequences, FiniteSets, SequencesExt

CONSTANTS
    Nodes,          \* by node_id
    Topics,
    Names,          \* of transporters
    Endpoints,      \* metadata that says where a transporter is reached
    AtStart,        \* the nodes that are connected from the beginning
    MaxSockets,     \* bound: sockets each node opens, one after another
    MaxChanges,     \* bound: changes of the processes, and losses, in all
    Leavers         \* bound: the nodes that close their client

Sockets == UNION {{n} \X (1..MaxSockets[n]) : n \in Nodes}
Owner(s) == s[1]

ASSUME WsDiscoveryAssumption ==
    /\ IsFiniteSet(Nodes)
    /\ AtStart \subseteq Nodes
    /\ MaxSockets \in [Nodes -> Nat]
    /\ \A n \in AtStart : MaxSockets[n] > 0
    /\ MaxChanges \in Nat
    /\ Leavers \subseteq Nodes

VARIABLES
    local,      \* localNode$ of each process, and so #localNode of its client
    client,     \* #connection: its phase, and how many sockets it has opened
    directory,  \* #nodes: snapshot by node_id
    leftover,   \* history: nodes of #nodes not heard of since an error of their socket
    members,    \* remote nodes in Topology: snapshot by node_id
    far,        \* readyState at the server's end of each socket
    up, down,   \* frames under way to the server and to the client
    named,      \* sockets that carry a socketNodeId
    metadata,   \* #metadata: snapshot by node_id
    metrics,    \* metrics$ as last published: version by node_id
    running,    \* whether the server runs
    changes,    \* how many changes and losses there have been
    overlap     \* history: nodes of which the server had two open sockets

clientVars == <<client, directory, leftover, members>>
serverVars == <<far, named, metadata, metrics, running, overlap>>
discoveryVars == <<clientVars, serverVars, up, down>>

Snapshots == [version : Nat, topics : SUBSET Topics,
              transporters : [Names -> {"absent", "gone", "present"} \cup Endpoints]]

Hello(n, snapshot) == [type |-> "hello", node |-> n, me |-> snapshot]
Offline(n) == [type |-> "offline", node |-> n]

Nothing == [i \in {} |-> 0]
Put(map, i, value) == [j \in DOMAIN map \cup {i} |-> IF j = i THEN value ELSE map[j]]
Delete(map, i) == [j \in DOMAIN map \ {i} |-> map[j]]

\* #refreshMetrics; services and times of the nodes are left out.
Metrics(at) == [i \in DOMAIN at |-> at[i].version]

\* Those connected have told each other of themselves.
DiscoveryInit ==
    LET first == AtStart \X {1}
        others(n) == [i \in AtStart \ {n} |-> local[i]]
    IN
    /\ client = [n \in Nodes |-> IF n \in AtStart THEN [phase |-> "open", sockets |-> 1]
                                 ELSE [phase |-> "waiting", sockets |-> 0]]
    /\ directory = [n \in Nodes |-> IF n \in AtStart THEN others(n) ELSE Nothing]
    /\ leftover = [n \in Nodes |-> {}]
    /\ members = directory
    /\ far = [s \in Sockets |-> IF s \in first THEN "open" ELSE "unused"]
    /\ up = [s \in Sockets |-> <<>>]
    /\ down = [s \in Sockets |-> <<>>]
    /\ named = first
    /\ metadata = [n \in AtStart |-> local[n]]
    /\ metrics = Metrics(metadata)
    /\ running = TRUE
    /\ changes = 0
    /\ overlap = {}

Change == changes < MaxChanges /\ changes' = changes + 1

Current(n) == <<n, client[n].sockets>>

\* readyState at the client's end.
Near(s) ==
    LET c == client[Owner(s)] IN
    CASE s[2] > c.sockets -> "unused"
      [] s[2] = c.sockets /\ c.phase \in {"connecting", "open"} -> c.phase
      [] OTHER -> "closed"

-----------------------------------------------------------------------------
(* The client.                                                             *)

OnlyClient == UNCHANGED <<local, serverVars>>
Free == UNCHANGED changes

\* defer, at the start and after each wait of retry.
Connect(n) ==
    /\ client[n].phase = "waiting" /\ client[n].sockets < MaxSockets[n]
    /\ client' = [client EXCEPT ![n] = [phase |-> "connecting", sockets |-> @.sockets + 1]]
    /\ UNCHANGED <<directory, leftover, members, up, down>> /\ OnlyClient /\ Free

Sent(s, frames) == IF far[s] = "open" THEN [up EXCEPT ![s] = @ \o frames] ELSE up

Opened(n) ==
    /\ client[n].phase = "connecting" /\ far[Current(n)] # "unused"
    /\ client' = [client EXCEPT ![n].phase = "open"]
    /\ up' = Sent(Current(n), <<local[n]>>)
    /\ UNCHANGED <<directory, leftover, members, down>> /\ OnlyClient /\ Free

\* error and close are only listened to once the socket is open: nothing reaches retry.
AfterRefusal == "stalled"

Refused(n) ==
    /\ client[n].phase = "connecting" /\ far[Current(n)] # "open"
    /\ ~running \/ far[Current(n)] = "closed"
    /\ client' = [client EXCEPT ![n].phase = AfterRefusal]
    /\ down' = [down EXCEPT ![Current(n)] = <<>>]
    /\ UNCHANGED <<directory, leftover, members, up>> /\ OnlyClient /\ Free

\* Mutant: what was known of the nodes is kept.
KeptNodes(n) == directory[n]

\* #clearNodes: Topology keeps its members.
ClearedNodes(n) == Nothing

Lost(n, how) ==
    /\ client[n].phase = "open"
    /\ IF far[Current(n)] = "closed" /\ how = "close" THEN Free ELSE Change
    /\ client' = [client EXCEPT ![n].phase = "waiting"]
    /\ \/ /\ how = "close"
          /\ directory' = [directory EXCEPT ![n] = ClearedNodes(n)]
          /\ leftover' = [leftover EXCEPT ![n] = {}]
       \* error$ comes before the close, which nobody listens to any more.
       \/ /\ how = "error"
          /\ leftover' = [leftover EXCEPT ![n] = DOMAIN directory[n]]
          /\ UNCHANGED directory
    /\ down' = [down EXCEPT ![Current(n)] = <<>>]
    /\ UNCHANGED <<members, up>> /\ OnlyClient

\* close()
CloseClient(n) ==
    /\ n \in Leavers /\ client[n].phase # "closed" /\ Change
    /\ client' = [client EXCEPT ![n].phase = "closed"]
    /\ down' = IF Current(n) \in Sockets THEN [down EXCEPT ![Current(n)] = <<>>] ELSE down
    /\ UNCHANGED <<directory, leftover, members, up>> /\ OnlyClient

\* upsertRemote: an older version than the one known is ignored.
Upserted(known, i, snapshot) ==
    IF i \in DOMAIN known /\ snapshot.version < known[i].version THEN known
    ELSE Put(known, i, snapshot)

\* #handleFrame: an echo and a node not known to be there are ignored.
FrameRead(n) ==
    LET s == Current(n)
        frame == Head(down[s])
        i == frame.node
    IN
    /\ client[n].phase = "open" /\ down[s] # <<>>
    /\ down' = [down EXCEPT ![s] = Tail(@)]
    /\ CASE frame.type = "hello" /\ i # n ->
              /\ directory' = [directory EXCEPT ![n] = Put(@, i, frame.me)]
              /\ leftover' = [leftover EXCEPT ![n] = @ \ {i}]
              /\ members' = [members EXCEPT ![n] = Upserted(@, i, frame.me)]
         [] frame.type = "offline" /\ i \in DOMAIN directory[n] ->
              /\ directory' = [directory EXCEPT ![n] = Delete(@, i)]
              /\ leftover' = [leftover EXCEPT ![n] = @ \ {i}]
              /\ members' = [members EXCEPT ![n] = Delete(@, i)]
         [] OTHER -> UNCHANGED <<directory, leftover, members>>
    /\ UNCHANGED <<client, up>> /\ OnlyClient /\ Free

\* broadcast: each snapshot of the local node is sent as it is made.
Announce(n, snapshots) ==
    /\ local' = [local EXCEPT ![n] = IF snapshots = <<>> THEN @ ELSE Last(snapshots)]
    /\ up' = IF client[n].phase = "open" THEN Sent(Current(n), snapshots) ELSE up
    /\ UNCHANGED <<clientVars, serverVars, down>>

Verify(n, i) ==
    IF client[n].phase # "open" THEN "unknown"
    ELSE IF i \in DOMAIN directory[n] THEN "alive" ELSE "dead"

-----------------------------------------------------------------------------
(* The server.                                                             *)

OnlyServer == UNCHANGED <<local, clientVars>>

\* #broadcastExcept; what a closed client would get is lost.
Broadcast(frame, sender) ==
    [t \in Sockets |-> IF t # sender /\ far[t] = "open" /\ Near(t) # "closed"
                       THEN Append(down[t], frame) ELSE down[t]]

\* #handleConnection, and the microtask that tells the newcomer of all nodes.
Accept(s) ==
    /\ running /\ Near(s) = "connecting" /\ far[s] = "unused"
    /\ far' = [far EXCEPT ![s] = "open"]
    /\ down' = [down EXCEPT ![s] = SetToSeq({Hello(i, metadata[i]) : i \in DOMAIN metadata})]
    /\ overlap' = overlap \cup {n \in {Owner(s)} : \E t \in Sockets : Owner(t) = n /\ far[t] = "open"}
    /\ UNCHANGED <<up, named, metadata, metrics, running>> /\ OnlyServer /\ Free

\* #handleMessage
HelloRead(s) ==
    LET n == Owner(s) IN
    /\ far[s] = "open" /\ up[s] # <<>>
    /\ up' = [up EXCEPT ![s] = Tail(@)]
    /\ named' = named \cup {s}
    /\ metadata' = Put(metadata, n, Head(up[s]))
    /\ metrics' = Metrics(metadata')
    /\ down' = Broadcast(Hello(n, Head(up[s])), s)
    /\ UNCHANGED <<far, running, overlap>> /\ OnlyServer /\ Free

\* #handleClose: by the name of the socket, whichever socket the node uses now.
ServerLoses(s) ==
    LET n == Owner(s) IN
    /\ far[s] = "open"
    /\ IF Near(s) = "closed" THEN Free ELSE Change
    /\ far' = [far EXCEPT ![s] = "closed"]
    /\ up' = [up EXCEPT ![s] = <<>>]
    /\ named' = named \ {s}
    /\ IF s \in named
       THEN /\ metadata' = Delete(metadata, n)
            /\ metrics' = Metrics(metadata')
            /\ down' = Broadcast(Offline(n), s)
       ELSE UNCHANGED <<metadata, metrics, down>>
    /\ UNCHANGED <<running, overlap>> /\ OnlyServer

Crash ==
    /\ running /\ Change
    /\ running' = FALSE
    /\ far' = [s \in Sockets |-> IF far[s] = "open" THEN "closed" ELSE far[s]]
    /\ up' = [s \in Sockets |-> <<>>]
    /\ named' = {} /\ metadata' = Nothing /\ metrics' = Nothing
    /\ UNCHANGED <<down, overlap>> /\ OnlyServer

Restart ==
    /\ ~running
    /\ running' = TRUE
    /\ UNCHANGED <<far, up, down, named, metadata, metrics, overlap>> /\ OnlyServer /\ Free

DiscoveryStep ==
    \/ \E n \in Nodes :
         \/ Connect(n) \/ Opened(n) \/ Refused(n) \/ CloseClient(n) \/ FrameRead(n)
         \/ \E how \in {"close", "error"} : Lost(n, how)
    \/ \E s \in Sockets : Accept(s) \/ HelloRead(s) \/ ServerLoses(s)
    \/ Crash \/ Restart

=============================================================================
