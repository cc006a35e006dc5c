------------------------------- MODULE WsLink -------------------------------
(***************************************************************************)
(* The WebSocket connections between the transporters of the nodes and the *)
(* relays: what packages/ws assumes of the socket library.  A socket is    *)
(* one attempt of a node to connect to a relay and is never used again.    *)
(* Both ends have a readyState of their own and neither knows the other's: *)
(* frames arrive in order, and what is under way is lost with the end that *)
(* would read it.                                                          *)
(***************************************************************************)
EXTENDS Integers, Sequences, FiniteSets

CONSTANTS
    Nodes,          \* nodes of the mesh, by node_id
    Relays,         \* relay URLs
    NoNode,         \* undefined as a node id
    NoSocket,       \* undefined as a socket
    NoRelay,        \* undefined as a relay URL
    MaxSockets,     \* bound: sockets each node opens to one relay, one after another
    Services,
    Topics,
    Requests,       \* RPC requests, by request_id
    CallerOf,       \* the node each request comes from
    Crashing        \* bound: the relays that crash

Sockets == UNION {{n} \X Relays \X (1..MaxSockets[n]) : n \in Nodes}
Owner(s) == s[1]
RelayOf(s) == s[2]

ASSUME WsLinkAssumption ==
    /\ NoNode \notin Nodes /\ IsFiniteSet(Nodes)
    /\ IsFiniteSet(Requests)
    /\ NoRelay \notin Relays
    /\ MaxSockets \in [Nodes -> Nat]
    /\ NoSocket \notin Sockets
    /\ CallerOf \in [Requests -> Nodes]

VARIABLES
    client,     \* readyState at the node's end of each socket
    remote,     \* readyState at the relay's end
    up, down    \* frames under way to the relay and to the node

linkVars == <<client, remote, up, down>>

ClientStates == {"unused", "connecting", "open", "closed"}
RemoteStates == {"unused", "open", "closed"}

Hello(n, services) == [type |-> "hello", node |-> n, services |-> services]
Offline(n)         == [type |-> "offline", node |-> n]
Request(r, service, destination) ==
    [type |-> "request", request |-> r, service |-> service, destination |-> destination]
Response(r, sender, destination, end) ==
    [type |-> "response", request |-> r, sender |-> sender, destination |-> destination,
     end |-> end]
Cancel(r)          == [type |-> "cancel", request |-> r]
Subscribe(topics)  == [type |-> "subscribe", topics |-> topics]
Unsubscribe(topic) == [type |-> "unsubscribe", topic |-> topic]
Publish(topic)     == [type |-> "publish", topic |-> topic]

Ends == {"more", "completed", "offline"}    \* of a response: an error other than
                                            \* OFFLINE ends a request as completed does
Frames ==
    [type : {"hello"}, node : Nodes, services : SUBSET Services]
        \cup [type : {"offline"}, node : Nodes]
        \cup [type : {"request"}, request : Requests, service : Services,
              destination : Nodes \cup {NoNode}]
        \cup [type : {"response"}, request : Requests, sender : Nodes \cup {NoNode},
              destination : Nodes \cup {NoNode}, end : Ends]
        \cup [type : {"cancel"}, request : Requests]
        \cup [type : {"subscribe"}, topics : SUBSET Topics]
        \cup [type : {"unsubscribe"}, topic : Topics]
        \cup [type : {"publish"}, topic : Topics]

LinkInit ==
    /\ client = [s \in Sockets |-> "unused"]
    /\ remote = [s \in Sockets |-> "unused"]
    /\ up = [s \in Sockets |-> <<>>]
    /\ down = [s \in Sockets |-> <<>>]

LinkTypeOK ==
    /\ client \in [Sockets -> ClientStates]
    /\ remote \in [Sockets -> RemoteStates]
    /\ up \in [Sockets -> Seq(Frames)]
    /\ down \in [Sockets -> Seq(Frames)]

=============================================================================
