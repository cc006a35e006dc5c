----------------------------- MODULE LocalNode -----------------------------
(***************************************************************************)
(* The snapshot a process announces of itself (SpiderMesh.ts): every       *)
(* change goes through #refresh, which makes a new version, and reaches    *)
(* the discovery through localNode$ at once.  Services and build data are  *)
(* left out; an RPC transporter stands for all of them.                    *)
(***************************************************************************)
EXTENDS WsDiscovery

CONSTANTS
    RpcName,        \* the name of the RPC transporter
    RpcEndpoint,    \* its metadata once it has any
    RpcUsers        \* the processes that have one

ASSUME LocalNodeAssumption ==
    RpcName \in Names /\ RpcEndpoint \in Endpoints /\ RpcUsers \subseteq Nodes

VARIABLE
    rpc         \* #transporters.rpcs: nodes whose RPC transporter is registered

NewNode == [version |-> 0, topics |-> {}, transporters |-> [name \in Names |-> "absent"]]

\* #refresh
RefreshTopics(node, topics) == [node EXCEPT !.version = @ + 1, !.topics = topics]
RefreshTransporter(node, name, value) ==
    [node EXCEPT !.version = @ + 1, !.transporters[name] = value]

\* setLocalTopics: the same topics are not announced again.
SetLocalTopics(n, topics) ==
    IF topics = local[n].topics THEN <<>> ELSE <<RefreshTopics(local[n], topics)>>

\* setLocalTransporterMetadata, with each of the values in turn.
SetMetadata(n, name, values) ==
    [k \in 1..Len(values) |->
        [RefreshTransporter(local[n], name, values[k]) EXCEPT !.version = local[n].version + k]]

\* #ensureLocalTransporterPresence: an entry is enough, even that of a transporter that
\* was unregistered.
Presence(n) == IF local[n].transporters[RpcName] = "absent" THEN <<"present">> ELSE <<>>

\* The metadata of a transporter that registers, if it has any yet.
InitialEndpoints == {<<>>, <<RpcEndpoint>>}

\* registerTransporter: its presence is announced, and its endpoints if they are known.
RegisterRpc(n) ==
    /\ n \in RpcUsers \ rpc /\ Change
    /\ rpc' = rpc \cup {n}
    /\ \E endpoints \in InitialEndpoints :
         Announce(n, SetMetadata(n, RpcName, Presence(n) \o endpoints))

\* An endpoints event of the transporter.
RpcEndpoints(n) ==
    /\ n \in rpc /\ Change
    /\ Announce(n, SetMetadata(n, RpcName, <<RpcEndpoint>>))
    /\ UNCHANGED rpc

\* The teardown of registerTransporter.
UnregisterRpc(n) ==
    /\ n \in rpc /\ Change
    /\ rpc' = rpc \ {n}
    /\ Announce(n, SetMetadata(n, RpcName, <<"gone">>))

LocalStep == \E n \in Nodes : RegisterRpc(n) \/ RpcEndpoints(n) \/ UnregisterRpc(n)

=============================================================================
