---------------------------- MODULE Announcements ----------------------------
(***************************************************************************)
(* How a process learns of the services of others when the discovery is a  *)
(* TopologyDiscoveryAdapter over a datagram discovery: every provider      *)
(* broadcasts its snapshot when it changes and as a heartbeat; datagrams   *)
(* are lost and overtake each other, and nothing tells of a process that   *)
(* has died but silence.  A snapshot says whether the service is offered,  *)
(* which takes the hooks of local services to succeed, and whether the     *)
(* endpoint of the RPC transporter is known, in whichever order the two    *)
(* come (SpiderMesh.ts).                                                   *)
(***************************************************************************)
EXTENDS Integers, FiniteSets

CONSTANTS
    Providers,      \* by node_id
    Early,          \* those that are online and known from the beginning
    MaxFaults       \* bound: lost datagrams, deaths and failures of hooks and endpoints

ASSUME AnnouncementsAssumption == Early \subseteq Providers /\ MaxFaults \in Nat

VARIABLES
    up,         \* providers that run
    local,      \* localNode of each provider
    hooks,      \* what became of the hooks of its service
    datagrams,  \* snapshots on their way to this process, in any order
    known,      \* Topology of this process: the remote nodes
    reachable,  \* endpoints that are not reported as lost
    missed,     \* whether an announcement was lost since one arrived
    faults

announcementVars == <<up, local, hooks, datagrams, known, reachable, missed, faults>>

Unknown == [version |-> -1, offers |-> FALSE, endpoint |-> FALSE]

Fresh  == [version |-> 0, offers |-> FALSE, endpoint |-> FALSE]
Online == [version |-> 2, offers |-> TRUE, endpoint |-> TRUE]

AnnouncementsInit ==
    /\ up = Providers
    /\ local = [p \in Providers |-> IF p \in Early THEN Online ELSE Fresh]
    /\ hooks = [p \in Providers |-> IF p \in Early THEN "done" ELSE "pending"]
    /\ datagrams = [p \in Providers |-> IF p \in Early THEN {} ELSE {Fresh}]
    /\ known = [p \in Providers |-> IF p \in Early THEN Online ELSE Unknown]
    /\ reachable = Providers
    /\ missed = [p \in Providers |-> FALSE]
    /\ faults = 0

Fault == faults < MaxFaults /\ faults' = faults + 1

\* broadcast: what the discovery cannot send is dropped, after onError.
Broadcast(p, snapshot) == datagrams' = [datagrams EXCEPT ![p] = @ \cup {snapshot}]

\* #refresh and localNode$, to which bind has subscribed.
Refresh(p, snapshot) ==
    LET next == [snapshot EXCEPT !.version = @ + 1]
    IN local' = [local EXCEPT ![p] = next] /\ Broadcast(p, next)

\* The RPC transporter announces its endpoint.
EndpointKnown(p) ==
    /\ p \in up /\ ~local[p].endpoint
    /\ Refresh(p, [local[p] EXCEPT !.endpoint = TRUE])
    /\ UNCHANGED <<up, hooks, known, reachable, missed, faults>>

\* The hooks of a local service are through: the service is there and announced.
ServiceOnline(p) ==
    /\ p \in up /\ hooks[p] = "pending"
    /\ hooks' = [hooks EXCEPT ![p] = "done"]
    /\ Refresh(p, [local[p] EXCEPT !.offers = TRUE])
    /\ UNCHANGED <<up, known, reachable, missed, faults>>

\* A hook of this service or of an earlier one fails: catchError ends the whole
\* pipe without a word, and the service never comes online.
HookFails(p) ==
    /\ p \in up /\ hooks[p] = "pending" /\ Fault
    /\ hooks' = [hooks EXCEPT ![p] = "failed"]
    /\ UNCHANGED <<up, local, datagrams, known, reachable, missed>>

\* latestLocalNode
Latest(p) == local[p]

Heartbeat(p) ==
    /\ p \in up
    /\ Broadcast(p, Latest(p))
    /\ UNCHANGED <<up, local, hooks, known, reachable, missed, faults>>

\* The subscription of bind: upsertRemote, which ignores what is older.
Receive(p, snapshot) ==
    /\ snapshot \in datagrams[p]
    /\ datagrams' = [datagrams EXCEPT ![p] = @ \ {snapshot}]
    /\ known' = IF snapshot.version >= known[p].version
                THEN [known EXCEPT ![p] = snapshot] ELSE known
    /\ missed' = [missed EXCEPT ![p] = FALSE]
    /\ UNCHANGED <<up, local, hooks, reachable, faults>>

Lost(p, snapshot) ==
    /\ snapshot \in datagrams[p] /\ Fault
    /\ datagrams' = [datagrams EXCEPT ![p] = @ \ {snapshot}]
    /\ missed' = [missed EXCEPT ![p] = TRUE]
    /\ UNCHANGED <<up, local, hooks, known, reachable>>

\* staleAfterMs is longer than a heartbeat: only who is dead or was not heard
\* is removed, and then forgotten altogether, so that an old datagram of it brings it back.
Stale(p) ==
    /\ known[p] # Unknown
    /\ p \notin up \/ missed[p]
    /\ known' = [known EXCEPT ![p] = Unknown]
    /\ reachable' = reachable \cup {p}
    /\ UNCHANGED <<up, local, hooks, datagrams, missed, faults>>

Dies(p) ==
    /\ p \in up /\ Fault
    /\ up' = up \ {p}
    /\ UNCHANGED <<local, hooks, datagrams, known, reachable, missed>>

\* The RPC transporter of this process loses a node and reports it, and it is back.
Unreachable(p) ==
    /\ known[p] # Unknown /\ p \in reachable /\ Fault
    /\ reachable' = reachable \ {p}
    /\ UNCHANGED <<up, local, hooks, datagrams, known, missed>>

Reconnected(p) ==
    /\ p \in up \ reachable
    /\ reachable' = reachable \cup {p}
    /\ UNCHANGED <<up, local, hooks, datagrams, known, missed, faults>>

Discovery ==
    \E p \in Providers :
        \/ EndpointKnown(p)
        \/ ServiceOnline(p)
        \/ HookFails(p)
        \/ Heartbeat(p)
        \/ \E snapshot \in datagrams[p] : Receive(p, snapshot) \/ Lost(p, snapshot)
        \/ Stale(p)
        \/ Dies(p)
        \/ Unreachable(p)
        \/ Reconnected(p)
=============================================================================
