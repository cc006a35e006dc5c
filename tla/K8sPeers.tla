------------------------------ MODULE K8sPeers ------------------------------
(***************************************************************************)
(* What a process learns of the pods of its Service: one NodeStream to     *)
(* each target of the membership, and the remote nodes that #apply and     *)
(* #onNode of KubernetesDiscovery.ts keep in Topology.  A pod may have an  *)
(* address of each IP family, and an address may pass from a pod to a      *)
(* later one; a process that is started again is another process.  The     *)
(* processes of other mesh namespaces, which are ignored, are left out.    *)
(***************************************************************************)
EXTENDS Integers, Sequences, FiniteSets

CONSTANTS
    Targets,        \* addresses with the port of GET /node
    Processes,      \* by node_id
    Self,           \* the process whose discovery this is
    SelfTarget,     \* its address
    AddressOf,      \* the targets of each process
    Nobody,         \* undefined as a process
    AtStart,        \* the processes there are from the beginning
    MaxEdits,       \* bound: changes of the snapshot of each process
    MaxFaults       \* bound: broken streams and failures of the source

ASSUME K8sPeersAssumption ==
    /\ Self \in Processes
    /\ SelfTarget \in Targets
    /\ AddressOf \in [Processes -> SUBSET Targets]
    /\ \A p \in Processes : SelfTarget \in AddressOf[p] <=> p = Self
    /\ Nobody \notin Processes
    /\ AtStart \subseteq Processes /\ Self \in AtStart
    /\ \A p, q \in AtStart : p # q => AddressOf[p] \cap AddressOf[q] = {}
    /\ MaxEdits \in [Processes -> Nat]
    /\ MaxFaults \in Nat

VARIABLES
    alive,      \* processes that serve GET /node
    edition,    \* version of the snapshot of each process; 0 before it starts
    hostKnown,  \* whether this process knows its own host
    peers,      \* #peers: the NodeStream of each target, with the node learnt from it
    synced,     \* #synced
    members,    \* remote nodes in Topology: version by node_id
    faults      \* how many there have been

peerVars == <<alive, edition, hostKnown, peers, synced, members, faults>>

\* No stream, or one that close() has ended.
NoPeer == [phase |-> "none", source |-> Nobody, lines |-> <<>>, node |-> Nobody]
Dialing == [NoPeer EXCEPT !.phase = "dialing"]

PeersInit ==
    /\ alive = AtStart
    /\ edition = [p \in Processes |-> IF p \in AtStart THEN 1 ELSE 0]
    /\ peers = [t \in Targets |-> NoPeer]
    /\ synced = FALSE
    /\ members = [p \in {} |-> 0]
    /\ faults = 0

Fault == faults < MaxFaults /\ faults' = faults + 1

Entries == {t \in Targets : peers[t].phase # "none"}
NodesOf(targets) == {peers[t].node : t \in targets} \ {Nobody}

\* Mutant: a membership that is not known counts as an empty one.
UnknownIsEmpty ==
    /\ peers' = [t \in Targets |-> NoPeer]
    /\ members' = [p \in DOMAIN members \ NodesOf(Targets) |-> members[p]]
    /\ synced' = FALSE

\* #apply(null): nothing is known, so all stays as it is.
Unknown == synced' = FALSE /\ UNCHANGED <<peers, members>>

\* #apply(snapshot): new targets are streamed from, those that left are removed with their nodes.
Apply(snapshot) ==
    /\ peers' = [t \in Targets |->
                   IF t \notin snapshot THEN NoPeer
                   ELSE IF peers[t].phase = "none" /\ ~(hostKnown /\ t = SelfTarget) THEN Dialing
                   ELSE peers[t]]
    /\ members' = [p \in DOMAIN members \ NodesOf(Entries \ snapshot) |-> members[p]]
    /\ synced' = TRUE

\* Mutant: the node that had the address before is left behind.
ReplacedStays(t, p) == {}

\* The node that another one has replaced at its address.
Replaced(t, p) == {peers[t].node} \ {Nobody, p}

\* upsertRemote: an older version than the one known is ignored.
Upserted(known, p, version) ==
    IF p \in DOMAIN known /\ version < known[p] THEN known
    ELSE [q \in DOMAIN known \cup {p} |-> IF q = p THEN version ELSE known[q]]

\* One line of the stream of t: #onNode, which finds its own process or a remote one.
Line(t) ==
    LET s == peers[t]
        kept == [q \in DOMAIN members \ Replaced(t, s.source) |-> members[q]]
    IN
    /\ s.phase = "open" /\ s.lines # <<>>
    /\ IF s.source = Self
       THEN /\ peers' = [peers EXCEPT ![t] = [NoPeer EXCEPT !.phase = "self"]]
            /\ UNCHANGED members
       ELSE /\ peers' = [peers EXCEPT ![t].lines = Tail(@), ![t].node = s.source]
            /\ members' = Upserted(kept, s.source, Head(s.lines))
    /\ UNCHANGED <<alive, edition, hostKnown, synced, faults>>

\* #run, with the waits between its attempts: whoever listens at t answers GET /node
\* with its current snapshot first.
Connects(t) ==
    /\ peers[t].phase = "dialing"
    /\ \E p \in alive :
         /\ t \in AddressOf[p]
         /\ peers' = [peers EXCEPT ![t].phase = "open", ![t].source = p,
                                   ![t].lines = <<edition[p]>>]
    /\ UNCHANGED <<alive, edition, hostKnown, synced, members, faults>>

\* Mutant: a stream that has delivered a snapshot is not opened again.
AfterBreakOnce(t) == IF peers[t].node = Nobody THEN "dialing" ELSE "self"

\* The loop of #run ends with close() only.
AfterBreak(t) == "dialing"

\* A broken stream, or an idle one: the heartbeat tells of a dead process.
Breaks(t) ==
    /\ peers[t].phase = "open"
    /\ IF peers[t].source \in alive THEN Fault ELSE UNCHANGED faults
    /\ peers' = [peers EXCEPT ![t].phase = AfterBreak(t), ![t].source = Nobody, ![t].lines = <<>>]
    /\ UNCHANGED <<alive, edition, hostKnown, synced, members>>

\* localNode$ of another process: every listener gets the new snapshot.
Edits(p) ==
    /\ p \in alive /\ edition[p] < MaxEdits[p]
    /\ edition' = [edition EXCEPT ![p] = @ + 1]
    /\ peers' = [t \in Targets |-> IF peers[t].phase = "open" /\ peers[t].source = p
                                   THEN [peers[t] EXCEPT !.lines = Append(@, edition'[p])]
                                   ELSE peers[t]]
    /\ UNCHANGED <<alive, hostKnown, synced, members, faults>>

=============================================================================
