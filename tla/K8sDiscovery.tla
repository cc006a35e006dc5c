---------------------------- MODULE K8sDiscovery ----------------------------
(***************************************************************************)
(* KubernetesDiscovery with its source of membership: list and watch of    *)
(* the EndpointSlices of the Service, or the resolution of its DNS name    *)
(* (membership.ts).  There is one slice for each IP family, and a history  *)
(* of what the API server held at each resourceVersion; versions count the *)
(* changes of these slices only.                                           *)
(***************************************************************************)
EXTENDS K8sPeers

CONSTANTS
    Settings,       \* the option mode, and whether the process knows its own host
    Slices,         \* EndpointSlices, by IP family
    SliceOf,        \* the slice of each target
    Fickle,         \* bound: processes whose readiness changes
    MaxVersions     \* bound: states of the API server

ASSUME K8sDiscoveryAssumption ==
    /\ Settings \subseteq {"auto", "api", "dns"} \X BOOLEAN
    /\ SliceOf \in [Targets -> Slices]
    /\ Fickle \subseteq Processes
    /\ MaxVersions \in Nat \ {0}

VARIABLES
    ready,      \* processes whose pod Kubernetes holds ready
    history,    \* the slices at each resourceVersion
    mode,
    phase,      \* of kubernetesApiMembership, or that it is given up for DNS
    version,    \* resourceVersion of the client; that of the answer in the mode dns
    slices,     \* the client's copy
    partial     \* history: the last answer of DNS lacked the addresses of one family

sourceVars == <<phase, version, slices, partial>>
clusterVars == <<ready, history>>
vars == <<peerVars, sourceVars, clusterVars, mode>>

Latest == Len(history)
Addresses(processes) == UNION {AddressOf[p] : p \in processes}
SliceContent(f, processes) == {t \in Addresses(processes) : SliceOf[t] = f}
TargetsIn(copy) == UNION {copy[f] : f \in DOMAIN copy}

Init ==
    /\ PeersInit
    /\ ready = AtStart
    /\ history = <<[f \in Slices |-> SliceContent(f, AtStart)]>>
    /\ \E setting \in Settings : mode = setting[1] /\ hostKnown = setting[2]
    /\ phase = IF mode = "dns" THEN "dns" ELSE "list"
    /\ version = 1
    /\ slices = [f \in {} |-> {}]
    /\ partial = FALSE

-----------------------------------------------------------------------------
(* Kubernetes: pods come and go, their slices follow one by one.           *)

OnlyCluster == UNCHANGED <<hostKnown, synced, members, faults, sourceVars, mode>>

\* An address is given to one process at a time.
Starts(p) ==
    /\ phase # "closed"
    /\ p \notin alive /\ \A q \in alive : AddressOf[p] \cap AddressOf[q] = {}
    /\ edition[p] = 0
    /\ alive' = alive \cup {p}
    /\ edition' = [edition EXCEPT ![p] = 1]
    /\ UNCHANGED <<peers, clusterVars>> /\ OnlyCluster

Dies(p) ==
    /\ phase # "closed"
    /\ p \in alive \ {Self}
    /\ alive' = alive \ {p}
    /\ ready' = ready \ {p}
    /\ UNCHANGED <<edition, peers, history>> /\ OnlyCluster

ReadinessChanges(p) ==
    /\ phase # "closed"
    /\ p \in alive \cap Fickle
    /\ ready' = (ready \ {p}) \cup ({p} \ ready)
    /\ UNCHANGED <<alive, edition, peers, history>> /\ OnlyCluster

\* A slice without endpoints may be deleted.
SliceChanges(f) ==
    LET now == history[Latest]
        content == SliceContent(f, ready)
        Kept == DOMAIN now \cup {f}
    IN
    /\ phase # "closed"
    /\ Latest < MaxVersions
    /\ content # (IF f \in DOMAIN now THEN now[f] ELSE {})
    /\ \/ history' = Append(history, [g \in Kept |-> IF g = f THEN content ELSE now[g]])
       \/ /\ content = {}
          /\ history' = Append(history, [g \in Kept \ {f} |-> now[g]])
    /\ UNCHANGED <<alive, edition, peers, ready>> /\ OnlyCluster

-----------------------------------------------------------------------------
(* kubernetesApiMembership.                                                *)

OnlySource == UNCHANGED <<alive, edition, hostKnown, clusterVars, mode>>

\* A list is asked for, and the server's part of it; the answer is then on its way.
ListRead ==
    /\ phase = "list"
    /\ phase' = "listed" /\ version' = Latest
    /\ UNCHANGED <<slices, partial, peers, synced, members, faults>> /\ OnlySource

ListArrives ==
    /\ phase = "listed"
    /\ phase' = "opening" /\ slices' = history[version]
    /\ Apply(TargetsIn(slices'))
    /\ UNCHANGED <<version, partial, faults>> /\ OnlySource

\* 410, which any version but the latest may get: what was missed can only be listed.
Expired == version < Latest /\ phase' = "list" /\ UNCHANGED version

WatchOpens ==
    /\ phase = "opening"
    /\ Expired \/ (phase' = "watching" /\ UNCHANGED version)
    /\ UNCHANGED <<slices, partial, peers, synced, members, faults>> /\ OnlySource

\* Mutant: a deleted slice keeps its targets.
ChangedIgnoresDeleted(copy, f, now) ==
    IF f \in DOMAIN now THEN [g \in DOMAIN copy \cup {f} |-> IF g = f THEN now[f] ELSE copy[g]]
    ELSE copy

\* The copy after an event of slice f.
Changed(copy, f, now) ==
    IF f \in DOMAIN now THEN [g \in DOMAIN copy \cup {f} |-> IF g = f THEN now[f] ELSE copy[g]]
    ELSE [g \in DOMAIN copy \ {f} |-> copy[g]]

\* The slice that the change to version v was about.
SliceAt(v) ==
    LET Has(u, f) == f \in DOMAIN history[u] IN
    CHOOSE f \in Slices : \/ Has(v, f) # Has(v - 1, f)
                          \/ Has(v, f) /\ history[v][f] # history[v - 1][f]

WatchEvent ==
    /\ phase = "watching" /\ version < Latest
    /\ version' = version + 1
    /\ slices' = Changed(slices, SliceAt(version'), history[version'])
    /\ Apply(TargetsIn(slices'))
    /\ UNCHANGED <<phase, partial, faults>> /\ OnlySource

\* The API server closes the watch, or an ERROR event says 410.
WatchEnds ==
    /\ phase = "watching"
    /\ Expired \/ (phase' = "opening" /\ UNCHANGED version)
    /\ UNCHANGED <<slices, partial, peers, synced, members, faults>> /\ OnlySource

\* A failed request, a bad answer, a broken watch or an ERROR event: the loop sleeps.
SourceFails ==
    /\ phase \in {"list", "listed", "opening", "watching"}
    /\ Fault
    /\ phase' = "sleeping"
    /\ Unknown
    /\ UNCHANGED <<version, slices, partial>> /\ OnlySource

\* expectOk: 401, 403 and 404 are for good, any other bad answer is tried again.
MayBeDenied == phase \in {"list", "opening"}

\* 401, 403 or 404: DNS from now on, or a new start after 30 s in the mode api.
Denied ==
    /\ MayBeDenied
    /\ \/ mode = "auto" /\ phase' = "dns" /\ UNCHANGED faults
       \/ mode = "api" /\ phase' = "denied" /\ Fault
    /\ UNCHANGED <<version, slices, partial, peers, synced, members>> /\ OnlySource

SourceWakes ==
    /\ phase \in {"sleeping", "denied"}
    /\ phase' = "list"
    /\ UNCHANGED <<version, slices, partial, peers, synced, members, faults>> /\ OnlySource

-----------------------------------------------------------------------------
(* dnsMembership: all addresses at once, maybe from a cache.               *)

Resolves(v, families) ==
    LET answer == {t \in TargetsIn(history[v]) : SliceOf[t] \in families} IN
    /\ phase = "dns"
    /\ version' = v
    /\ Apply(answer)
    /\ partial' = (families # Slices)
    /\ UNCHANGED <<phase, slices>> /\ OnlySource

ResolvesCached == \E v \in version..Latest : Resolves(v, Slices) /\ UNCHANGED faults

\* One of the two queries fails: resolveAll returns what the other one has found.
ResolvesPartly ==
    \E v \in version..Latest, f \in Slices :
        SliceContent(f, Processes) \cap TargetsIn(history[v]) # {} /\ Resolves(v, {f}) /\ Fault

ResolveFails ==
    /\ phase = "dns"
    /\ Fault
    /\ Unknown
    /\ UNCHANGED sourceVars /\ OnlySource

-----------------------------------------------------------------------------

\* The teardown of a membership: its request is destroyed and its timer stopped.
SourceStops == phase' = "closed" /\ UNCHANGED <<version, slices, partial>>

\* close(), or the teardown of bind(): Topology keeps its members.
Unbind ==
    /\ phase # "closed"
    /\ SourceStops
    /\ peers' = [t \in Targets |-> NoPeer]
    /\ synced' = FALSE
    /\ UNCHANGED <<members, faults>> /\ OnlySource

Unchanged == UNCHANGED <<sourceVars, clusterVars, mode>>

PeerSteps(t) == (Line(t) \/ Connects(t)) /\ Unchanged
PeerBreaks(t) == Breaks(t) /\ Unchanged
ProcessEdits(p) == phase # "closed" /\ Edits(p) /\ Unchanged

Source == ListRead \/ ListArrives \/ WatchOpens \/ SourceWakes

Next ==
    \/ \E p \in Processes : Starts(p) \/ Dies(p) \/ ReadinessChanges(p) \/ ProcessEdits(p)
    \/ \E f \in Slices : SliceChanges(f)
    \/ Source \/ WatchEvent \/ WatchEnds \/ SourceFails \/ Denied
    \/ ResolvesCached \/ ResolvesPartly \/ ResolveFails
    \/ \E t \in Targets : PeerSteps(t) \/ PeerBreaks(t)
    \/ Unbind

Spec == Init /\ [][Next]_vars

\* The loop of the source and each stream go on, a dead stream is noticed by its idle
\* timeout, and the cache of DNS expires.  A watch may be closed again and again, but
\* not always before it has delivered anything.
Fairness ==
    /\ WF_vars(Source \/ (Resolves(Latest, Slices) /\ UNCHANGED faults))
    /\ SF_vars(WatchEvent)
    /\ \A t \in Targets : WF_vars(PeerSteps(t) \/ (peers[t].source \notin alive /\ PeerBreaks(t)))

FairSpec == Spec /\ Fairness

-----------------------------------------------------------------------------
(* Properties.                                                             *)

\* The client's slices are those of the API server at its version, and its streams go to
\* exactly their addresses, through events, deletions, expired versions and failures
\* (membership.ts:103-105, KubernetesDiscovery.ts:246-259).
PeersAreCurrent ==
    LET expected == TargetsIn(history[version]) IN
    /\ phase \in {"opening", "watching"} => slices = history[version]
    /\ phase \in {"opening", "watching"} \/ (phase = "dns" /\ synced /\ ~partial) =>
         Entries = expected \ (IF hostKnown THEN {SelfTarget} ELSE {})

\* No ghosts: a remote node is one that a stream of the membership has told of, whatever
\* became of its pod and its address (KubernetesDiscovery.ts:276-277, packages/k8s/README.md:146).
MembersArePeers ==
    phase # "closed" => DOMAIN members \subseteq NodesOf(Entries) /\ Self \notin DOMAIN members

AlwaysListed(p) == \A v \in DOMAIN history : AddressOf[p] \subseteq TargetsIn(history[v])

\* A node whose pod never left the membership and whose process lives is not removed
\* because the API server, DNS or a stream is lost (KubernetesDiscovery.ts:237,
\* NodeStream.ts:23-24), except by a partial answer of DNS, which drops one family of addresses.
KeepsReadyNodesUnlessPartial ==
    [][\A p \in DOMAIN members :
         p \in alive /\ AlwaysListed(p) /\ ~partial' => p \in DOMAIN members']_vars

InSync == TargetsIn(history[Latest]) = Addresses(ready)
Expected == [p \in ready \ {Self} |-> edition[p]]

\* When the slices settle, the remote nodes settle at the ready pods with their last
\* snapshots (packages/k8s/README.md:138-146).
Converges == <>[](InSync /\ phase # "closed") => <>[](members = Expected)

=============================================================================
