------------------------------ MODULE Http2Link ------------------------------
(***************************************************************************)
(* The connections of Http2Rpc.ts: one session to each node of Topology,   *)
(* opened by a loop that never gives up while the node is a member, or by  *)
(* a request that needs it.  The attempts of a loop are counted up to one  *)
(* more than UnreachableAfter, beyond which the code does not tell them    *)
(* apart.  A destroyed session is known as such before its close event.    *)
(***************************************************************************)
EXTENDS TopologyRouting

CONSTANTS
    Targets,            \* addresses: host and port
    TargetsOf,          \* bound: those a node has, one after another
    Nowhere,            \* no address
    AtStart,            \* the address of each node Topology knows from the beginning
    UnreachableAfter,   \* SPIDERMESH_HTTP2_RECONNECT_ATTEMPTS
    MaxChanges,         \* bound: changes of each node's membership or address
    MaxSessions,        \* bound: sessions opened to each node
    MaxProbes           \* bound: probes of each node

ASSUME Http2LinkAssumption ==
    /\ Nowhere \notin Targets
    /\ TargetsOf \in [Peers -> SUBSET Targets]
    /\ AtStart \in [Peers -> Targets \cup {Nowhere}]
    /\ \A p \in Peers : AtStart[p] # Nowhere <=> \E j \in DOMAIN FirstMembers : FirstMembers[j] = p
    /\ UnreachableAfter \in Nat \ {0}
    /\ MaxChanges \in [Peers -> Nat]
    /\ MaxSessions \in [Peers -> Nat]
    /\ MaxProbes \in [Peers -> Nat]

VARIABLES
    target,     \* the address Topology has for a member
    link,       \* #connections, #connecting and #reconnecting of each node
    disposed,   \* #isDisposing
    forgotten,  \* history: a loop that has reported the node runs on, the report does not
    spent       \* the bounded counts

linkVars == <<target, link, disposed, forgotten, spent>>

NoLink == [session |-> "none", dialing |-> Nowhere, phase |-> "none", aim |-> Nowhere,
           attempt |-> 0, orphans |-> 0]

Open(p) == link[p].session = "open"

\* #reportReachability
ReportReachability(p, status) == reach' = Reported(p, status)

\* #connect without its await: a dead session is dropped, an attempt in flight is shared.
Dialed(l, t) ==
    IF l.session = "open" THEN l
    ELSE [l EXCEPT !.session = "none",
                   !.orphans = IF l.session = "dead" THEN @ + 1 ELSE @,
                   !.dialing = IF @ = Nowhere THEN t ELSE @]

\* A loop returns.
LoopOver(l) == [l EXCEPT !.phase = "none", !.aim = Nowhere, !.attempt = 0]

\* #connectWithRetry from the head of its loop to the await of #connect.
Tried(l, t) ==
    LET attempt == IF t # l.aim THEN 1
                   ELSE IF l.attempt > UnreachableAfter THEN l.attempt ELSE l.attempt + 1
    IN IF l.session = "open" THEN LoopOver(l)
       ELSE [Dialed(l, t) EXCEPT !.phase = "connecting", !.aim = t, !.attempt = attempt]

\* #ensureConnection: a new loop, or a new address for the one that sleeps.
Ensured(l, t) ==
    IF l.session = "open" THEN l
    ELSE IF l.phase = "none" THEN Tried(l, t)
    ELSE IF l.phase = "sleeping" /\ t # l.aim THEN Tried(l, t)
    ELSE l

\* start(): #bindTopology ensures a connection to every member there is.
LinkInit ==
    /\ target = AtStart
    /\ link = [p \in Peers |-> IF AtStart[p] = Nowhere THEN NoLink ELSE Ensured(NoLink, AtStart[p])]
    /\ disposed = FALSE
    /\ forgotten = [p \in Peers |-> FALSE]
    /\ spent = [p \in Peers |-> [changes |-> 0, sessions |-> 0, probes |-> 0]]

\* The subscriber of nodes$ looks at every member.
EnsuredAll(at) ==
    [p \in Peers |-> IF at[p] = Nowhere THEN link[p] ELSE Ensured(link[p], at[p])]

-----------------------------------------------------------------------------
(* Topology changes, which nobody listens to any more after stop().        *)

\* A snapshot of p with address t, which may be the same again.
Announced(p, t) ==
    /\ t \in TargetsOf[p]
    /\ ~disposed /\ spent[p].changes < MaxChanges[p]
    /\ spent' = [spent EXCEPT ![p].changes = @ + 1]
    /\ target' = [target EXCEPT ![p] = t]
    /\ order' = IF Member(p) THEN order ELSE Append(order, p)
    /\ link' = EnsuredAll(target')
    /\ reach' = [q \in Peers |-> IF Open(q) /\ (Member(q) \/ q = p)
                                 THEN "reachable" ELSE reach[q]]
    /\ UNCHANGED <<index, active, disposed, forgotten>>

\* Discovery or a timer removes p; its session and its loop are not touched.
Removed(p) ==
    /\ ~disposed /\ spent[p].changes < MaxChanges[p]
    /\ spent' = [spent EXCEPT ![p].changes = @ + 1]
    /\ target' = [target EXCEPT ![p] = Nowhere]
    /\ \E j \in DOMAIN order : order[j] = p /\ order' = RemoveAt(order, j)
    /\ link' = EnsuredAll(target')
    /\ reach' = [q \in Peers |-> IF q = p \/ (Open(q) /\ Member(q)) THEN "reachable"
                                 ELSE reach[q]]
    /\ forgotten' = [forgotten EXCEPT ![p] = link[p].attempt >= UnreachableAfter]
    /\ UNCHANGED <<index, active, disposed>>

-----------------------------------------------------------------------------
(* probe(): a node, or one of the service, is connected without a request. *)

Probed(p) ==
    /\ ~disposed /\ Member(p)
    /\ spent[p].probes < MaxProbes[p]
    /\ spent' = [spent EXCEPT ![p].probes = @ + 1]
    /\ \/ UNCHANGED <<index, active>>
       \/ Route("round-robin", Nobody, p)
    /\ link' = [link EXCEPT ![p] = Dialed(@, target[p])]
    /\ UNCHANGED <<order, reach, target, disposed, forgotten>>

-----------------------------------------------------------------------------
(* The end of a connection attempt.  Who waits for it goes on in the same  *)
(* turn: the loop here, requests in module Http2Rpc.                       *)

Connected(p) ==
    LET awaited == IF link[p].phase = "connecting" THEN LoopOver(link[p]) ELSE link[p] IN
    /\ link[p].dialing # Nowhere
    /\ spent[p].sessions < MaxSessions[p]
    /\ spent' = [spent EXCEPT ![p].sessions = @ + 1]
    /\ link' = [link EXCEPT ![p] = [awaited EXCEPT !.session = "open", !.dialing = Nowhere]]
    /\ ReportReachability(p, "reachable")
    /\ forgotten' = [forgotten EXCEPT ![p] = /\ link[p].phase = "sleeping"
                                             /\ link[p].attempt >= UnreachableAfter]
    /\ UNCHANGED <<order, target, disposed>>

\* Mutant: reported one attempt later.
ReportsDownLate(l) == l.phase = "connecting" /\ l.attempt = UnreachableAfter + 1

\* The attempt that makes a node unreachable.
ReportsDown(l) == l.phase = "connecting" /\ l.attempt = UnreachableAfter

Unconnected(p) ==
    /\ link[p].dialing # Nowhere
    /\ link' = [link EXCEPT ![p].dialing = Nowhere,
                            ![p].phase = IF link[p].phase = "connecting" THEN "sleeping" ELSE @]
    /\ IF ReportsDown(link[p]) THEN ReportReachability(p, "unreachable") ELSE UNCHANGED reach
    /\ UNCHANGED <<order, target, disposed, forgotten, spent>>

\* The backoff is over, after the events that were due before.
LoopWakes(p) ==
    /\ link[p].phase = "sleeping"
    /\ link[p].orphans = 0 /\ link[p].session # "dead"
    /\ link' = [link EXCEPT ![p] =
                   IF disposed \/ ~Member(p) THEN LoopOver(@) ELSE Tried(@, target[p])]
    /\ forgotten' = [forgotten EXCEPT ![p] = @ /\ link'[p].attempt >= UnreachableAfter]
    /\ UNCHANGED <<routingVars, target, disposed, spent>>

-----------------------------------------------------------------------------
(* The loss of a session, and the event that tells of it.                  *)

Lost(p) ==
    /\ Open(p)
    /\ link' = [link EXCEPT ![p].session = "dead"]
    /\ UNCHANGED <<routingVars, target, disposed, forgotten, spent>>

\* Mutant: a lost connection is opened again by the next request only.
AfterLossNothing(l, p) == l

AfterLoss(l, p) == IF Member(p) /\ ~disposed THEN Ensured(l, target[p]) ELSE l

\* Mutant: that the node is connected again already is overlooked.
LossStatusBlind(p) == "suspect"

\* suspect, and at once reachable again if the node has another session by now.
LossStatus(p) == IF Open(p) /\ ~disposed THEN "reachable" ELSE "suspect"

\* #handleConnectionLoss, for the session of #connections or one replaced before.
CloseEvent(p) ==
    LET dropped == IF link[p].session = "dead" THEN [link[p] EXCEPT !.session = "none"]
                   ELSE [link[p] EXCEPT !.orphans = @ - 1]
    IN
    /\ link[p].session = "dead" \/ link[p].orphans > 0
    /\ link' = [link EXCEPT ![p] = AfterLoss(dropped, p)]
    /\ ReportReachability(p, LossStatus(p))
    /\ UNCHANGED <<order, index, active, target, disposed, forgotten, spent>>

\* Mutant: attempts in flight go on.
DisposedPending ==
    /\ ~disposed
    /\ disposed' = TRUE
    /\ link' = [p \in Peers |-> [link[p] EXCEPT !.session = "none", !.phase = "none"]]
    /\ UNCHANGED <<routingVars, target, forgotten, spent>>

\* unsubscribe(): what loops and attempts still wait for is cut short.
Disposed ==
    /\ ~disposed
    /\ disposed' = TRUE
    /\ link' = [p \in Peers |-> [NoLink EXCEPT !.orphans =
                   link[p].orphans + (IF link[p].session = "none" THEN 0 ELSE 1)]]
    /\ UNCHANGED <<routingVars, target, forgotten, spent>>

=============================================================================
