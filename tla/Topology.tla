------------------------------ MODULE Topology ------------------------------
(***************************************************************************)
(* The membership store of one process: packages/core/src/Topology.ts.     *)
(*                                                                         *)
(* Discovery feeds full snapshots in (upsertRemote) and takes nodes out    *)
(* (removeRemote); transporters report what they observe of each endpoint  *)
(* (reportReachability); a Discovery that can verify is asked when an      *)
(* endpoint turns unreachable; two interval timers evict nodes that are    *)
(* silent or unreachable for too long.  Every call runs to completion on   *)
(* the event loop, so a call is one action; the answer of Discovery.verify *)
(* arrives later, in a step of its own.                                    *)
(*                                                                         *)
(* A JavaScript Map is a total function here: Absent, Never and the        *)
(* statuses "none" and "idle" stand for a missing key.  Of a snapshot only *)
(* its version matters to this module.  Time advances in ticks of the      *)
(* resolution of Date.now(), so two calls may see the same time.           *)
(***************************************************************************)
EXTENDS Integers

CONSTANTS
    Ids,            \* node ids Discovery and the transporters speak of
    LocalId,        \* the id of the SpiderMesh this Topology is bound to; it is
                    \* in Ids when announcements of it echo back
    Transporters,   \* names of the transporters that report reachability
    Versions,       \* versions a snapshot can carry
    CanVerify,      \* whether the Discovery implements verify()
    StaleAfter,     \* staleAfterMs, 0 when the option is not set
    Window,         \* removeUnreachableAfterMs, 0 when it is not set
    MinPeriod,      \* the shortest timer period (100 ms)
    MaxPeriod,      \* the longest period of the unreachable timer (30 s)
    Lag,            \* how late the event loop may fire an interval timer
    MaxTime         \* bound: the clock stops here

ASSUME TopologyAssumption ==
    /\ Versions \subseteq Nat
    /\ CanVerify \in BOOLEAN
    /\ StaleAfter \in Nat
    /\ Window \in Nat
    /\ MinPeriod \in Nat \ {0}
    /\ MaxPeriod \in Nat \ {0}
    /\ Lag \in Nat
    /\ MaxTime \in Nat

VARIABLES
    now,            \* Date.now()
    bound,          \* whether bindLocalNode has delivered the local node
    life,           \* open; closing while close() waits for the Discovery; closed
    nodes,          \* nodes$: the version held for each id, or Absent
    lastSeen,       \* #lastSeen: time of the last accepted snapshot, or Never
    reachability,   \* #reachability: status and since, per node and transporter
    verifying,      \* #verifyingNodes: the verification in flight for each id
    staleAt,        \* when the stale timer is next due
    evictAt,        \* when the unreachable timer is next due
    feed,           \* events$, folded: what a subscriber knows of each node
    goodAt,         \* history: last time an endpoint was reported not unreachable
    badAt           \* history: since when it is reported nothing but unreachable

vars == <<now, bound, life, nodes, lastSeen, reachability, verifying,
          staleAt, evictAt, feed, goodAt, badAt>>

Absent == -1
Never  == -1

Statuses == {"reachable", "suspect", "unreachable"}
Reasons  == {"discovery", "verification", "stale", "unreachable"}
Verdicts == {"alive", "dead", "unknown"}

NoReport == [status |-> "none", since |-> 0]
Idle     == [state |-> "idle", seen |-> Never, asked |-> 0]
NoEvents == [online |-> 0, reason |-> "none",
             endpoint |-> [t \in Transporters |-> "reachable"]]

Larger(a, b)  == IF a >= b THEN a ELSE b
Smaller(a, b) == IF a <= b THEN a ELSE b

StalePeriod == Larger(MinPeriod, StaleAfter \div 2)
EvictPeriod == Larger(MinPeriod, Smaller(Window \div 2, MaxPeriod))

AllIds == Ids \cup {LocalId}

Members  == {n \in AllIds : nodes[n] # Absent}
IsLocal(n) == bound /\ n = LocalId
EveryMember == Members
Remotes  == {n \in Members : ~IsLocal(n)}

Init ==
    /\ now = 0
    /\ bound = FALSE
    /\ life = "open"
    /\ nodes = [n \in AllIds |-> Absent]
    /\ lastSeen = [n \in AllIds |-> Never]
    /\ reachability = [n \in AllIds |-> [t \in Transporters |-> NoReport]]
    /\ verifying = [n \in AllIds |-> Idle]
    /\ staleAt = StalePeriod
    /\ evictAt = EvictPeriod
    /\ feed = [n \in AllIds |-> NoEvents]
    /\ goodAt = [n \in AllIds |-> [t \in Transporters |-> Never]]
    /\ badAt = goodAt

-----------------------------------------------------------------------------
(* The local node and remote snapshots.                                    *)

\* bindLocalNode: every emission of the mesh's localNode$ replaces the local
\* entry, whatever was known under that id.  SpiderMesh never changes its id,
\* so the branch that drops a previous local id has nothing to drop.  close()
\* ends the subscription first of all.
BindLocalNode(v) ==
    /\ life = "open"
    /\ bound' = TRUE
    /\ nodes' = [nodes EXCEPT ![LocalId] = v]
    /\ UNCHANGED <<now, life, lastSeen, reachability, verifying,
                   staleAt, evictAt, feed, goodAt, badAt>>

\* A snapshot is dropped when it is older than the one held (Absent < 0).
Accepts(n, v) == v >= nodes[n]

AlwaysOnline(n, fresh) == [feed EXCEPT ![n].online = @ + 1]
AnnounceOnline(n, fresh) == IF fresh THEN [feed EXCEPT ![n].online = @ + 1] ELSE feed

UpsertRemote(n, v) ==
    /\ life # "closed"
    /\ ~IsLocal(n)
    /\ Accepts(n, v)
    /\ nodes' = [nodes EXCEPT ![n] = v]
    /\ lastSeen' = [lastSeen EXCEPT ![n] = now]
    /\ feed' = AnnounceOnline(n, nodes[n] = Absent)
    /\ UNCHANGED <<now, bound, life, reachability, verifying, staleAt, evictAt, goodAt, badAt>>

\* patchPeer merges fields into a known node, its version included, and counts
\* as a sign of life of a remote node.
PatchPeer(n, v) ==
    /\ life # "closed"
    /\ n \in Members
    /\ nodes' = [nodes EXCEPT ![n] = v]
    /\ lastSeen' = IF IsLocal(n) THEN lastSeen ELSE [lastSeen EXCEPT ![n] = now]
    /\ UNCHANGED <<now, bound, life, reachability, verifying, staleAt, evictAt,
                   feed, goodAt, badAt>>

-----------------------------------------------------------------------------
(* Removal.  The four callers of removeRemote pass the reason they act on; *)
(* S is a set because the timers remove all they find in one callback.     *)

Forget(f, S, default) == [n \in AllIds |-> IF n \in S THEN default ELSE f[n]]

KeepReachability(S) == reachability
DropReachability(S) ==
    Forget(reachability, S, [t \in Transporters |-> NoReport])

RemoveRemotes(wanted, reason) ==
    LET S == wanted \cap Remotes
    IN  /\ nodes' = Forget(nodes, S, Absent)
        /\ lastSeen' = Forget(lastSeen, S, Never)
        /\ reachability' = DropReachability(S)
        /\ goodAt' = Forget(goodAt, S, [t \in Transporters |-> Never])
        /\ badAt' = Forget(badAt, S, [t \in Transporters |-> Never])
        /\ feed' = [n \in AllIds |->
                      IF n \in S THEN [online |-> feed[n].online - 1, reason |-> reason,
                                       endpoint |-> NoEvents.endpoint]
                                 ELSE feed[n]]

\* Discovery says the node left (context.removeRemote).
DiscoveryRemoves(n) ==
    /\ life # "closed"
    /\ n \in Remotes
    /\ RemoveRemotes({n}, "discovery")
    /\ UNCHANGED <<now, bound, life, verifying, staleAt, evictAt>>

-----------------------------------------------------------------------------
(* Verification and reachability.                                          *)

\* verifyNode: one verification per node is in flight; later calls share it.
StartVerify(n) ==
    IF CanVerify /\ n \in Members /\ verifying[n].state = "idle"
    THEN [verifying EXCEPT ![n] = [state |-> "asking", seen |-> lastSeen[n],
                                   asked |-> now]]
    ELSE verifying

VerifyNode(n) ==
    /\ life # "closed"
    /\ verifying' = StartVerify(n)
    /\ UNCHANGED <<now, bound, life, nodes, lastSeen, reachability,
                   staleAt, evictAt, feed, goodAt, badAt>>

\* The .then() of the verification: a rejected promise reads as "unknown".
TrustVerdict(n)  == TRUE
VerdictHolds(n) == lastSeen[n] = verifying[n].seen

VerdictArrives(n, verdict) ==
    /\ life # "closed"
    /\ verifying[n].state = "asking"
    /\ verifying' = [verifying EXCEPT ![n].state = "settling"]
    /\ IF verdict = "dead" /\ VerdictHolds(n)
       THEN RemoveRemotes({n}, "verification")
       ELSE UNCHANGED <<nodes, lastSeen, reachability, goodAt, badAt, feed>>
    /\ UNCHANGED <<now, bound, life, staleAt, evictAt>>

\* The .finally() runs in a microtask of its own.
VerificationEnds(n) ==
    /\ life # "closed"
    /\ verifying[n].state = "settling"
    /\ verifying' = [verifying EXCEPT ![n] = Idle]
    /\ UNCHANGED <<now, bound, life, nodes, lastSeen, reachability,
                   staleAt, evictAt, feed, goodAt, badAt>>

SinceAlwaysReset(previous, status) == now
Since(previous, status) ==
    IF previous.status = status THEN previous.since ELSE now

\* An endpoint event is sent when the status changes, except that a first
\* report of "reachable" says nothing that node-online did not say.
EndpointEventMissesFirst(previous, status) ==
    previous.status # status /\ previous.status # "none"
EndpointEvent(previous, status) ==
    previous.status # status /\ (status # "reachable" \/ previous.status # "none")

ReportReachability(n, t, status) ==
    LET previous == reachability[n][t]
    IN  /\ life # "closed"
        /\ n \in Members
        /\ reachability' = [reachability EXCEPT ![n][t] =
                              [status |-> status, since |-> Since(previous, status)]]
        /\ feed' = IF EndpointEvent(previous, status)
                   THEN [feed EXCEPT ![n].endpoint[t] = status] ELSE feed
        /\ verifying' = IF status = "unreachable" /\ previous.status # "unreachable"
                        THEN StartVerify(n) ELSE verifying
        /\ goodAt' = IF status = "unreachable" THEN goodAt
                     ELSE [goodAt EXCEPT ![n][t] = now]
        /\ badAt' = IF status # "unreachable" THEN [badAt EXCEPT ![n][t] = Never]
                    ELSE [badAt EXCEPT ![n][t] = IF @ = Never THEN now ELSE @]
        /\ UNCHANGED <<now, bound, life, nodes, lastSeen, staleAt, evictAt>>

-----------------------------------------------------------------------------
(* The two interval timers and the clock.                                  *)

\* #removeStaleNodes: strictly older than staleAfterMs.
StaleUnlessVerifying ==
    {n \in AllIds : /\ lastSeen[n] # Never
                    /\ lastSeen[n] < now - StaleAfter
                    /\ verifying[n].state = "idle"}
StaleNodes == {n \in AllIds : lastSeen[n] # Never /\ lastSeen[n] < now - StaleAfter}

StaleTimer ==
    /\ life = "open"
    /\ StaleAfter > 0
    /\ now >= staleAt
    /\ staleAt' = now + StalePeriod
    /\ RemoveRemotes(StaleNodes, "stale")
    /\ UNCHANGED <<now, bound, life, verifying, evictAt>>

\* Every transporter that reported n holds it unreachable, each since w ago
\* or longer; a node nobody reported on is not down.
Reported(n) == {t \in Transporters : reachability[n][t].status # "none"}

DownAt(n, w, time) ==
    /\ Reported(n) # {}
    /\ \A t \in Reported(n) : /\ reachability[n][t].status = "unreachable"
                              /\ reachability[n][t].since + w <= time

AnyEndpointDown(w) ==
    {n \in AllIds : \E t \in Reported(n) :
        /\ reachability[n][t].status = "unreachable"
        /\ reachability[n][t].since + w <= now}
NodesDown(w) == {n \in AllIds : DownAt(n, w, now)}

UnreachableTimer ==
    /\ life = "open"
    /\ Window > 0
    /\ now >= evictAt
    /\ evictAt' = now + EvictPeriod
    /\ RemoveRemotes(NodesDown(Window), "unreachable")
    /\ UNCHANGED <<now, bound, life, verifying, staleAt>>

\* A timer may fire late, but by no more than Lag.
Tick ==
    /\ life # "closed"
    /\ now < MaxTime
    /\ (StaleAfter > 0 /\ life = "open") => now < staleAt + Lag
    /\ (Window > 0 /\ life = "open") => now < evictAt + Lag
    /\ now' = now + 1
    /\ UNCHANGED <<bound, life, nodes, lastSeen, reachability, verifying,
                   staleAt, evictAt, feed, goodAt, badAt>>

\* close() stops the timers and the bindings, waits for the Discovery to close,
\* and then completes nodes$ and events$: while it waits, reports and verdicts
\* still count, and afterwards no call can change what a subscriber sees.
Close ==
    /\ life = "open"
    /\ life' = "closing"
    /\ UNCHANGED <<now, bound, nodes, lastSeen, reachability, verifying,
                   staleAt, evictAt, feed, goodAt, badAt>>

CloseEnds ==
    /\ life = "closing"
    /\ life' = "closed"
    /\ UNCHANGED <<now, bound, nodes, lastSeen, reachability, verifying,
                   staleAt, evictAt, feed, goodAt, badAt>>

Next ==
    \/ \E v \in Versions : BindLocalNode(v)
    \/ \E n \in Ids, v \in Versions : UpsertRemote(n, v)
    \/ \E n \in Ids, v \in Versions : PatchPeer(n, v)
    \/ \E n \in Ids : DiscoveryRemoves(n)
    \/ \E n \in Ids : VerifyNode(n)
    \/ \E n \in Ids, verdict \in Verdicts : VerdictArrives(n, verdict)
    \/ \E n \in Ids : VerificationEnds(n)
    \/ \E n \in Ids, t \in Transporters, s \in Statuses : ReportReachability(n, t, s)
    \/ StaleTimer
    \/ UnreachableTimer
    \/ Tick
    \/ Close
    \/ CloseEnds

Spec == Init /\ [][Next]_vars

-----------------------------------------------------------------------------
(* What every state satisfies.                                             *)

Times == Nat \cup {Never}

\* Types.  The counters of feed stay in Int: that they are 0 or 1 is a
\* property of its own below.
TypeOK ==
    /\ now \in Nat /\ staleAt \in Nat /\ evictAt \in Nat
    /\ bound \in BOOLEAN /\ life \in {"open", "closing", "closed"}
    /\ nodes \in [AllIds -> Nat \cup {Absent}]
    /\ lastSeen \in [AllIds -> Times]
    /\ reachability \in [AllIds -> [Transporters ->
                               [status : Statuses \cup {"none"}, since : Nat]]]
    /\ verifying \in [AllIds -> [state : {"idle", "asking", "settling"},
                                 seen : Times, asked : Nat]]
    /\ feed \in [AllIds -> [online : Int, reason : Reasons \cup {"none"},
                            endpoint : [Transporters -> Statuses]]]
    /\ goodAt \in [AllIds -> [Transporters -> Times]]
    /\ badAt \in [AllIds -> [Transporters -> Times]]

\* Whatever path took a node out, no time stamp and no report of it is left: a
\* stale "unreachable" would evict the next incarnation under its id at once.
\* And every remote member carries the time stamp without which the stale timer
\* would never look at it.  Not all that outlives a removal is in question: the
\* verification in flight stays, and the next incarnation shares it (200-217,
\* 269, 275: what its answer may do is the matter of DeadVerdictIsCurrent and
\* DeadNodesAreRemoved), and so do the counts of the least active node.
TracesMatchMembership ==
    \A n \in AllIds :
        /\ n \notin Members => (lastSeen[n] = Never /\ Reported(n) = {})
        /\ n \in Remotes => lastSeen[n] # Never

\* Once bound, the local node is a member whatever echoes of it, verdicts about
\* it or time stamps from before the binding say.
LocalNodeStays == bound => LocalId \in Members

\* A subscriber of events$ that counts node-online up and node-offline down
\* knows the remote membership exactly: no event is lost, doubled or sent for
\* a node that was not there, through all four ways of removing a node.
EventsTellMembership ==
    \A n \in AllIds : ~IsLocal(n) =>
        feed[n].online = IF n \in Members THEN 1 ELSE 0

\* A subscriber that keeps the last endpoint event of each endpoint, starting
\* from reachable when the node comes online, agrees with getReachability.
EventsTellReachability ==
    \A n \in AllIds, t \in Transporters :
        feed[n].endpoint[t] = IF t \in Reported(n) THEN reachability[n][t].status
                                                  ELSE "reachable"

\* Until close(), with staleAfterMs, a remote node Discovery is silent about is
\* gone after staleAfterMs, one timer period and the lateness of the timer.
SilentNodesLeave ==
    (StaleAfter > 0 /\ life = "open") =>
        \A n \in Remotes : now - lastSeen[n] <= StaleAfter + StalePeriod + Lag

\* Until close(), with removeUnreachableAfterMs, a remote node is gone within
\* the window, one period and the lateness after the last of its reporting
\* transporters began to report it unreachable, however often they repeat it.
DownNodesLeave ==
    (Window > 0 /\ life = "open") =>
        \A n \in Remotes :
            (Reported(n) # {} /\ \A t \in Reported(n) : badAt[n][t] # Never)
              => \E t \in Reported(n) : now - badAt[n][t] <= Window + EvictPeriod + Lag

Evicted(n, reason) ==
    n \in Remotes /\ nodes'[n] = Absent /\ feed'[n].reason = reason

\* The window protects a node whose connection comes back: it is evicted as
\* unreachable only if no transporter that reported on it has reported
\* anything better for a whole window.
NoEvictionInsideWindow ==
    [][\A n \in AllIds : Evicted(n, "unreachable") =>
          \A t \in Reported(n) : now - goodAt[n][t] >= Window]_vars

\* A dead verdict removes a node only if the last snapshot of it is not from a
\* later tick than the question: a node that was heard of since stays.  In the
\* tick of the question itself a snapshot voids nothing, since the code compares
\* time stamps (Topology.ts:285-286).
DeadVerdictIsCurrent ==
    [][\A n \in AllIds : Evicted(n, "verification") =>
          lastSeen[n] <= verifying[n].asked]_vars

-----------------------------------------------------------------------------
(* What the comments and documents claim and the code does not do.         *)

\* core/ARCHITECTURE.md:67-68, Discovery.verify(node): dead removes the
\* membership.  An endpoint that fails again while an older verification is
\* in flight shares it; when a snapshot came between, the dead answer is
\* dropped and nobody asks again.
OutageBegan(n) ==
    \E t \in Transporters : /\ reachability[n][t].status = "unreachable"
                            /\ reachability[n][t].since > lastSeen[n]

DeadNodesAreRemoved ==
    [][\A n \in Remotes : VerdictArrives(n, "dead") /\ OutageBegan(n)
                             => nodes'[n] = Absent]_vars
=============================================================================
