----------------------------- MODULE ServiceWait -----------------------------
(***************************************************************************)
(* Waiting for a service with a Topology: listRpcNodes, watchService and   *)
(* waitForService of SpiderMesh.ts, which RemoteService.ts calls for its   *)
(* nodes, watch and wait.  The checker is asynchronous: every list the     *)
(* watch emits is checked at once, and the answers come in any order.      *)
(***************************************************************************)
EXTENDS Announcements

CONSTANT Wanted     \* what the checker asks for: a list with one of these

ASSUME ServiceWaitAssumption == Wanted \subseteq Providers

VARIABLES
    wait,       \* "idle", "waiting", "stopping", or how it ended: "found", "null", "failed"
    emitted,    \* the last list of watchService
    checks      \* the lists whose checker has not answered

waitVars == <<wait, emitted, checks>>

\* Topology.list(service)
Listed == {p \in Providers : known[p].offers}

\* #listRoutableNodes: both the service and the endpoint of a transporter.
Routable(p) == p \in Listed /\ known[p].endpoint /\ p \in reachable
RoutableNodes == {[node |-> p, version |-> known[p].version] : p \in {q \in Providers : Routable(q)}}

NoList == {[node |-> "none", version |-> -1]}

WaitInit == wait = "idle" /\ emitted = NoList /\ checks = {}

WaitForService ==
    /\ wait = "idle"
    /\ wait' = "waiting"
    /\ UNCHANGED <<emitted, checks>>

\* distinctUntilChanged: as many nodes, and all of them known in the same version.
SameList(previous, current) ==
    Cardinality(previous) = Cardinality(current) /\ \A x \in current : x \in previous

\* An event of the Topology or the timer makes watchService look at the nodes again.
Emits ==
    /\ wait = "waiting"
    /\ emitted = NoList \/ ~SameList(emitted, RoutableNodes)
    /\ emitted' = RoutableNodes
    /\ checks' = checks \cup {RoutableNodes}
    /\ UNCHANGED wait

Ready(list) == \E x \in list : x.node \in Wanted

Over(outcome) == wait' = outcome /\ emitted' = NoList /\ checks' = {}

\* The checker answers for one list.  The first it accepts ends the wait, even if it is
\* not the last one; after stop$ the answers that are due are still waited for.
CheckEnds(list) ==
    /\ list \in checks
    /\ \/ Ready(list) /\ Over("found")
       \/ ~Ready(list) /\ wait = "stopping" /\ checks = {list} /\ Over("null")
       \/ /\ ~Ready(list) /\ (wait = "stopping" => checks # {list})
          /\ checks' = checks \ {list} /\ UNCHANGED <<wait, emitted>>

\* The checker rejects, and so does the wait.
CheckFails == checks # {} /\ Over("failed")

\* stop$ ends the watch, not the checks: without any of them the wait resolves with null.
Stops ==
    /\ wait = "waiting"
    /\ IF checks = {} THEN Over("null") ELSE wait' = "stopping" /\ UNCHANGED <<emitted, checks>>

Waiting ==
    \/ WaitForService
    \/ Emits
    \/ \E list \in checks : CheckEnds(list)
    \/ CheckFails
    \/ Stops
=============================================================================
