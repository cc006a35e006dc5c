--------------------------- MODULE TopologyRouting ---------------------------
(***************************************************************************)
(* How Topology chooses the node of a request: route, report and the       *)
(* routing states of Topology.ts.  There is one service, which every node  *)
(* offers, and one transporter; a strategy has one state, its default key. *)
(* Membership and reachability are those of module Topology, reduced to    *)
(* what routing and a transporter see of them.                             *)
(***************************************************************************)
EXTENDS Integers, FiniteSets, SequencesExt

CONSTANTS
    Peers,          \* remote nodes, by node_id
    Sorted,         \* the same in the order of their ids
    FirstMembers,   \* the members from the beginning, in the order they came
    Nobody,         \* undefined as a node
    Hash            \* of the key of consistent-hash

ASSUME TopologyRoutingAssumption ==
    /\ Nobody \notin Peers
    /\ Sorted \in Seq(Peers) /\ \A p \in Peers : \E j \in DOMAIN Sorted : Sorted[j] = p
    /\ FirstMembers \in Seq(Peers) /\ IsInjective(FirstMembers)
    /\ Hash \in Nat

VARIABLES
    order,      \* nodes$: the members in the order of the Map
    reach,      \* #reachability of a node; a node without report is reachable
    index,      \* #routingStates of round-robin
    active      \* #routingStates of least-active: activeByNode

routingVars == <<order, reach, index, active>>

Strategies == {"pinned", "random", "consistent-hash", "round-robin", "least-active"}
Status == {"reachable", "suspect", "unreachable"}

RoutingInit ==
    /\ order = FirstMembers
    /\ reach = [p \in Peers |-> "reachable"]
    /\ index = 0
    /\ active = [p \in Peers |-> 0]

Member(p) == \E j \in DOMAIN order : order[j] = p

\* isReachable: a suspect node is not.
Reachable(p) == reach[p] = "reachable"

\* Only reachable nodes are chosen: their places in nodes$.
Candidates == {j \in DOMAIN order : Reachable(order[j])}

\* reportReachability leaves out who is not a member.
Reported(p, status) == [reach EXCEPT ![p] = IF Member(p) THEN status ELSE @]

\* sortedById: p comes before q.
Before(p, q) == \E i, j \in DOMAIN Sorted : i < j /\ Sorted[i] = p /\ Sorted[j] = q

\* What each case of #selectNode looks for among the candidates.
Prefers(strategy, pin, j) ==
    LET Nth(n) == n % Cardinality(Candidates)
        Busy(i) == active[order[i]]
    IN
    CASE strategy = "pinned" -> order[j] = pin
      [] strategy = "random" -> TRUE
      [] strategy = "consistent-hash" ->
            Cardinality({i \in Candidates : Before(order[i], order[j])}) = Nth(Hash)
      [] strategy = "round-robin"     ->
            Cardinality({i \in Candidates : i < j}) = Nth(index)
      [] strategy = "least-active"    ->
            \A i \in Candidates : Busy(j) < Busy(i) \/ (Busy(j) = Busy(i) /\ j <= i)

\* route and #selectNode: node p is chosen, which is Nobody if none can be.
Selects(strategy, pin, p) ==
    LET chosen == {order[j] : j \in {i \in Candidates : Prefers(strategy, pin, i)}}
    IN IF chosen = {} THEN p = Nobody ELSE p \in chosen

Route(strategy, pin, p) ==
    /\ Selects(strategy, pin, p)
    /\ index' = IF strategy = "round-robin" /\ p # Nobody
                THEN (index + 1) % Cardinality(Candidates) ELSE index
    /\ active' = IF strategy = "least-active" /\ p # Nobody
                 THEN [active EXCEPT ![p] = @ + 1] ELSE active

\* report: a request of the strategy least-active is over at p.
Report(p) == active' = [active EXCEPT ![p] = IF @ > 0 THEN @ - 1 ELSE 0]

=============================================================================
