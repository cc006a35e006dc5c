---------------------------- MODULE ServiceProbe ----------------------------
(***************************************************************************)
(* Waiting for a service without a Topology: waitForService of             *)
(* SpiderMesh.ts polls probeService, which asks the transporters one after *)
(* the other in the order they registered.  One that has a probe() is      *)
(* asked for it and answers later; one that has none answers canRoute at   *)
(* once.  The polls come by the clock, whatever became of the last.        *)
(***************************************************************************)
EXTENDS ServiceWait, Sequences, FiniteSetsExt

CONSTANTS
    Rpcs,       \* the transporters of the mesh, in order of registration
    Probes,     \* those that have a probe()
    MaxPolls,   \* bound: polls at the same time
    MaxTurns    \* bound: how often routes come and go, and probes fail

ASSUME ServiceProbeAssumption ==
    /\ MaxPolls \in Nat \ {0} /\ MaxTurns \in Nat
    /\ Probes \subseteq {Rpcs[j] : j \in DOMAIN Rpcs}

VARIABLES
    topology,   \* whether the mesh was given a Topology
    polls,      \* what each poll waits for: a position in Rpcs, 0 if there is no such poll
    routes,     \* the transporters that know a node with the service
    turns

probeVars == <<topology, polls, routes, turns>>

NoPolls == [k \in 1..MaxPolls |-> 0]

ProbeInit == topology \in BOOLEAN /\ polls = NoPolls /\ routes = {} /\ turns = 0

Turn == turns < MaxTurns /\ turns' = turns + 1

\* Where the loop of probeService stops, from position j on.
Asked(j) == {i \in j..Len(Rpcs) : Rpcs[i] \in Probes \cup routes}

\* Mutant: a transporter whose probe says no is the last one asked.
FollowingNone(j) == Len(Rpcs) + 1

\* continue
Following(j) == j + 1

PollOver(outcome) == wait' = outcome /\ polls' = NoPolls

\* Nobody can reach the service: this poll yields nothing, and after stop$ the last one
\* that does ends the wait with null.
YieldsNothing(k) ==
    IF wait = "stopping" /\ \A m \in DOMAIN polls : m # k => polls[m] = 0
    THEN PollOver("null")
    ELSE polls' = [polls EXCEPT ![k] = 0] /\ UNCHANGED wait

\* probeService of poll k goes on at position j, up to its next await.
Proceeds(k, j) ==
    \/ Asked(j) = {} /\ YieldsNothing(k)
    \/ /\ Asked(j) # {} /\ Rpcs[Min(Asked(j))] \in Probes
       /\ polls' = [polls EXCEPT ![k] = Min(Asked(j))] /\ UNCHANGED wait
    \/ /\ Asked(j) # {} /\ Rpcs[Min(Asked(j))] \notin Probes
       /\ PollOver("found")

\* timer(0, 500)
PollStarts(k) ==
    /\ wait = "waiting" /\ polls[k] = 0
    /\ Proceeds(k, 1)
    /\ UNCHANGED <<topology, routes, turns>>

\* probe() of a transporter looks at its directory; only a "yes" is an answer.
ProbeAnswers(k) ==
    /\ polls[k] # 0
    /\ IF Rpcs[polls[k]] \in routes THEN PollOver("found") ELSE Proceeds(k, Following(polls[k]))
    /\ UNCHANGED <<topology, routes, turns>>

\* It rejects, which only makes this transporter unavailable.
ProbeFails(k) ==
    /\ polls[k] # 0 /\ Turn
    /\ Proceeds(k, Following(polls[k]))
    /\ UNCHANGED <<topology, routes>>

RouteChanges(t) ==
    /\ Turn
    /\ routes' = IF t \in routes THEN routes \ {t} ELSE routes \cup {t}
    /\ UNCHANGED <<topology, polls, wait>>

\* stop$ ends the timer, not the polls under way.
PollingStops ==
    /\ wait = "waiting"
    /\ wait' = IF polls = NoPolls THEN "null" ELSE "stopping"
    /\ UNCHANGED probeVars

Polling ==
    /\ \/ \E k \in DOMAIN polls : PollStarts(k) \/ ProbeAnswers(k) \/ ProbeFails(k)
       \/ \E j \in DOMAIN Rpcs : RouteChanges(Rpcs[j])
       \/ PollingStops
    /\ UNCHANGED <<emitted, checks>>
=============================================================================
