----------------------------- MODULE ServiceCall -----------------------------
(***************************************************************************)
(* A process waits for a service, with a Topology (ServiceWait, over       *)
(* Announcements) or without (ServiceProbe), then calls a method of it     *)
(* (RemoteService) which its providers have decorated with                 *)
(* @LimitConcurrency: a request that has arrived waits for a slot, and     *)
(* gives it back when its method or its stream is over, for whatever       *)
(* reason.                                                                 *)
(***************************************************************************)
EXTENDS RemoteService, LimitConcurrency, ServiceProbe

ASSUME ServiceCallAssumption == Providers = Nodes /\ Locals \cap Requests = {}

callVars == <<vars, awaited, limiterVars>>
serviceVars == <<callVars, announcementVars, waitVars, probeVars>>

ServiceInit ==
    Init /\ RemoteInit /\ LimiterInit /\ AnnouncementsInit /\ WaitInit /\ ProbeInit

-----------------------------------------------------------------------------
(* The limited method.                                                     *)

MethodArrives(r) == RequestArrives(r, TRUE) /\ Queued(r)

MethodSettles(r) ==
    /\ r \in slots
    /\ MethodReturns(r) \/ \E code \in Codes : MethodFails(r, code)
    /\ Released(r)

MethodStreams(r) == r \in slots /\ StreamStarts(r) /\ UNCHANGED <<slots, waiting>>

MethodStreamEnds(r, end) == StreamEnds(r, end) /\ Finalized(r, FALSE)

\* A cancel finds the stream, or there is none to give its slot back.
MethodCancelled(r) ==
    /\ CancelArrives(r)
    /\ IF server[r].phase = "live" THEN Finalized(r, TRUE) ELSE UNCHANGED <<slots, waiting>>

LimitedStep ==
    \E r \in Requests :
        \/ MethodArrives(r)
        \/ MethodSettles(r)
        \/ MethodStreams(r)
        \/ \E end \in {"completed"} \cup Codes : MethodStreamEnds(r, end)
        \/ MethodCancelled(r)

\* The nodes of a batch are those listRpcNodes gives when it is called.
BatchNodes == {x.node : x \in RoutableNodes}

PlainStep ==
    \/ RemoteStep
    \/ \E c \in Calls, b \in BOOLEAN : Batch(c, BatchNodes, b)
    \/ /\ \E r \in Requests :
              \/ RequestArrives(r, FALSE)
              \/ StreamEmits(r)
              \/ \E b \in BOOLEAN : ReplySends(r, b)
              \/ ReplyFails(r)
       /\ UNCHANGED awaited

-----------------------------------------------------------------------------

NoCallYet == \A c \in Calls : call[c].phase = "idle"

\* Bound: the call is made when the wait has ended, all providers are known as they
\* are and nothing went wrong; which nodes can be routed to is left open by RpcCall anyway.
Settled ==
    /\ topology /\ wait = "found" /\ faults = 0
    /\ \A p \in Providers : Routable(p) /\ known[p] = local[p] /\ datagrams[p] = {}

CallStep ==
    /\ ~NoCallYet \/ Settled
    /\ \/ LimitedStep /\ UNCHANGED <<awaited, direct>>
       \/ PlainStep /\ UNCHANGED limiterVars
       \/ ~NoCallYet /\ LocalCalls /\ UNCHANGED <<vars, awaited>>
    /\ UNCHANGED <<announcementVars, waitVars, probeVars>>

\* Bound: what happens to other providers after the call is no concern of it.
WaitStep ==
    /\ NoCallYet
    /\ \/ topology /\ Discovery /\ UNCHANGED <<waitVars, probeVars>>
       \/ topology /\ Waiting /\ UNCHANGED <<announcementVars, probeVars>>
       \/ ~topology /\ WaitForService /\ UNCHANGED <<announcementVars, probeVars>>
       \/ ~topology /\ Polling /\ UNCHANGED announcementVars
    /\ UNCHANGED callVars

ServiceNext == CallStep \/ WaitStep

ServiceSpec == ServiceInit /\ [][ServiceNext]_serviceVars

Quietly(A) == topology /\ NoCallYet /\ A /\ UNCHANGED <<callVars, waitVars, probeVars>>
Waited(A) == topology /\ A /\ UNCHANGED <<callVars, announcementVars, probeVars>>
Polled(A) == ~topology /\ A /\ UNCHANGED <<callVars, announcementVars, emitted, checks>>

\* Heartbeats go on and arrive, watchService has its timer of 250 ms, waitForService that
\* of 500 ms, and the checkers and probes answer.
NewsArrives ==
    /\ \A p \in Providers :
        /\ WF_serviceVars(Quietly(Heartbeat(p)))
        /\ WF_serviceVars(Quietly(\E s \in datagrams[p] : Receive(p, s)))
    /\ WF_serviceVars(Waited(Emits))
    /\ WF_serviceVars(Waited(\E list \in checks : CheckEnds(list)))
    /\ \A k \in 1..MaxPolls : WF_serviceVars(Polled(PollStarts(k) \/ ProbeAnswers(k)))

ServiceFairSpec == ServiceSpec /\ TransportsSettle /\ NewsArrives

-----------------------------------------------------------------------------
(* Properties.                                                             *)

AtWork == {r \in Requests : server[r].phase \in {"invoking", "live"}} \cup LocalsAtWork

\* Slots are neither lost nor given twice, and none is idle while a call waits: those
\* at work hold a slot each or wait for one, through cancels that come before the
\* stream or after it, lost links and failed replies (LimitConcurrency.ts:30-44).
SlotsAreExact ==
    /\ AtWork = slots \cup {waiting[k] : k \in DOMAIN waiting}
    /\ slots \cap {waiting[k] : k \in DOMAIN waiting} = {}
    /\ Cardinality(slots) <= Limit
    /\ waiting # <<>> => Cardinality(slots) = Limit

Offers(p) == p \in up /\ local[p].offers /\ local[p].endpoint /\ p \in reachable

\* What makes a wait worth while: some wanted provider offers the service for good, or
\* some transporter can reach it for good.
Comes ==
    \/ topology /\ \E p \in Wanted : <>[]Offers(p)
    \/ ~topology /\ \E j \in DOMAIN Rpcs : <>[](Rpcs[j] \in routes)

\* A wait for a service that comes ends, whatever announcements are lost and in whichever
\* order they and the checkers' answers come, and without a Topology whatever transporters
\* cannot reach it or fail to say so (SpiderMesh.ts:155-165, 347-362,
\* TopologyDiscoveryAdapter.ts:90-103).
WaitsEnd ==
    Comes => (wait \in {"waiting", "stopping"} ~> wait \notin {"waiting", "stopping"})

=============================================================================
