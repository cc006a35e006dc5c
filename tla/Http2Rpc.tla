------------------------------ MODULE Http2Rpc ------------------------------
(***************************************************************************)
(* Requests over HTTP/2: send(), the streams that carry them and the       *)
(* provider's end, in Http2Rpc.ts.  Each request is a stream of its own on *)
(* the session of its node; frames of a stream stay in order and are lost  *)
(* with the session.  A cancel is a request too, sent to the same node.    *)
(* resolveService is not set: every request is routed by Topology.         *)
(***************************************************************************)
EXTENDS Http2Link

CONSTANTS
    Requests,       \* by request_id
    MaxItems        \* bound: packets of an answer before its last

ASSUME Http2RpcAssumption == IsFiniteSet(Requests) /\ MaxItems \in Nat

VARIABLES
    call,       \* the caller's end of each request and of its stream
    cancel,     \* the cancel packet of each request
    serving,    \* the provider's end
    stream      \* frames on their way to the caller

vars == <<routingVars, linkVars, call, cancel, serving, stream>>

Uncalled == [phase |-> "idle", peer |-> Nobody, counted |-> FALSE, live |-> FALSE]
Unserved == [phase |-> "none", entry |-> FALSE, made |-> 0]

\* Constructed, listening and started.
Init ==
    /\ RoutingInit
    /\ LinkInit
    /\ call = [r \in Requests |-> Uncalled]
    /\ cancel = [r \in Requests |-> "none"]
    /\ serving = [r \in Requests |-> Unserved]
    /\ stream = [r \in Requests |-> <<>>]

CallsOf(p, phase) == {r \in Requests : call[r].peer = p /\ call[r].phase = phase}
Becomes(calls, phase) ==
    [r \in Requests |-> IF r \in calls THEN [call[r] EXCEPT !.phase = phase] ELSE call[r]]

-----------------------------------------------------------------------------
(* Connections, with the requests that wait for them or travel on them.    *)

TopologyChanges(p) ==
    /\ (\E t \in TargetsOf[p] : Announced(p, t)) \/ Removed(p)
    /\ UNCHANGED <<call, cancel, serving, stream>>

\* connection.request(), for every request and cancel that awaited #connect.
ConnectSucceeds(p) ==
    LET waiting == CallsOf(p, "connecting") IN
    /\ Connected(p)
    /\ call' = [r \in Requests |->
                  IF r \in waiting THEN [call[r] EXCEPT !.phase = "waiting", !.live = TRUE]
                  ELSE call[r]]
    /\ serving' = [r \in Requests |-> IF r \in waiting
                                      THEN [serving[r] EXCEPT !.phase = "arriving"]
                                      ELSE serving[r]]
    /\ cancel' = [r \in Requests |-> IF call[r].peer = p /\ cancel[r] = "connecting"
                                     THEN "sent" ELSE cancel[r]]
    /\ UNCHANGED <<index, active, stream>>

\* send() rejects before its try: nothing is reported to Topology.
ConnectFails(p) ==
    /\ Unconnected(p)
    /\ call' = Becomes(CallsOf(p, "connecting"), "unconnected")
    /\ cancel' = [r \in Requests |-> IF call[r].peer = p /\ cancel[r] = "connecting"
                                     THEN "lost" ELSE cancel[r]]
    /\ UNCHANGED <<index, active, serving, stream>>

Probe(p) == Probed(p) /\ UNCHANGED <<call, cancel, serving, stream>>
Wake(p) == LoopWakes(p) /\ UNCHANGED <<call, cancel, serving, stream>>
Closed(p) == CloseEvent(p) /\ UNCHANGED <<call, cancel, serving, stream>>

OnSession(p) == {r \in Requests : call[r].peer = p /\ call[r].live}
CutStreams(cut, cancels) ==
    /\ serving' = [r \in Requests |-> IF r \in cut /\ serving[r].phase = "arriving"
                                      THEN [serving[r] EXCEPT !.phase = "none"]
                                      ELSE serving[r]]
    /\ cancel' = [r \in Requests |-> IF r \in cancels THEN "lost" ELSE cancel[r]]
    /\ stream' = [r \in Requests |-> IF r \in cut THEN <<>> ELSE stream[r]]

SessionLost(p) ==
    /\ Lost(p)
    /\ call' = [r \in Requests |-> IF r \in OnSession(p) THEN [call[r] EXCEPT !.live = FALSE]
                                   ELSE call[r]]
    /\ CutStreams(OnSession(p), {r \in Requests : call[r].peer = p /\ cancel[r] = "sent"})

\* stop(): sessions and attempts are destroyed, with what travels on them or waits for them.
Dispose ==
    /\ Disposed
    /\ call' = [r \in Requests |->
                  IF call[r].phase = "connecting" THEN [call[r] EXCEPT !.phase = "unconnected"]
                  ELSE [call[r] EXCEPT !.live = FALSE]]
    /\ CutStreams({r \in Requests : call[r].live},
                  {r \in Requests : cancel[r] \in {"connecting", "sent"}})

-----------------------------------------------------------------------------
(* send() of a request.                                                    *)

\* canRoute, which the mesh asks in the turn it sends in; every member has an endpoint.
CanRoute(strategy, pin) ==
    IF strategy = "pinned" THEN Member(pin) /\ Reachable(pin)
    ELSE \E p \in Peers : Member(p) /\ Reachable(p)

Send(r) ==
    /\ ~disposed
    /\ call[r].phase = "idle"
    /\ \E strategy \in Strategies, pin \in Peers, p \in Peers \cup {Nobody} :
       /\ IF CanRoute(strategy, pin) THEN Route(strategy, pin, p)
          ELSE p = Nobody /\ UNCHANGED <<index, active>>
       /\ IF p = Nobody
          THEN /\ call' = [call EXCEPT ![r].phase = "unrouted"]
               /\ UNCHANGED <<link, serving>>
          ELSE /\ call' = [call EXCEPT ![r] =
                              [phase |-> IF Open(p) THEN "waiting" ELSE "connecting",
                               peer |-> p, counted |-> strategy = "least-active",
                               live |-> Open(p)]]
               /\ link' = [link EXCEPT ![p] = Dialed(@, target[p])]
               /\ serving' = IF Open(p) THEN [serving EXCEPT ![r].phase = "arriving"]
                             ELSE serving
    /\ UNCHANGED <<order, reach, target, disposed, forgotten, spent, cancel, stream>>

\* Mutant: only success is reported.
ReportSuccess(r) ==
    IF call[r].counted /\ stream[r] # <<>> /\ Head(stream[r]) = "headers"
    THEN Report(call[r].peer) ELSE UNCHANGED active

\* The headers settle send(), and Topology is told how it went.
ReportRoute(r) == IF call[r].counted THEN Report(call[r].peer) ELSE UNCHANGED active

Arrives(r, frame) ==
    /\ stream[r] # <<>> /\ Head(stream[r]) = frame
    /\ stream' = [stream EXCEPT ![r] = Tail(@)]
    /\ UNCHANGED <<order, reach, index, linkVars, cancel, serving>>

Headers(r) ==
    /\ Arrives(r, "headers")
    /\ call' = [call EXCEPT ![r].phase = "sent"]
    /\ ReportRoute(r)

Refused(r) ==
    /\ Arrives(r, "refused")
    /\ call' = [call EXCEPT ![r].phase = "refused"]
    /\ ReportRoute(r)

Item(r) == Arrives(r, "item") /\ UNCHANGED <<call, active>>

Final(r) ==
    /\ Arrives(r, "final")
    /\ call' = IF call[r].phase = "sent" THEN [call EXCEPT ![r].phase = "answered"] ELSE call
    /\ UNCHANGED active

\* 'end' or 'error' of a stream whose session is gone: with headers the call is answered
\* OFFLINE, except by a transporter that is stopped; without them only an error settles send().
Broken(r, how) ==
    IF call[r].phase = "sent" THEN "offline" ELSE IF how = "error" THEN "refused" ELSE "mute"

StreamBreaks(r, how) ==
    /\ ~call[r].live
    /\ call[r].phase = "waiting" \/ (call[r].phase = "sent" /\ ~disposed)
    /\ call' = [call EXCEPT ![r].phase = Broken(r, how)]
    /\ IF call[r].phase = "waiting" /\ how = "error" THEN ReportRoute(r) ELSE UNCHANGED active
    /\ UNCHANGED <<order, reach, index, linkVars, cancel, serving, stream>>

\* cancel(): a packet of its own, for which a lost connection is opened again, even after
\* stop(): then the call is cancelled "late".
Cancel(r) ==
    LET p == call[r].peer IN
    /\ call[r].phase = "sent"
    /\ call' = [call EXCEPT ![r].phase = IF disposed THEN "late" ELSE "cancelled"]
    /\ IF ~Member(p)
       THEN UNCHANGED <<link, cancel>>
       ELSE /\ link' = [link EXCEPT ![p] = Dialed(@, target[p])]
            /\ cancel' = [cancel EXCEPT ![r] = IF Open(p) THEN "sent" ELSE "connecting"]
    /\ UNCHANGED <<routingVars, target, disposed, forgotten, spent, serving, stream>>

-----------------------------------------------------------------------------
(* The provider: #handleStream, send() of a reply, and the cancel.         *)

RequestArrives(r) ==
    /\ serving[r].phase = "arriving"
    /\ \/ /\ serving' = [serving EXCEPT ![r].phase = "running", ![r].entry = TRUE]
          /\ stream' = [stream EXCEPT ![r] = Append(@, "headers")]
       \/ /\ serving' = [serving EXCEPT ![r].phase = "over"]
          /\ stream' = [stream EXCEPT ![r] = Append(@, "refused")]
    /\ UNCHANGED <<routingVars, linkVars, call, cancel>>

\* send() of a reply: without its response stream it is dropped, and reported as sent.
Written(r, frame) ==
    stream' = IF serving[r].entry /\ call[r].live
              THEN [stream EXCEPT ![r] = Append(@, frame)] ELSE stream

\* Mutant: the response stream is forgotten with the first reply.
RepliesOnce(r, frame) ==
    /\ serving[r].phase = "running"
    /\ frame = "item" => serving[r].made < MaxItems
    /\ serving' = IF frame = "item"
                  THEN [serving EXCEPT ![r].made = @ + 1, ![r].entry = FALSE]
                  ELSE [serving EXCEPT ![r].phase = "over", ![r].entry = FALSE]
    /\ Written(r, frame)
    /\ UNCHANGED <<routingVars, linkVars, call, cancel>>

\* A value or the last packet of the answer, after which the response stream is forgotten.
Replies(r, frame) ==
    /\ serving[r].phase = "running"
    /\ frame = "item" => serving[r].made < MaxItems
    /\ serving' = IF frame = "item" THEN [serving EXCEPT ![r].made = @ + 1]
                  ELSE [serving EXCEPT ![r].phase = "over", ![r].entry = FALSE]
    /\ Written(r, frame)
    /\ UNCHANGED <<routingVars, linkVars, call, cancel>>

\* The provider notices the end of the session.
StreamCloses(r) ==
    /\ serving[r].entry /\ ~call[r].live
    /\ serving' = [serving EXCEPT ![r].entry = FALSE]
    /\ UNCHANGED <<routingVars, linkVars, call, cancel, stream>>

\* The method's stream is unsubscribed; the HTTP/2 stream stays open.
CancelArrives(r) ==
    /\ cancel[r] = "sent"
    /\ cancel' = [cancel EXCEPT ![r] = "arrived"]
    /\ serving' = [serving EXCEPT ![r].phase = IF @ = "running" THEN "over" ELSE @]
    /\ UNCHANGED <<routingVars, linkVars, call, stream>>

-----------------------------------------------------------------------------

Frame(r) == Headers(r) \/ Refused(r) \/ Item(r) \/ Final(r)
Breaks(r) == \E how \in {"end", "error"} : StreamBreaks(r, how)

Next ==
    \/ \E p \in Peers : \/ TopologyChanges(p) \/ Probe(p) \/ ConnectSucceeds(p) \/ ConnectFails(p)
                        \/ Wake(p) \/ Closed(p) \/ SessionLost(p)
    \/ Dispose
    \/ \E r \in Requests : \/ Send(r) \/ Frame(r) \/ Breaks(r) \/ Cancel(r)
                           \/ RequestArrives(r) \/ StreamCloses(r) \/ CancelArrives(r)
                           \/ Replies(r, "item") \/ Replies(r, "final")

Spec == Init /\ [][Next]_vars

-----------------------------------------------------------------------------
(* Properties.                                                             *)

\* A member is never given up: it is connected, its loop runs, or the event that starts
\* one is due (Http2Rpc.ts:361-367 and packages/tcp/README.md:217).
KeepsKnocking ==
    \A p \in Peers : Member(p) /\ ~disposed =>
        Open(p) \/ link[p].phase # "none" \/ link[p].session = "dead" \/ link[p].orphans > 0

\* What Topology holds of a member agrees with its connection, however events of lost
\* sessions and new ones overtake each other: a connected node is reachable once all
\* events are handled, and one that is not is still being tried (Http2Rpc.ts:308-324,
\* 337-343, 411-416).
ReachIsCurrent ==
    \A p \in Peers : Member(p) /\ ~disposed /\ link[p].orphans = 0 =>
        /\ Open(p) => reach[p] = "reachable"
        /\ reach[p] # "reachable" => link[p].phase # "none" \/ link[p].session = "dead"

\* A member that could not be connected UnreachableAfter times in a row is unreachable, so
\* that it is not chosen and may be evicted (Http2Rpc.ts:363-366).  Left out is a node
\* that is reported otherwise while the same loop runs on: the loop does not report it
\* a second time (Http2Rpc.ts:392).
DownNodesAreReported ==
    \A p \in Peers :
        /\ Member(p) /\ ~disposed /\ ~Open(p) /\ ~forgotten[p]
        /\ \/ link[p].phase = "sleeping" /\ link[p].attempt >= UnreachableAfter
           \/ link[p].phase = "connecting" /\ link[p].attempt > UnreachableAfter
        => reach[p] = "unreachable"

Counting(p, phases) ==
    {r \in Requests : call[r].counted /\ call[r].peer = p /\ call[r].phase \in phases}
Unsettled(p) == Counting(p, {"connecting", "waiting"})
Unreported(p) == Counting(p, {"unconnected", "mute"})

\* What least-active chooses by: the requests whose headers are still to come are all
\* counted, whatever fails, and nothing else is, at a node for which every send() that
\* ended was reported (Http2Rpc.ts:201-216).  Headers are sent on receipt, so it is not
\* "the node processing the fewest requests" (packages/core/README.md:292), and the count
\* goes down before "the transporter completed the request" (Topology.ts:376).  A send()
\* that fails in #connect, or whose stream ends without headers, reports nothing
\* (Http2Rpc.ts:156, 186-191) and its node looks busy for ever: of that node only the
\* first half is claimed.
ActiveIsExact ==
    \A p \in Peers :
        /\ active[p] >= Cardinality(Unsettled(p))
        /\ Unreported(p) = {} => active[p] = Cardinality(Unsettled(p))

Holds(r, frames) == \E j \in DOMAIN stream[r] : stream[r][j] \in frames

\* A call is not lost between its parts while its connection lives: while the caller waits,
\* its node is being connected; or the call is on the session in use, and the provider has
\* yet to get the request, still owes the last reply and has a stream for it, or has sent
\* it (Http2Rpc.ts:155-163, 460-468).  Nothing is claimed of a call whose session is gone:
\* with headers it is answered OFFLINE, but a stream that ends without them leaves send()
\* unsettled (Http2Rpc.ts:186-191), against packages/tcp/README.md:214-215, and a stopped
\* transporter tells nobody.
CallsAreCarried ==
    \A r \in Requests :
        /\ call[r].phase = "connecting" => link[call[r].peer].dialing # Nowhere
        /\ call[r].phase \in {"waiting", "sent"} /\ call[r].live =>
            /\ Open(call[r].peer)
            /\ \/ serving[r].phase = "arriving"
               \/ serving[r].phase = "running" /\ serving[r].entry
               \/ Holds(r, {"refused", "final"})

\* After stop() no connection is left or opened (Http2Rpc.ts:92-116), except to the node of
\* a call that is cancelled even later: its cancel() connects (Http2Rpc.ts:220-227).
StopsForGood ==
    disposed => \A p \in Peers :
        link[p].session # "none" \/ link[p].dialing # Nowhere =>
            \E r \in Requests : call[r].peer = p /\ call[r].phase = "late"

=============================================================================
