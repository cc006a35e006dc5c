------------------------------ MODULE RpcCall ------------------------------
(***************************************************************************)
(* The life of RPC calls, from callRemoteService on the calling node to    *)
(* the request handler of the providing node: packages/core/src/           *)
(* SpiderMesh.ts.                                                          *)
(*                                                                         *)
(* Every attempt of a call is a request of its own, with its own id, entry *)
(* in #rpc.pending and answer.  The transport between the two nodes is the *)
(* RpcTransporter contract of types.ts: it keeps the packets of one        *)
(* request in order and may lose its link at any moment.  Mostly it then   *)
(* says so, by rejecting send() or by answering the request itself as      *)
(* offline, but not always: an HTTP/2 stream that ends without headers     *)
(* leaves send() unsettled (Http2Rpc.ts:186-191), and a WebSocket call     *)
(* whose socket was replaced while it was sent, or whose close nobody      *)
(* notices, waits on (BaseWebsocketTransporter.ts:165-171, 302-309).       *)
(* An answer is delivered after send() has resolved: over HTTP/2 send()    *)
(* resolves on the response headers, over WebSocket before it yields.      *)
(*                                                                         *)
(* Values are numbered in the order the provider makes them; request ids   *)
(* are pairs <<call, attempt>>.                                            *)
(***************************************************************************)
EXTENDS Integers, Sequences

CONSTANTS
    Calls,          \* subscriptions of callRemoteService, concurrent
    Nodes,          \* provider nodes
    NoNode,         \* undefined as a node id
    Retry,          \* options.retry, 0 when it is not set
    HasTimeout,     \* whether options.timeout is set
    MaxItems        \* bound: values a provider makes for one request

ASSUME RpcCallAssumption ==
    /\ NoNode \notin Nodes
    /\ Retry \in Nat
    /\ HasTimeout \in BOOLEAN
    /\ MaxItems \in Nat \ {0}

VARIABLES
    call,       \* per call, what its subscriber sees
    req,        \* per request, the entry of #rpc.pending and the closure of the
                \* attempt: finished, cancelled, the promise of send()
    wire,       \* per request, the packets under way in both directions
    server      \* per request, its handler on the provider and #rpc.running

vars == <<call, req, wire, server>>

Attempts == 1..(Retry + 1)
Requests == Calls \X Attempts

Codes == {"error", "offline"}               \* what distinguishes errors: OFFLINE or not
Response(item, end) == [item |-> item, end |-> end]
Responses == [item : 0..MaxItems, end : {"none", "completed"} \cup Codes]
Terminal(packet) == packet.end # "none"

Unused   == [known |-> FALSE, finished |-> FALSE, node |-> NoNode, send |-> "none",
             cancelled |-> FALSE, cancels |-> 0, abandoned |-> FALSE]
Unsent   == [to |-> <<>>, from |-> <<>>, up |-> TRUE, mute |-> FALSE, carrier |-> NoNode]
Unserved == [phase |-> "none", running |-> FALSE, made |-> 0, whole |-> FALSE,
             queue |-> <<>>, poisoned |-> FALSE, cancelSeen |-> FALSE]

Init ==
    /\ call = [c \in Calls |-> [phase |-> "idle", attempt |-> 0, node |-> NoNode,
                                got |-> 0, outcome |-> "none"]]
    /\ req = [r \in Requests |-> Unused]
    /\ wire = [r \in Requests |-> Unsent]
    /\ server = [r \in Requests |-> Unserved]

-----------------------------------------------------------------------------
(* The subscriber of a call.                                               *)

MayRetryOneMore(attempt) == attempt <= Retry + 1
MayRetryOneLess(attempt) == attempt < Retry
MayRetry(attempt) == attempt <= Retry

\* An attempt of the call ended with an error: only OFFLINE is tried again,
\* after a delay.  The fallback option only renames the outcome.
Failed(v, code) ==
    IF code = "offline" /\ MayRetry(v.attempt)
    THEN [v EXCEPT !.phase = "delay"]
    ELSE [v EXCEPT !.phase = "over", !.outcome = code]

\* The teardown of an attempt's Observable, run on every way out of it: the
\* entry goes, and a request that is not finished is cancelled, now if send()
\* has resolved and otherwise when it does.
TeardownKeepsEntry(q) ==
    IF q.finished THEN q
    ELSE [q EXCEPT !.cancelled = TRUE,
                   !.cancels = IF q.send = "settled" THEN @ + 1 ELSE @]
Teardown(q) ==
    IF q.finished THEN [q EXCEPT !.known = FALSE]
    ELSE [q EXCEPT !.known = FALSE, !.cancelled = TRUE,
                   !.cancels = IF q.send = "settled" THEN @ + 1 ELSE @]

\* The cancels that before and after differ by are handed to the transport.
WithCancel(w, before, after) ==
    IF after.cancels > before.cancels /\ w.up THEN [w EXCEPT !.to = Append(@, "cancel")] ELSE w

Finished(q) == [q EXCEPT !.finished = TRUE]
Abandoned(q) == [q EXCEPT !.abandoned = TRUE]

Current(c) == <<c, call[c].attempt>>

\* One more attempt: select a transporter and send, or throw OFFLINE at once
\* when none can route or the transporter option names none.
Try(c, node, routed) ==
    LET k == call[c].attempt + 1
        v == [call[c] EXCEPT !.attempt = k, !.node = node, !.got = 0]
    IN  IF routed
        THEN /\ call' = [call EXCEPT ![c] = [v EXCEPT !.phase = "open"]]
             /\ req' = [req EXCEPT ![<<c, k>>] =
                          [Unused EXCEPT !.known = TRUE, !.node = node, !.send = "sending"]]
        ELSE /\ call' = [call EXCEPT ![c] = Failed(v, "offline")]
             /\ UNCHANGED req

\* node is options.node_id.
Subscribe(c, node, routed) ==
    /\ call[c].phase = "idle"
    /\ Try(c, node, routed)
    /\ UNCHANGED <<wire, server>>

RetryTimer(c, routed) ==
    /\ call[c].phase = "delay"
    /\ Try(c, call[c].node, routed)
    /\ UNCHANGED <<wire, server>>

GiveUp(c, how) ==
    LET r == Current(c)
        q == Abandoned(Teardown(req[r]))
    IN  /\ call' = [call EXCEPT ![c].phase = "over", ![c].outcome = how]
        /\ req' = [req EXCEPT ![r] = q]
        /\ wire' = [wire EXCEPT ![r] = WithCancel(@, req[r], q)]

\* timeout({ each }): too long without a value, from the start of the attempt.
TimeoutArmedUntilFirst(c) == call[c].phase = "open" /\ call[c].got = 0
TimeoutArmed(c) == call[c].phase = "open"

Timeout(c) ==
    /\ HasTimeout
    /\ TimeoutArmed(c)
    /\ GiveUp(c, "timeout")
    /\ UNCHANGED server

Unsubscribe(c) ==
    /\ \/ call[c].phase = "open" /\ GiveUp(c, "left")
       \/ /\ call[c].phase = "delay"
          /\ call' = [call EXCEPT ![c].phase = "over", ![c].outcome = "left"]
          /\ UNCHANGED <<req, wire>>
    /\ UNCHANGED server

-----------------------------------------------------------------------------
(* The promise of send().                                                  *)

\* The transport picks the node, the pinned one if there is one, and the
\* request is on its way; connecting may take so long that nobody waits.
RequestLeaves(r, n) ==
    /\ req[r].send = "sending"
    /\ call[r[1]].node \in {NoNode, n}
    /\ req' = [req EXCEPT ![r].send = "left"]
    /\ wire' = [wire EXCEPT ![r].to = <<"request">>, ![r].carrier = n]
    /\ UNCHANGED <<call, server>>

\* .then(): remember the node the transport chose, if it tells, and send the
\* cancel that had to wait.  A frame written to a socket nobody reads any more has
\* been sent all the same.
NoLateCancel(q) == [q EXCEPT !.send = "settled"]
LateCancel(q) == [q EXCEPT !.send = "settled",
                           !.cancels = IF q.cancelled THEN @ + 1 ELSE @]

SendResolves(r, tells) ==
    LET q == LateCancel(req[r])
    IN  /\ req[r].send = "left"
        /\ wire[r].up \/ wire[r].mute
        /\ req' = [req EXCEPT ![r] = IF tells THEN [q EXCEPT !.node = wire[r].carrier] ELSE q]
        /\ wire' = [wire EXCEPT ![r] = WithCancel(@, req[r], q)]
        /\ UNCHANGED <<call, server>>

\* .catch(): the attempt fails, unless nobody listens any more.
RejectionOnlyMarks(r, code) ==
    /\ req' = [req EXCEPT ![r] = Finished([@ EXCEPT !.send = "failed"])]
    /\ UNCHANGED call
RejectionFails(r, code) ==
    /\ req' = [req EXCEPT ![r] = Teardown(Finished([@ EXCEPT !.send = "failed"]))]
    /\ call' = IF req[r].known THEN [call EXCEPT ![r[1]] = Failed(@, code)] ELSE call

SendRejects(r, code) ==
    /\ \/ req[r].send = "sending"
       \/ req[r].send = "left" /\ ~wire[r].up /\ ~wire[r].mute
    /\ RejectionFails(r, code)
    /\ UNCHANGED <<wire, server>>

-----------------------------------------------------------------------------
(* Packets from the transport, on the calling node.                        *)

\* A terminal packet marks the request before its value is passed on, since a
\* subscriber that only wants one value leaves from inside next().
MarkedAfterNext(q, packet) == q
MarkedFirst(q, packet) == IF Terminal(packet) THEN Finished(q) ELSE q

\* What the subscriber sees of a response, and whether it leaves in next().
Seen(v, packet, leaves) ==
    LET w == IF packet.item > 0 THEN [v EXCEPT !.got = packet.item] ELSE v
    IN  IF leaves THEN [w EXCEPT !.phase = "over", !.outcome = "left"]
        ELSE IF packet.end = "completed"
             THEN [w EXCEPT !.phase = "over", !.outcome = "completed"]
             ELSE IF packet.end \in Codes THEN Failed(w, packet.end) ELSE w

ResponseArrives(r, leaves) ==
    LET packet == Head(wire[r].from)
        marked == MarkedFirst([req[r] EXCEPT !.node = wire[r].carrier], packet)
        after  == IF leaves /\ ~Terminal(packet) THEN Abandoned(Teardown(marked))
                  ELSE IF leaves THEN Teardown(marked)
                  ELSE IF Terminal(packet) THEN Teardown(Finished(marked))
                  ELSE marked
        rest   == [wire[r] EXCEPT !.from = Tail(@)]
    IN  /\ req[r].send = "settled"
        /\ wire[r].from # <<>>
        /\ leaves => (req[r].known /\ packet.item > 0)
        /\ IF req[r].known
           THEN /\ call' = [call EXCEPT ![r[1]] = Seen(@, packet, leaves)]
                /\ req' = [req EXCEPT ![r] = after]
                /\ wire' = [wire EXCEPT ![r] = WithCancel(rest, req[r], after)]
           ELSE /\ wire' = [wire EXCEPT ![r] = rest]
                /\ UNCHANGED <<call, req>>
        /\ UNCHANGED server

\* The transport says a node is offline: every unfinished attempt that is
\* known to be served by it fails.  Nothing is sent to the node.
ServedByAnyone(n) == {r \in Requests : req[r].known /\ ~req[r].finished /\ req[r].node # NoNode}
ServedBy(n) == {r \in Requests : req[r].known /\ ~req[r].finished /\ req[r].node = n}

NodeOffline(n) ==
    /\ ServedBy(n) # {}
    /\ req' = [r \in Requests |-> IF r \in ServedBy(n) THEN Teardown(Finished(req[r]))
                                                      ELSE req[r]]
    /\ call' = [c \in Calls |-> IF Current(c) \in ServedBy(n) THEN Failed(call[c], "offline")
                                                              ELSE call[c]]
    /\ UNCHANGED <<wire, server>>

\* The link that carries a request is lost.  Some of the answer that was under
\* way still arrives; then the transport answers the request as offline, once
\* send() has resolved (before that it rejects), unless it is mute: it does not
\* notice, or has forgotten the call, and has no word for it any more.
LinkLost(r, k, mute) ==
    LET kept == SubSeq(wire[r].from, 1, k)
        told == ~mute /\ req[r].send = "settled" /\ \A i \in 1..k : ~Terminal(kept[i])
    IN  /\ wire[r].carrier # NoNode
        /\ wire[r].up
        /\ k <= Len(wire[r].from)
        /\ wire' = [wire EXCEPT ![r].up = FALSE, ![r].mute = mute, ![r].to = <<>>,
                      ![r].from = IF told THEN Append(kept, Response(0, "offline")) ELSE kept]
        /\ UNCHANGED <<call, req, server>>

-----------------------------------------------------------------------------
(* The handler on the providing node.                                      *)

\* The service or method is missing or throws: an error reply and nothing else.
RequestArrives(r, found) ==
    /\ wire[r].to # <<>> /\ Head(wire[r].to) = "request"
    /\ wire' = [wire EXCEPT ![r].to = Tail(@)]
    /\ server' = [server EXCEPT ![r] =
                    IF found THEN [@ EXCEPT !.phase = "invoking"]
                    ELSE [@ EXCEPT !.phase = "over", !.queue = <<Response(0, "error")>>]]
    /\ UNCHANGED <<call, req>>

\* The method's promise settles: a value is one terminal reply; an Observable
\* is subscribed and only now can be cancelled; a rejection is an error reply.
MethodReturns(r) ==
    /\ server[r].phase = "invoking"
    /\ server' = [server EXCEPT ![r] =
                    [@ EXCEPT !.phase = "over", !.made = 1, !.whole = TRUE,
                              !.queue = <<Response(1, "completed")>>]]
    /\ UNCHANGED <<call, req, wire>>

MethodFails(r, code) ==
    /\ server[r].phase = "invoking"
    /\ server' = [server EXCEPT ![r] =
                    [@ EXCEPT !.phase = "over", !.queue = <<Response(0, code)>>]]
    /\ UNCHANGED <<call, req, wire>>

StreamStarts(r) ==
    /\ server[r].phase = "invoking"
    /\ server' = [server EXCEPT ![r] = [@ EXCEPT !.phase = "live", !.running = TRUE]]
    /\ UNCHANGED <<call, req, wire>>

\* Replies are chained: each waits for the one before, and a rejected one
\* silences all that follow.
Enqueue(s, packet) == IF s.poisoned THEN s ELSE [s EXCEPT !.queue = Append(@, packet)]

StreamEmits(r) ==
    /\ server[r].phase = "live"
    /\ server[r].made < MaxItems
    /\ server' = [server EXCEPT ![r] =
                    [Enqueue(server[r], Response(server[r].made + 1, "none")) EXCEPT
                        !.made = server[r].made + 1]]
    /\ UNCHANGED <<call, req, wire>>

StreamEnds(r, end) ==
    /\ server[r].phase = "live"
    /\ server' = [server EXCEPT ![r] =
                    [Enqueue(@, Response(0, end)) EXCEPT
                        !.phase = "over", !.whole = end = "completed",
                        !.running = ~server[r].poisoned]]
    /\ UNCHANGED <<call, req, wire>>

\* reply(): transporter.send of the next packet of the chain.  A transport
\* whose link is gone drops it, or still gets it through to a caller that was
\* told otherwise.  The .finally() of the terminal reply drops the entry of
\* #rpc.running.
TakeLast(queue) == [packet |-> queue[Len(queue)], rest |-> SubSeq(queue, 1, Len(queue) - 1)]
TakeFirst(queue) == [packet |-> Head(queue), rest |-> Tail(queue)]

ReplySends(r, arrives) ==
    LET next == TakeFirst(server[r].queue)
    IN  /\ server[r].queue # <<>>
        /\ IF arrives THEN ~wire[r].mute ELSE ~wire[r].up
        /\ server' = [server EXCEPT ![r].queue = next.rest,
                        ![r].running = @ /\ ~Terminal(next.packet)]
        /\ wire' = IF arrives THEN [wire EXCEPT ![r].from = Append(@, next.packet)] ELSE wire
        /\ UNCHANGED <<call, req>>

\* reply() rejects, which a transport does only when the link is gone.
PoisonedForGood(s) ==
    [s EXCEPT !.queue = <<>>, !.poisoned = TRUE]
Poisoned(s) ==
    [s EXCEPT !.queue = <<>>, !.poisoned = TRUE, !.running = @ /\ s.phase = "live"]

ReplyFails(r) ==
    /\ server[r].queue # <<>>
    /\ ~wire[r].up
    /\ server' = [server EXCEPT ![r] = Poisoned(@)]
    /\ UNCHANGED <<call, req, wire>>

\* A cancel unsubscribes the stream it finds in #rpc.running; what was queued
\* is still sent.
CancelArrives(r) ==
    /\ wire[r].to # <<>> /\ Head(wire[r].to) = "cancel"
    /\ wire' = [wire EXCEPT ![r].to = Tail(@)]
    /\ server' = [server EXCEPT ![r] =
                    IF @.running THEN [@ EXCEPT !.phase = "over", !.running = FALSE,
                                                !.cancelSeen = TRUE]
                    ELSE [@ EXCEPT !.cancelSeen = TRUE]]
    /\ UNCHANGED <<call, req>>

-----------------------------------------------------------------------------

CallerStep ==
    \/ \E c \in Calls, n \in Nodes \cup {NoNode}, b \in BOOLEAN : Subscribe(c, n, b)
    \/ \E c \in Calls, b \in BOOLEAN : RetryTimer(c, b)
    \/ \E c \in Calls : Timeout(c)
    \/ \E c \in Calls : Unsubscribe(c)
    \/ \E r \in Requests, n \in Nodes : RequestLeaves(r, n)
    \/ \E r \in Requests, b \in BOOLEAN : SendResolves(r, b)
    \/ \E r \in Requests, code \in Codes : SendRejects(r, code)
    \/ \E r \in Requests, b \in BOOLEAN : ResponseArrives(r, b)
    \/ \E n \in Nodes : NodeOffline(n)
    \/ \E r \in Requests, k \in 0..(MaxItems + 1), b \in BOOLEAN : LinkLost(r, k, b)

ProviderStep ==
    \/ \E r \in Requests, b \in BOOLEAN : RequestArrives(r, b)
    \/ \E r \in Requests : MethodReturns(r)
    \/ \E r \in Requests, code \in Codes : MethodFails(r, code)
    \/ \E r \in Requests : StreamStarts(r)
    \/ \E r \in Requests : StreamEmits(r)
    \/ \E r \in Requests, end \in {"completed"} \cup Codes : StreamEnds(r, end)
    \/ \E r \in Requests, b \in BOOLEAN : ReplySends(r, b)
    \/ \E r \in Requests : ReplyFails(r)
    \/ \E r \in Requests : CancelArrives(r)

Next == CallerStep \/ ProviderStep

Spec == Init /\ [][Next]_vars

\* The one timer a call waits for fires: the timeout of an attempt in flight,
\* or the delay before the next.
TimerOf(c) == Timeout(c) \/ \E b \in BOOLEAN : RetryTimer(c, b)

TimersFire == \A c \in Calls : WF_vars(TimerOf(c))

\* A transport settles its promises and delivers what is under way, as long as its
\* link is up or it has noticed the loss and knows the call; a promise chain runs.
\* Nothing is assumed of a mute transport, of subscribers, of methods and streams,
\* or of the links.
TransportsSettle ==
    \A r \in Requests :
        /\ WF_vars((\E n \in Nodes : RequestLeaves(r, n))
                     \/ (\E code \in Codes : SendRejects(r, code)))
        /\ WF_vars(wire[r].up /\ \E b \in BOOLEAN : SendResolves(r, b))
        /\ WF_vars(\E b \in BOOLEAN : ResponseArrives(r, b))
        /\ WF_vars((\E b \in BOOLEAN : ReplySends(r, b)) \/ ReplyFails(r))
        /\ WF_vars(\E b \in BOOLEAN : RequestArrives(r, b))

TimerSpec == Spec /\ TimersFire
FairSpec == Spec /\ TimersFire /\ TransportsSettle

-----------------------------------------------------------------------------
(* What every state satisfies.                                             *)

Endings == {"none", "completed", "left", "timeout"} \cup Codes

CallType == [phase : {"idle", "open", "delay", "over"}, attempt : 0..(Retry + 1),
             node : Nodes \cup {NoNode}, got : 0..MaxItems, outcome : Endings]

ReqType == [known : BOOLEAN, finished : BOOLEAN, node : Nodes \cup {NoNode},
            send : {"none", "sending", "left", "settled", "failed"},
            cancelled : BOOLEAN, cancels : Nat, abandoned : BOOLEAN]

WireType == [to : Seq({"request", "cancel"}), from : Seq(Responses), up : BOOLEAN,
             mute : BOOLEAN, carrier : Nodes \cup {NoNode}]

ServerType == [phase : {"none", "invoking", "live", "over"}, running : BOOLEAN,
               made : 0..MaxItems, whole : BOOLEAN, queue : Seq(Responses),
               poisoned : BOOLEAN, cancelSeen : BOOLEAN]

TypeOK ==
    /\ call \in [Calls -> CallType]
    /\ req \in [Requests -> ReqType]
    /\ wire \in [Requests -> WireType]
    /\ server \in [Requests -> ServerType]

\* #rpc.pending holds exactly the attempts in flight: no way out of an attempt
\* (value, error, offline, timeout, unsubscribe, rejected send) leaves an entry
\* behind, and none takes away the entry of an attempt that goes on.
PendingIsCurrent ==
    \A r \in Requests : req[r].known <=> (call[r[1]].phase = "open" /\ r = Current(r[1]))

\* An attempt its subscriber gave up before the answer was over is cancelled
\* exactly once, as soon as send() has resolved, whichever came first; one
\* whose answer was over, or whose send failed, is never cancelled.
CancelsAreExact ==
    \A r \in Requests :
        req[r].cancels = IF req[r].abandoned /\ req[r].send = "settled" THEN 1 ELSE 0

\* When a node goes offline, no attempt fails that another node is serving,
\* however the calling node came to know who serves it.
OfflineSparesOthers ==
    [][\A n \in Nodes : NodeOffline(n) =>
         \A r \in Requests : req[r].known /\ ~req'[r].known
                                => wire[r].carrier \in {NoNode, n}]_vars

\* #rpc.running: a stream that runs can be cancelled, and an entry whose stream
\* is over goes with its terminal reply, also when a reply was rejected.
RunningMatchesStreams ==
    \A r \in Requests :
        /\ server[r].phase = "live" => server[r].running
        /\ server[r].running => (server[r].phase = "live" \/ server[r].queue # <<>>)

Promise == INSTANCE CallPromise WITH
    MaxAttempts <- Retry + 1,
    phase   <- [c \in Calls |-> call[c].phase],
    attempt <- [c \in Calls |-> call[c].attempt],
    made    <- [c \in Calls |-> IF call[c].attempt = 0 THEN 0 ELSE server[Current(c)].made],
    whole   <- [c \in Calls |-> call[c].attempt > 0 /\ server[Current(c)].whole],
    got     <- [c \in Calls |-> call[c].got],
    outcome <- [c \in Calls |-> call[c].outcome]

\* Calls keep their promise: the values of an attempt arrive in order and
\* without a gap, completion means all of them did, OFFLINE is reported only
\* after all the retries, and nothing follows the end.
KeepsPromise == Promise!Spec

\* With options.timeout every call that was subscribed ends, whatever is lost,
\* however silent the provider is and even if the transport settles nothing.
CallsEnd == HasTimeout => \A c \in Calls : call[c].phase = "open" ~> call[c].phase = "over"

\* Even without a timeout an attempt does not outlive its provider's answer or the
\* loss of its link, but for one exception: a transport that is mute.  So the claim of
\* packages/tcp/README.md:214-218, that the calls of a lost connection end with
\* MICROSERVICE_OFFLINE, is not made of a stream that ends without headers
\* (Http2Rpc.ts:186-191), and a call whose WebSocket was replaced while it was sent
\* (BaseWebsocketTransporter.ts:165-171) waits for its timeout too.
Doomed(r) == ~wire[r].up \/ server[r].phase = "over"

AttemptsEnd ==
    \A r \in Requests : (req[r].known /\ Doomed(r)) ~> (~req[r].known \/ wire[r].mute)

-----------------------------------------------------------------------------
(* What the documents claim and the code does not do.                      *)

\* core/README.md:161, "subscription.unsubscribe() cancels the stream at the
\* provider".  A cancel that arrives before the method's promise has settled
\* finds nothing in #rpc.running, and the stream that starts after it is never
\* unsubscribed.
CancelledStreamsStop ==
    \A r \in Requests : server[r].cancelSeen => server[r].phase # "live"
=============================================================================
