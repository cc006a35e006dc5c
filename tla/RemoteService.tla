---------------------------- MODULE RemoteService ----------------------------
(***************************************************************************)
(* The proxy of RemoteService.ts over the calls of RpcCall.  What a method *)
(* of it returns can be subscribed to as a stream, or awaited: the promise *)
(* takes the first value and leaves the stream inside next(), and nobody   *)
(* else can leave it.  A batch method makes one call for each node listed, *)
(* pinned to it, and turns errors into values.                             *)
(***************************************************************************)
EXTENDS RpcCall

VARIABLE awaited    \* the calls made through firstValueFrom

RemoteInit == awaited = {}

\* The Observable is subscribed to.
Observed(c, node, routed) == Subscribe(c, node, routed) /\ UNCHANGED awaited

\* then(), catch() or finally() makes the promise, once.
Awaited(c, node, routed) == Subscribe(c, node, routed) /\ awaited' = awaited \cup {c}

\* The branch of a batch for one of the nodes listed.
Batch(c, listed, routed) == \E n \in listed : Subscribe(c, n, routed) /\ UNCHANGED awaited

\* firstValueFrom leaves at the first value, and only there.
Leaves(r) ==
    IF r[1] \notin awaited THEN BOOLEAN
    ELSE {req[r].known /\ wire[r].from # <<>> /\ Head(wire[r].from).item > 0}

RemoteStep ==
    \/ /\ \/ \E c \in Calls, b \in BOOLEAN : RetryTimer(c, b)
          \/ \E c \in Calls : Timeout(c)
          \/ \E c \in Calls \ awaited : Unsubscribe(c)
          \/ \E r \in Requests, n \in Nodes : RequestLeaves(r, n)
          \/ \E r \in Requests, b \in BOOLEAN : SendResolves(r, b)
          \/ \E r \in Requests, code \in Codes : SendRejects(r, code)
          \/ \E r \in Requests : \E b \in Leaves(r) : ResponseArrives(r, b)
          \/ \E n \in Nodes : NodeOffline(n)
          \/ \E r \in Requests, k \in 0..(MaxItems + 1), b \in BOOLEAN : LinkLost(r, k, b)
       /\ UNCHANGED awaited
    \/ \E c \in Calls, n \in Nodes \cup {NoNode}, b \in BOOLEAN :
          Observed(c, n, b) \/ Awaited(c, n, b)
=============================================================================
