----------------------------- MODULE EventMesh -----------------------------
(***************************************************************************)
(* Events between processes: the topics an EventBus counts go into the     *)
(* snapshot of its process, discovery takes the snapshot to the Topology   *)
(* of the others, and there a publisher reads where to send its events.    *)
(***************************************************************************)
EXTENDS Http2Pubsub

vars == <<local, changes, rpc, discoveryVars, busVars, serving, pubsubVars>>

Init == BusInit /\ DiscoveryInit /\ PubsubInit

\* A link that stops listening, or listens to others, is owed nothing any more.
StillOwed ==
    owed' = [m \in Messages |-> {l \in owed[m] : listeners'[l] > 0 /\ Selected(l)' = Selected(l)}]

OnlyDiscovery == UNCHANGED <<rpc, busVars, serving, pubsubVars>>

Next ==
    \/ DiscoveryStep /\ OnlyDiscovery
    \/ LocalStep /\ UNCHANGED <<busVars, serving, pubsubVars>>
    \/ BusStep /\ StillOwed /\ UNCHANGED <<sessions, posts, sender, heard>>
    \/ PubsubStep /\ UNCHANGED <<local, rpc, discoveryVars, busVars, serving>>
    \/ /\ \E i \in Instances : ClosePubsub(i)
       /\ UNCHANGED <<local, rpc, discoveryVars, busVars>>

Spec == Init /\ [][Next]_vars

\* The server is started again, accepts who connects, and both ends handle what they read.
Fairness ==
    /\ WF_vars(Restart /\ OnlyDiscovery)
    /\ \A n \in Nodes :
         WF_vars((Connect(n) \/ Opened(n) \/ Refused(n) \/ FrameRead(n)) /\ OnlyDiscovery)
    /\ \A s \in Sockets : WF_vars((Accept(s) \/ HelloRead(s)) /\ OnlyDiscovery)

FairSpec == Spec /\ Fairness

-----------------------------------------------------------------------------
(* Properties.                                                             *)

Linked(n) == client[n].phase = "open" /\ far[Current(n)] = "open"
Told(n) == Linked(n) /\ down[Current(n)] = <<>>
Reported(n) == Linked(n) /\ up[Current(n)] = <<>>

\* Whoever has read everything knows each process that is connected, with its last
\* snapshot: exactly the topics it has listeners for, whatever links share a topic, and
\* where its transporters listen.  A process of which the server had two sockets is left
\* out: the late close of the old one takes it from the directory
\* (WebsocketDiscoveryServer.ts:120-127).
PublishersKnowListeners ==
    \A n \in Nodes : \A x \in Nodes \ {n} :
        Told(n) /\ Reported(x) /\ x \notin overlap =>
            /\ x \in DOMAIN members[n]
            /\ members[n][x] = local[x]
            /\ local[x].topics = {TopicOf[l] : l \in {k \in Links : HostOf[k] = x /\ listeners[k] > 0}}
            /\ \A i \in Instances : HomeOf[i] = x =>
                 (local[x].transporters[NameOf[i]] = i <=> Registered(i) /\ serving[i] # "starting")

\* A client that has read everything calls alive whoever the server counts in its metrics,
\* and so each process that has told the server of itself; a node left over in Topology
\* from before a reconnection is called dead (WebsocketDiscoveryClient.ts:103-107, 199-204,
\* WebsocketDiscoveryServer.ts:147-171).  Two cases are left out.  An error of the open
\* socket ends it before its close, so that #clearNodes never runs
\* (WebsocketDiscoveryClient.ts:130-138, 163-164): who left meanwhile is called alive until
\* the server speaks of that node again.  And the late close of an older socket drops a
\* process that is there from the metrics and the directories
\* (WebsocketDiscoveryServer.ts:120-130): it is called dead until its next snapshot.
VerifyTellsTheTruth ==
    \A n \in Nodes : \A x \in Nodes \ {n} : Told(n) =>
        /\ Reported(x) /\ x \notin overlap => Verify(n, x) = "alive"
        /\ x \in DOMAIN metrics => Verify(n, x) = "alive"
        /\ x \notin DOMAIN metrics /\ x \notin leftover[n] => Verify(n, x) = "dead"

\* An event whose publish() has resolved was given to each link at the other end of the
\* sessions it was posted over, if the link listened by then and went on listening, unless
\* one of them broke without an error; and never twice through one transporter
\* (Http2Pubsub.ts:70-107).  That is less than "to all whom Topology leads to": a session
\* kept to an instance that has been replaced is used again (110-111; close() leaves what
\* is connected, 142), its server answers 204 to nobody (43), and publish() resolves
\* although the instance of today has heard nothing.
ResolvedMeansDelivered ==
    \A m \in Messages : sender[m] # Unsent =>
        /\ Outcome(m) = "resolved" /\ "ended" \notin Phases(m) =>
             \A l \in owed[m] : heard[m][l] > 0
        /\ RequestedBy[sender[m].by] # "fanout" => \A l \in Links : heard[m][l] <= 1

\* A client that has lost its server connects again when the server is back
\* (WebsocketDiscoveryClient.ts:29, 84, 172-174).
Reconnects ==
    \A n \in Nodes :
        client[n].phase = "waiting" ~> \/ client[n].phase \in {"open", "closed"}
                                       \/ client[n].phase = "waiting" /\ client[n].sockets = MaxSockets[n]

=============================================================================
