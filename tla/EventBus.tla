------------------------------ MODULE EventBus ------------------------------
(***************************************************************************)
(* EventBus.ts, one for each process: which transporters a topic goes      *)
(* over, and which topics the process announces.  A link is what linkTopic *)
(* returns; share() makes all its subscribers one.  Of a transporter only  *)
(* its metadata matters here: none before it listens, its endpoint after.  *)
(***************************************************************************)
EXTENDS LocalNode

CONSTANTS
    Instances,      \* event transporters
    HomeOf,         \* the process each of them belongs to
    NameOf,         \* its wire name
    Early,          \* those that are registered and listen before the discovery connects
    Links,
    HostOf,         \* the process of each link
    TopicOf,        \* its topic
    RequestedBy,    \* its option transporter, or its mode: single or fanout
    MaxListeners    \* bound: subscribers of each link

\* localNode keys what it announces of a transporter by its name, whatever its kind: an
\* event transporter and an RPC transporter of one process have different names
\* (Http2Pubsub.ts:15, Http2Rpc.ts:32).
ASSUME EventBusAssumption ==
    /\ IsFiniteSet(Links)
    /\ Endpoints \cap {"absent", "gone", "present"} = {}
    /\ \A i \in Instances : NameOf[i] # RpcName
    /\ Instances \subseteq Endpoints
    /\ HomeOf \in [Instances -> Nodes] /\ NameOf \in [Instances -> Names]
    /\ Early \subseteq Instances
    /\ \A i, j \in Early : HomeOf[i] = HomeOf[j] => i = j
    /\ HostOf \in [Links -> Nodes] /\ TopicOf \in [Links -> Topics]
    /\ RequestedBy \in [Links -> Names \cup {"single", "fanout"}]
    /\ MaxListeners \in [Links -> Nat]

VARIABLES
    transporters,   \* #transporters$ of each process, in insertion order
    references,     \* #topicReferences: 0 when there is none
    listeners,      \* subscribers of each link
    serving         \* whether a transporter's server has started, or is closed

busVars == <<transporters, references, listeners>>

EarlyAt(n) == {i \in Early : HomeOf[i] = n}

BusInit ==
    /\ rpc = {}
    /\ local = [n \in Nodes |-> IF EarlyAt(n) = {} THEN NewNode
                                ELSE LET i == CHOOSE i \in EarlyAt(n) : TRUE IN
                                     RefreshTransporter(NewNode, NameOf[i], i)]
    /\ transporters = [n \in Nodes |-> SetToSeq(EarlyAt(n))]
    /\ references = [n \in Nodes |-> [t \in Topics |-> 0]]
    /\ listeners = [l \in Links |-> 0]
    /\ serving = [i \in Instances |-> IF i \in Early THEN "listening" ELSE "starting"]

Registered(i) == i \in ToSet(transporters[HomeOf[i]])

\* #select
Selected(l) ==
    LET all == transporters[HostOf[l]]
        requested == RequestedBy[l]
    IN CASE requested = "fanout" -> ToSet(all)
         [] requested = "single" -> IF all = <<>> THEN {} ELSE {Head(all)}
         [] OTHER -> {i \in ToSet(all) : NameOf[i] = requested}

\* Whether a value that instance i receives for its topic gets to link l.
Hears(l, i) == listeners[l] > 0 /\ i \in Selected(l)

\* registerTransporter: metadata, and again from the replay of metadata$.
Register(i) ==
    LET n == HomeOf[i] IN
    /\ serving[i] # "closed" /\ Change
    /\ \A j \in ToSet(transporters[n]) : NameOf[j] # NameOf[i]
    /\ transporters' = [transporters EXCEPT ![n] = Append(@, i)]
    /\ Announce(n, SetMetadata(n, NameOf[i], IF serving[i] = "starting" THEN <<>> ELSE <<i, i>>))
    /\ UNCHANGED <<references, listeners, serving, rpc>>

\* The subscription that registerTransporter returns.
Unregister(i) ==
    LET n == HomeOf[i] IN
    /\ Change
    /\ \E k \in DOMAIN transporters[n] :
         transporters[n][k] = i /\ transporters' = [transporters EXCEPT ![n] = RemoveAt(@, k)]
    /\ Announce(n, SetMetadata(n, NameOf[i], <<"gone">>))
    /\ UNCHANGED <<references, listeners, serving, rpc>>

\* The transporter listens, and metadata$ tells of it.
Listening(i) ==
    LET n == HomeOf[i] IN
    /\ serving[i] = "starting"
    /\ Free
    /\ serving' = [serving EXCEPT ![i] = "listening"]
    /\ Announce(n, IF Registered(i) THEN SetMetadata(n, NameOf[i], <<i>>) ELSE <<>>)
    /\ UNCHANGED <<busVars, rpc>>

PublishTopics(n, counts) == Announce(n, SetLocalTopics(n, {t \in Topics : counts[t] > 0}))

\* #acquireTopic with the first subscriber of a link.
Subscribe(l) ==
    LET n == HostOf[l] IN
    /\ Change
    /\ listeners[l] < MaxListeners[l]
    /\ listeners' = [listeners EXCEPT ![l] = @ + 1]
    /\ references' = IF listeners[l] = 0 THEN [references EXCEPT ![n][TopicOf[l]] = @ + 1]
                     ELSE references
    /\ PublishTopics(n, references'[n])
    /\ UNCHANGED <<transporters, serving, rpc>>

\* Mutant: the topic goes with any of its links.
ReleasedAll(count) == 0

\* #releaseTopic
Released(count) == IF count <= 1 THEN 0 ELSE count - 1

Unsubscribe(l) ==
    LET n == HostOf[l] IN
    /\ Change
    /\ listeners[l] > 0
    /\ listeners' = [listeners EXCEPT ![l] = @ - 1]
    /\ references' = IF listeners[l] = 1
                     THEN [references EXCEPT ![n][TopicOf[l]] = Released(@)] ELSE references
    /\ PublishTopics(n, references'[n])
    /\ UNCHANGED <<transporters, serving, rpc>>

BusStep ==
    \/ \E i \in Instances : Register(i) \/ Unregister(i) \/ Listening(i)
    \/ \E l \in Links : Subscribe(l) \/ Unsubscribe(l)

=============================================================================
