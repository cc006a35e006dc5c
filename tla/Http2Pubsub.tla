---------------------------- MODULE Http2Pubsub ----------------------------
(***************************************************************************)
(* Http2Pubsub.ts: an event is posted to every node that Topology lists    *)
(* for its topic, over one session to each node that is kept for later.    *)
(* An instance is closed when it is registered no more, and not registered  *)
(* again; closing its server leaves the sessions there are.                *)
(***************************************************************************)
EXTENDS EventBus

CONSTANTS
    Messages,       \* bound: events published, each at most once
    Publishers,     \* bound: the links they are published with
    Kept            \* bound: from whom to whom there are sessions from earlier events

ASSUME Http2PubsubAssumption ==
    /\ Publishers \subseteq Links
    /\ Kept \subseteq Early \X Early

VARIABLES
    sessions,   \* #nodes of each instance: phase of the session, and who is at its other end
    posts,      \* the requests of each message, by publishing instance and target
    sender,     \* the link each message was published with
    heard,      \* history: how often each link was given a message
    owed        \* history: links that listen since before the message was posted to them

pubsubVars == <<sessions, posts, sender, heard, owed>>

NoSession == [phase |-> "none"]
NoPost == [phase |-> "none"]
Unsent == [phase |-> "unsent"]

PubsubInit ==
    /\ sessions = [i \in Instances |-> [x \in Nodes |->
           IF \E j \in EarlyAt(x) : <<i, j>> \in Kept
           THEN [phase |-> "open", to |-> CHOOSE j \in EarlyAt(x) : TRUE] ELSE NoSession]]
    /\ posts = [m \in Messages |-> [i \in Instances |-> [x \in Nodes |-> NoPost]]]
    /\ sender = [m \in Messages |-> Unsent]
    /\ heard = [m \in Messages |-> [l \in Links |-> 0]]
    /\ owed = [m \in Messages |-> {}]

\* Topology.list: the local node is one of its nodes.
Known(n, x) == IF x = n THEN local[n] ELSE members[n][x]

\* listTopicNodes, and #resolvePort.
TargetsOf(i, t) ==
    LET n == HomeOf[i] IN
    {x \in {n} \cup DOMAIN members[n] :
        t \in Known(n, x).topics /\ Known(n, x).transporters[NameOf[i]] \in Instances}

\* #connect: the session there is, or a new one to the endpoint Topology knows.
SessionTo(i, x) ==
    IF sessions[i][x] # NoSession THEN sessions[i][x]
    ELSE [phase |-> "connecting", to |-> Known(HomeOf[i], x).transporters[NameOf[i]]]

\* publish of the EventBus and of every transporter it selects.  Without a node to post
\* to it resolves at once, and nothing has changed.
Publish(l, m) ==
    LET t == TopicOf[l] IN
    /\ sender[m] = Unsent /\ \E i \in Selected(l) : TargetsOf(i, t) # {}
    /\ sender' = [sender EXCEPT ![m] = [phase |-> "sent", by |-> l]]
    /\ sessions' = [i \in Instances |-> [x \in Nodes |->
           IF i \in Selected(l) /\ x \in TargetsOf(i, t) THEN SessionTo(i, x) ELSE sessions[i][x]]]
    /\ posts' = [posts EXCEPT ![m] = [i \in Instances |-> [x \in Nodes |->
           IF i \in Selected(l) /\ x \in TargetsOf(i, t) THEN [phase |-> "sent"] ELSE NoPost]]]
    /\ owed' = [owed EXCEPT ![m] =
           {k \in Links : TopicOf[k] = t /\ \E i \in Selected(l) : \E x \in TargetsOf(i, t) :
                 Hears(k, sessions'[i][x].to)}]
    /\ UNCHANGED heard /\ Free

SessionOpens(i, x) ==
    /\ sessions[i][x].phase = "connecting"
    /\ serving[sessions[i][x].to] = "listening"
    /\ sessions' = [sessions EXCEPT ![i][x].phase = "open"]
    /\ UNCHANGED <<posts, sender, heard, owed>> /\ Free

\* The server's handler: it answers 204 whether anyone listens or not.
PostArrives(m, i, x) ==
    LET t == TopicOf[sender[m].by] IN
    /\ posts[m][i][x].phase = "sent" /\ sessions[i][x].phase = "open"
    /\ posts' = [posts EXCEPT ![m][i][x].phase = "heard"]
    /\ heard' = [heard EXCEPT ![m] = [l \in Links |->
           IF TopicOf[l] = t /\ Hears(l, sessions[i][x].to) THEN @[l] + 1 ELSE @[l]]]
    /\ UNCHANGED <<sessions, sender, owed>> /\ Free

Answered(m, i, x) ==
    /\ posts[m][i][x].phase = "heard" /\ sessions[i][x].phase = "open"
    /\ posts' = [posts EXCEPT ![m][i][x].phase = "done"]
    /\ UNCHANGED <<sessions, sender, heard, owed>> /\ Free

\* A session that cannot be opened fails its requests.  One that breaks may also end them
\* without an error, or just close them, which publish does not notice.
SessionEnds(i, x, outcome) ==
    /\ \/ /\ sessions[i][x].phase = "connecting" /\ serving[sessions[i][x].to] = "closed"
          /\ outcome = "failed" /\ Free
       \/ /\ sessions[i][x].phase = "open" /\ Change
    /\ sessions' = [sessions EXCEPT ![i][x] = NoSession]
    /\ posts' = [m \in Messages |-> IF posts[m][i][x].phase \in {"sent", "heard"}
                                    THEN [posts[m] EXCEPT ![i][x].phase = outcome] ELSE posts[m]]
    /\ UNCHANGED <<sender, heard, owed>>

\* close()
ClosePubsub(i) ==
    /\ serving[i] = "listening" /\ ~Registered(i) /\ Change
    /\ serving' = [serving EXCEPT ![i] = "closed"]
    /\ sessions' = [sessions EXCEPT ![i] = [x \in Nodes |->
           IF \E m \in Messages : posts[m][i][x].phase \in {"sent", "heard"}
           THEN sessions[i][x] ELSE NoSession]]
    /\ UNCHANGED <<posts, sender, heard, owed>>

Phases(m) == {posts[m][i][x].phase : i \in Instances, x \in Nodes} \ {"none"}

\* Mutant: Promise.allSettled.
OutcomeSettled(m) ==
    IF Phases(m) \subseteq {"done", "ended", "failed"} THEN "resolved" ELSE "waiting"

\* Promise.all
Outcome(m) ==
    IF "failed" \in Phases(m) THEN "rejected"
    ELSE IF Phases(m) \subseteq {"done", "ended"} THEN "resolved" ELSE "waiting"

PubsubStep ==
    \/ \E l \in Publishers, m \in Messages : Publish(l, m)
    \/ \E i \in Instances, x \in Nodes :
         \/ SessionOpens(i, x)
         \/ \E m \in Messages : PostArrives(m, i, x) \/ Answered(m, i, x)
         \/ \E outcome \in {"failed", "ended", "closed"} : SessionEnds(i, x, outcome)

=============================================================================
