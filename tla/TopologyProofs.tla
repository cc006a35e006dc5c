--------------------------- MODULE TopologyProofs ---------------------------
(* Theorems about Topology, for every value of its constants.              *)
EXTENDS Topology, TLAPS

-----------------------------------------------------------------------------
(* Types.                                                                  *)

\* The timer periods are positive numbers whatever the options are.
LEMMA PeriodsAreNaturals ==
    /\ StalePeriod \in Nat /\ StalePeriod > 0
    /\ EvictPeriod \in Nat /\ EvictPeriod > 0
  BY TopologyAssumption DEF StalePeriod, EvictPeriod, Larger, Smaller

\* Removing a set of nodes for one of the four reasons keeps the types.
LEMMA RemovalTypeOK ==
    ASSUME TypeOK, NEW W, NEW reason \in Reasons, RemoveRemotes(W, reason)
    PROVE  /\ nodes' \in [AllIds -> Nat \cup {Absent}]
           /\ lastSeen' \in [AllIds -> Times]
           /\ reachability' \in [AllIds -> [Transporters ->
                                   [status : Statuses \cup {"none"}, since : Nat]]]
           /\ goodAt' \in [AllIds -> [Transporters -> Times]]
           /\ badAt' \in [AllIds -> [Transporters -> Times]]
           /\ feed' \in [AllIds -> [online : Int, reason : Reasons \cup {"none"},
                                    endpoint : [Transporters -> Statuses]]]
<1> USE DEF TypeOK, RemoveRemotes, Forget, DropReachability
<1>1. nodes' \in [AllIds -> Nat \cup {Absent}]
  BY DEF Absent
<1>2. lastSeen' \in [AllIds -> Times]
  BY DEF Times, Never
<1>3. reachability' \in [AllIds -> [Transporters ->
                           [status : Statuses \cup {"none"}, since : Nat]]]
  BY DEF NoReport
<1>4. goodAt' \in [AllIds -> [Transporters -> Times]]
      /\ badAt' \in [AllIds -> [Transporters -> Times]]
  BY DEF Times, Never
<1>5. feed' \in [AllIds -> [online : Int, reason : Reasons \cup {"none"},
                            endpoint : [Transporters -> Statuses]]]
  BY DEF NoEvents, Statuses
<1> QED BY <1>1, <1>2, <1>3, <1>4, <1>5

\* Starting (or sharing) a verification keeps the type of #verifyingNodes.
LEMMA StartVerifyTypeOK ==
    ASSUME TypeOK, NEW n \in AllIds
    PROVE  StartVerify(n) \in [AllIds -> [state : {"idle", "asking", "settling"},
                              seen : Times, asked : Nat]]
  BY DEF TypeOK, StartVerify

\* No step breaks a type.
LEMMA TypeStep == TypeOK /\ [Next]_vars => TypeOK'
<1> SUFFICES ASSUME TypeOK, [Next]_vars PROVE TypeOK'
  OBVIOUS
<1> USE TopologyAssumption, PeriodsAreNaturals
<1>1. ASSUME NEW v \in Versions, BindLocalNode(v) PROVE TypeOK'
  BY <1>1 DEF TypeOK, BindLocalNode
<1>2. ASSUME NEW n \in Ids, NEW v \in Versions, UpsertRemote(n, v) PROVE TypeOK'
  <2>1. n \in AllIds /\ v \in Nat
    BY DEF AllIds
  <2>2. feed' \in [AllIds -> [online : Int, reason : Reasons \cup {"none"},
                              endpoint : [Transporters -> Statuses]]]
    <3>1. feed[n].online + 1 \in Int
      BY <2>1 DEF TypeOK
    <3>2. [feed EXCEPT ![n].online = @ + 1]
            \in [AllIds -> [online : Int, reason : Reasons \cup {"none"},
                           endpoint : [Transporters -> Statuses]]]
      BY <2>1, <3>1 DEF TypeOK
    <3> QED BY <1>2, <3>2 DEF TypeOK, UpsertRemote, AnnounceOnline
  <2> QED BY <1>2, <2>1, <2>2 DEF TypeOK, UpsertRemote, Times
<1>3. ASSUME NEW n \in Ids, NEW v \in Versions, PatchPeer(n, v) PROVE TypeOK'
  BY <1>3 DEF TypeOK, PatchPeer, Times, AllIds
<1>4. ASSUME NEW n \in Ids, DiscoveryRemoves(n) PROVE TypeOK'
  <2>1. RemoveRemotes({n}, "discovery") /\ "discovery" \in Reasons
    BY <1>4 DEF DiscoveryRemoves, Reasons
  <2> QED BY <1>4, <2>1, RemovalTypeOK DEF DiscoveryRemoves, TypeOK
<1>5. ASSUME NEW n \in Ids, VerifyNode(n) PROVE TypeOK'
  BY <1>5, StartVerifyTypeOK DEF TypeOK, VerifyNode, AllIds
<1>6. ASSUME NEW n \in Ids, NEW w \in Verdicts, VerdictArrives(n, w) PROVE TypeOK'
  <2>1. verifying' \in [AllIds -> [state : {"idle", "asking", "settling"},
                            seen : Times, asked : Nat]]
    <3>1. verifying' = [verifying EXCEPT ![n].state = "settling"] /\ n \in AllIds
      BY <1>6 DEF VerdictArrives, AllIds
    <3> QED BY <3>1 DEF TypeOK
  <2>2. CASE w = "dead" /\ VerdictHolds(n)
    <3>1. RemoveRemotes({n}, "verification") /\ "verification" \in Reasons
      BY <1>6, <2>2 DEF VerdictArrives, Reasons
    <3> QED BY <1>6, <2>1, <3>1, RemovalTypeOK DEF VerdictArrives, TypeOK
  <2>3. CASE ~(w = "dead" /\ VerdictHolds(n))
    BY <1>6, <2>1, <2>3 DEF VerdictArrives, TypeOK
  <2> QED BY <2>2, <2>3
<1>7. ASSUME NEW n \in Ids, VerificationEnds(n) PROVE TypeOK'
  BY <1>7 DEF TypeOK, VerificationEnds, Idle, Times, Never, AllIds
<1>8. ASSUME NEW n \in Ids, NEW t \in Transporters, NEW s \in Statuses,
             ReportReachability(n, t, s)
      PROVE  TypeOK'
  <2>1. n \in AllIds
    BY DEF AllIds
  <2>2. reachability' \in [AllIds -> [Transporters ->
                             [status : Statuses \cup {"none"}, since : Nat]]]
    BY <1>8, <2>1 DEF TypeOK, ReportReachability, Since
  <2>3. feed' \in [AllIds -> [online : Int, reason : Reasons \cup {"none"},
                              endpoint : [Transporters -> Statuses]]]
    BY <1>8, <2>1 DEF TypeOK, ReportReachability, EndpointEvent
  <2>4. goodAt' \in [AllIds -> [Transporters -> Times]]
    BY <1>8, <2>1 DEF TypeOK, ReportReachability, Times
  <2>5. verifying' \in [AllIds -> [state : {"idle", "asking", "settling"},
                            seen : Times, asked : Nat]]
    BY <1>8, <2>1, StartVerifyTypeOK DEF TypeOK, ReportReachability
  <2>6. badAt' \in [AllIds -> [Transporters -> Times]]
    BY <1>8, <2>1 DEF TypeOK, ReportReachability, Times, Never
  <2> QED BY <1>8, <2>2, <2>3, <2>4, <2>5, <2>6 DEF TypeOK, ReportReachability
<1>9. ASSUME StaleTimer PROVE TypeOK'
  <2>1. RemoveRemotes(StaleNodes, "stale") /\ "stale" \in Reasons
    BY <1>9 DEF StaleTimer, Reasons
  <2> QED BY <1>9, <2>1, RemovalTypeOK DEF StaleTimer, TypeOK
<1>10. ASSUME UnreachableTimer PROVE TypeOK'
  <2>1. RemoveRemotes(NodesDown(Window), "unreachable") /\ "unreachable" \in Reasons
    BY <1>10 DEF UnreachableTimer, Reasons
  <2> QED BY <1>10, <2>1, RemovalTypeOK DEF UnreachableTimer, TypeOK
<1>11. ASSUME Tick PROVE TypeOK'
  BY <1>11 DEF TypeOK, Tick
<1>12. ASSUME Close \/ CloseEnds PROVE TypeOK'
  BY <1>12 DEF TypeOK, Close, CloseEnds
<1>13. CASE UNCHANGED vars
  BY <1>13 DEF TypeOK, vars
<1> QED
  BY <1>1, <1>2, <1>3, <1>4, <1>5, <1>6, <1>7, <1>8, <1>9, <1>10, <1>11, <1>12,
     <1>13 DEF Next

\* Every variable keeps its type: Topology.ts never stores a time stamp, a
\* version or a status that is not one.
THEOREM TypeCorrect == Spec => []TypeOK
<1>1. Init => TypeOK
  <2> SUFFICES ASSUME Init PROVE TypeOK
    OBVIOUS
  <2>1. NoReport \in [status : Statuses \cup {"none"}, since : Nat]
    BY DEF NoReport
  <2>2. Idle \in [state : {"idle", "asking", "settling"},
                  seen : Times, asked : Nat]
    BY DEF Idle, Times, Never
  <2>3. NoEvents \in [online : Int, reason : Reasons \cup {"none"},
                      endpoint : [Transporters -> Statuses]]
    BY DEF NoEvents, Statuses
  <2> QED
    BY <2>1, <2>2, <2>3, PeriodsAreNaturals DEF Init, TypeOK, Times, Absent, Never
<1>2. TypeOK /\ [Next]_vars => TypeOK'
  BY TypeStep
<1> QED BY <1>1, <1>2, PTL DEF Spec

-----------------------------------------------------------------------------
(* The inductive invariant.                                                *)

\* The clock never runs ahead of a timer by more than Lag, and what the last
\* firing of a timer left behind is young enough: the firing took place one
\* period before the timer is due again.
ClockInv ==
    /\ \A n \in AllIds : lastSeen[n] <= now
    /\ (StaleAfter > 0 /\ life = "open") =>
         /\ now <= staleAt + Lag
         /\ staleAt - StalePeriod <= now
         /\ \A n \in Remotes : staleAt <= lastSeen[n] + StaleAfter + StalePeriod
    /\ (Window > 0 /\ life = "open") =>
         /\ now <= evictAt + Lag
         /\ evictAt - EvictPeriod <= now
         /\ \A n \in Remotes : ~DownAt(n, Window + EvictPeriod, evictAt)

\* An endpoint held unreachable since some time was last reported better, if
\* ever, no later than that, and since is when the outage began; a verification remembers a time stamp no later
\* than its question.
HistoryInv ==
    /\ \A n \in AllIds, t \in Transporters :
         reachability[n][t].status = "unreachable"
           => goodAt[n][t] <= reachability[n][t].since
    /\ \A n \in AllIds, t \in Transporters : goodAt[n][t] <= now
    /\ \A n \in AllIds, t \in Transporters :
         badAt[n][t] = IF reachability[n][t].status = "unreachable"
                       THEN reachability[n][t].since ELSE Never
    /\ \A n \in AllIds : verifying[n].state = "asking"
                           => verifying[n].seen <= verifying[n].asked

TopologyInv ==
    /\ TypeOK
    /\ TracesMatchMembership
    /\ LocalNodeStays
    /\ EventsTellMembership
    /\ EventsTellReachability
    /\ ClockInv
    /\ HistoryInv

-----------------------------------------------------------------------------
(* What each kind of step does to one node.                                *)

Kept(n) ==
    /\ nodes'[n] = nodes[n] /\ lastSeen'[n] = lastSeen[n]
    /\ reachability'[n] = reachability[n]
    /\ goodAt'[n] = goodAt[n] /\ badAt'[n] = badAt[n]
    /\ feed'[n] = feed[n]

Gone(n, reason) ==
    /\ n \in Remotes
    /\ nodes'[n] = Absent /\ lastSeen'[n] = Never
    /\ \A t \in Transporters : /\ reachability'[n][t] = NoReport
                               /\ goodAt'[n][t] = Never /\ badAt'[n][t] = Never
    /\ feed'[n].online = feed[n].online - 1
    /\ feed'[n].reason = reason
    /\ \A t \in Transporters : feed'[n].endpoint[t] = "reachable"

\* removeRemote takes out the wanted remote nodes and touches no other.
LEMMA RemovalEffect ==
    ASSUME TypeOK, NEW W, NEW reason, RemoveRemotes(W, reason), NEW n \in AllIds
    PROVE  IF n \in W /\ n \in Remotes THEN Gone(n, reason) ELSE Kept(n)
<1>1. CASE n \in W /\ n \in Remotes
  BY <1>1 DEF RemoveRemotes, Forget, DropReachability, Gone, NoEvents
<1>2. CASE ~(n \in W /\ n \in Remotes)
  BY <1>2 DEF RemoveRemotes, Forget, DropReachability, Kept
<1> QED BY <1>1, <1>2

\* The four removing actions, seen as one: some remote nodes go, for one
\* reason, and nothing but the timers' due times and verifying changes besides.
Removal(W, reason) ==
    RemoveRemotes(W, reason) /\ UNCHANGED <<now, bound, life>>

MembershipInv ==
    TracesMatchMembership /\ LocalNodeStays /\ EventsTellMembership
        /\ EventsTellReachability

\* Removal keeps what is known of membership consistent.
LEMMA RemovalMembership ==
    ASSUME TypeOK, MembershipInv, NEW W, NEW reason, Removal(W, reason)
    PROVE  MembershipInv'
<1> USE DEF MembershipInv, Removal
<1>1. \A n \in AllIds : (Gone(n, reason) /\ n \in W) \/ Kept(n)
  BY RemovalEffect
<1>2. \A n \in AllIds : IsLocal(n)' <=> IsLocal(n)
  BY DEF IsLocal
<1>3. TracesMatchMembership'
  BY <1>1, <1>2 DEF TracesMatchMembership, Gone, Kept, Members, Remotes, Reported,
                    NoReport, Absent
<1>4. LocalNodeStays'
  BY <1>1 DEF LocalNodeStays, Gone, Kept, Members, Remotes, IsLocal, AllIds
<1>5. EventsTellMembership'
  <2> SUFFICES ASSUME NEW n \in AllIds, ~IsLocal(n)'
               PROVE  feed'[n].online = IF n \in Members' THEN 1 ELSE 0
    BY DEF EventsTellMembership
  <2>1. feed[n].online = IF n \in Members THEN 1 ELSE 0
    BY <1>2 DEF EventsTellMembership
  <2>2. CASE Gone(n, reason)
    BY <2>1, <2>2 DEF Gone, Members, Remotes
  <2>3. CASE Kept(n)
    BY <2>1, <2>3 DEF Kept, Members
  <2> QED BY <1>1, <2>2, <2>3
<1>6. EventsTellReachability'
  <2> SUFFICES ASSUME NEW n \in AllIds, NEW t \in Transporters
               PROVE  feed'[n].endpoint[t] = IF t \in Reported(n)'
                                             THEN reachability'[n][t].status
                                             ELSE "reachable"
    BY DEF EventsTellReachability
  <2>1. CASE Gone(n, reason)
    BY <2>1 DEF Gone, Reported, NoReport
  <2>2. CASE Kept(n)
    BY <2>2 DEF Kept, Reported, EventsTellReachability
  <2> QED BY <1>1, <2>1, <2>2
<1> QED BY <1>3, <1>4, <1>5, <1>6

\* Every step is a removal, or one of the steps that remove nothing.
Removes ==
    \/ \E n \in Ids : Removal({n}, "discovery") /\ UNCHANGED <<verifying, staleAt, evictAt>>
    \/ \E n \in Ids : /\ Removal({n}, "verification") /\ VerdictHolds(n)
                      /\ verifying[n].state = "asking"
                      /\ verifying' = [verifying EXCEPT ![n].state = "settling"]
                      /\ UNCHANGED <<staleAt, evictAt>>
    \/ /\ Removal(StaleNodes, "stale") /\ StaleAfter > 0 /\ now >= staleAt
       /\ staleAt' = now + StalePeriod /\ UNCHANGED <<verifying, evictAt>>
    \/ /\ Removal(NodesDown(Window), "unreachable") /\ Window > 0 /\ now >= evictAt
       /\ evictAt' = now + EvictPeriod /\ UNCHANGED <<verifying, staleAt>>

\* Steps that change nothing but verifying, or life towards its end.
Quiet ==
    /\ UNCHANGED <<now, bound, nodes, lastSeen, reachability, staleAt, evictAt,
                   feed, goodAt, badAt>>
    /\ life' = "open" => life = "open"
    /\ \A n \in AllIds : verifying'[n].state = "asking"
         => \/ verifying'[n] = verifying[n]
            \/ (verifying'[n].seen = lastSeen[n] /\ verifying'[n].asked = now)

LEMMA StepKinds ==
    ASSUME TypeOK, Next
    PROVE  \/ Removes
           \/ Quiet
           \/ \E v \in Versions : BindLocalNode(v)
           \/ \E n \in Ids, v \in Versions : UpsertRemote(n, v) \/ PatchPeer(n, v)
           \/ \E n \in Ids, t \in Transporters, s \in Statuses : ReportReachability(n, t, s)
           \/ Tick
<1>1. ASSUME NEW n \in Ids, DiscoveryRemoves(n) PROVE Removes
  BY <1>1 DEF DiscoveryRemoves, Removes, Removal
<1>2. ASSUME NEW n \in Ids, VerifyNode(n) PROVE Quiet
  BY <1>2 DEF VerifyNode, StartVerify, Quiet, TypeOK
<1>3. ASSUME NEW n \in Ids, NEW w \in Verdicts, VerdictArrives(n, w)
      PROVE  Removes \/ Quiet
  <2>1. CASE w = "dead" /\ VerdictHolds(n)
    BY <1>3, <2>1 DEF VerdictArrives, Removes, Removal
  <2>2. CASE ~(w = "dead" /\ VerdictHolds(n))
    BY <1>3, <2>2 DEF VerdictArrives, Quiet, TypeOK, AllIds
  <2> QED BY <2>1, <2>2
<1>4. ASSUME NEW n \in Ids, VerificationEnds(n) PROVE Quiet
  BY <1>4 DEF VerificationEnds, Quiet, TypeOK, AllIds, Idle
<1>5. ASSUME StaleTimer PROVE Removes
  BY <1>5 DEF StaleTimer, Removes, Removal
<1>6. ASSUME UnreachableTimer PROVE Removes
  BY <1>6 DEF UnreachableTimer, Removes, Removal
<1>7. ASSUME Close \/ CloseEnds PROVE Quiet
  BY <1>7 DEF Close, CloseEnds, Quiet, TypeOK
<1> QED BY <1>1, <1>2, <1>3, <1>4, <1>5, <1>6, <1>7 DEF Next

\* Membership, the traces of a node and the event feed stay consistent.
LEMMA MembershipStep ==
    ASSUME TypeOK, MembershipInv, [Next]_vars
    PROVE  MembershipInv'
<1> USE TopologyAssumption
<1>1. ASSUME Removes PROVE MembershipInv'
  BY <1>1, RemovalMembership DEF Removes
<1>2. ASSUME Quiet \/ Tick \/ UNCHANGED vars PROVE MembershipInv'
  BY <1>2 DEF Quiet, Tick, vars, MembershipInv, TracesMatchMembership, LocalNodeStays,
     EventsTellMembership, EventsTellReachability, Members, Remotes, IsLocal, Reported
<1>3. ASSUME NEW v \in Versions, BindLocalNode(v) PROVE MembershipInv'
  BY <1>3 DEF BindLocalNode, TypeOK, MembershipInv, TracesMatchMembership, LocalNodeStays,
     EventsTellMembership, EventsTellReachability, Members, Remotes, IsLocal, Reported,
     Absent, AllIds
<1>4. ASSUME NEW n \in Ids, NEW v \in Versions, UpsertRemote(n, v) PROVE MembershipInv'
  <2>1. n \in AllIds /\ v # Absent
    BY DEF AllIds, Absent
  <2>2. \A m \in AllIds : feed'[m].endpoint = feed[m].endpoint
    BY <1>4, <2>1 DEF UpsertRemote, AnnounceOnline, TypeOK
  <2>3. feed'[n].online = IF nodes[n] = Absent THEN feed[n].online + 1 ELSE feed[n].online
    BY <1>4, <2>1 DEF UpsertRemote, AnnounceOnline, TypeOK
  <2>4. \A m \in AllIds : m # n => feed'[m].online = feed[m].online
    BY <1>4, <2>1 DEF UpsertRemote, AnnounceOnline, TypeOK
  <2>5. now # Never
    BY DEF TypeOK, Never
  <2>6. TracesMatchMembership' /\ LocalNodeStays'
    BY <1>4, <2>1, <2>5 DEF UpsertRemote, TypeOK, MembershipInv, TracesMatchMembership,
       LocalNodeStays, Members, Remotes, IsLocal, Reported
  <2>7. EventsTellMembership'
    BY <1>4, <2>1, <2>3, <2>4 DEF UpsertRemote, TypeOK, MembershipInv,
       EventsTellMembership, Members, IsLocal
  <2>8. EventsTellReachability'
    BY <1>4, <2>2 DEF UpsertRemote, MembershipInv, EventsTellReachability, Reported
  <2> QED BY <2>6, <2>7, <2>8 DEF MembershipInv
<1>5. ASSUME NEW n \in Ids, NEW v \in Versions, PatchPeer(n, v) PROVE MembershipInv'
  BY <1>5 DEF PatchPeer, TypeOK, MembershipInv, TracesMatchMembership, LocalNodeStays,
     EventsTellMembership, EventsTellReachability, Members, Remotes, IsLocal, Reported,
     Absent, Never, AllIds
<1>6. ASSUME NEW n \in Ids, NEW t \in Transporters, NEW s \in Statuses,
             ReportReachability(n, t, s)
      PROVE  MembershipInv'
  <2>1. n \in AllIds /\ n \in Members
    BY <1>6 DEF AllIds, ReportReachability
  <2>2. /\ \A m \in AllIds, u \in Transporters :
             <<m, u>> # <<n, t>> => reachability'[m][u] = reachability[m][u]
        /\ reachability'[n][t].status = s
    BY <1>6, <2>1 DEF ReportReachability, TypeOK
  <2>3. /\ \A m \in AllIds : feed'[m].online = feed[m].online
        /\ \A m \in AllIds, u \in Transporters :
             <<m, u>> # <<n, t>> => feed'[m].endpoint[u] = feed[m].endpoint[u]
    BY <1>6, <2>1 DEF ReportReachability, TypeOK
  <2>4. feed[n].endpoint[t] = IF t \in Reported(n) THEN reachability[n][t].status
                                                   ELSE "reachable"
    BY <2>1 DEF MembershipInv, EventsTellReachability
  <2>5. feed'[n].endpoint[t] = s
    <3>1. CASE EndpointEvent(reachability[n][t], s)
      BY <1>6, <2>1, <3>1 DEF ReportReachability, TypeOK
    <3>2. CASE ~EndpointEvent(reachability[n][t], s)
      <4>1. feed' = feed
        BY <1>6, <3>2 DEF ReportReachability
      <4>2. s # "none"
        BY DEF Statuses
      <4> QED BY <2>4, <3>2, <4>1, <4>2 DEF EndpointEvent, Reported
    <3> QED BY <3>1, <3>2
  <2>6. s # "none"
    BY DEF Statuses
  <2>7. EventsTellReachability'
    BY <2>2, <2>3, <2>5, <2>6 DEF MembershipInv, EventsTellReachability, Reported
  <2>8. TracesMatchMembership'
    BY <1>6, <2>1, <2>2 DEF ReportReachability, MembershipInv, TracesMatchMembership,
       Members, Remotes, IsLocal, Reported
  <2>9. LocalNodeStays' /\ EventsTellMembership'
    BY <1>6, <2>3 DEF ReportReachability, MembershipInv, LocalNodeStays,
       EventsTellMembership, Members, IsLocal
  <2> QED BY <2>7, <2>8, <2>9 DEF MembershipInv
<1> QED BY <1>1, <1>2, <1>3, <1>4, <1>5, <1>6, StepKinds

-----------------------------------------------------------------------------
(* The clock, the timers and the history.                                  *)

\* The arithmetic facts of TypeOK that the clock needs.
LEMMA ClockTypes ==
    ASSUME TypeOK
    PROVE  /\ now \in Nat /\ staleAt \in Nat /\ evictAt \in Nat
           /\ \A n \in AllIds : lastSeen[n] \in Int
           /\ \A n \in AllIds : lastSeen[n] # Never => lastSeen[n] \in Nat
           /\ \A n \in AllIds, t \in Transporters : reachability[n][t].since \in Nat
  BY DEF TypeOK, Times, Never

\* A removal, and the timer that causes it, keep the clock invariant: what a
\* sweep leaves behind passed the test of the sweep.
LEMMA RemovalClock ==
    ASSUME TypeOK, MembershipInv, ClockInv, Removes
    PROVE  ClockInv'
<1> USE TopologyAssumption, PeriodsAreNaturals
<1>1. ASSUME NEW W, NEW reason, Removal(W, reason), NEW n \in AllIds
      PROVE  /\ Gone(n, reason) \/ Kept(n)
             /\ n \in Remotes' => n \in Remotes /\ n \notin W /\ Kept(n)
  <2>1. IF n \in W /\ n \in Remotes THEN Gone(n, reason) ELSE Kept(n)
    BY <1>1, RemovalEffect DEF Removal
  <2> QED BY <1>1, <2>1 DEF Removal, Gone, Kept, Members, Remotes, IsLocal
<1>3. \A n \in AllIds : Kept(n) => Reported(n)' = Reported(n)
  BY DEF Kept, Reported
<1>4. ASSUME NEW n \in Ids, NEW reason, Removal({n}, reason), UNCHANGED <<staleAt, evictAt>>
      PROVE  ClockInv'
  <2>1. \A m \in AllIds : lastSeen'[m] <= now
    BY <1>1, <1>4, ClockTypes DEF Gone, Kept, ClockInv, Never
  <2>2. \A m \in Remotes' : m \in Remotes /\ Kept(m)
    BY <1>1, <1>4 DEF Remotes, Members
  <2>3. \A m \in Remotes' : DownAt(m, Window + EvictPeriod, evictAt)'
                              => DownAt(m, Window + EvictPeriod, evictAt)
    BY <1>3, <1>4, <2>2 DEF DownAt, Kept, Remotes, Members
  <2> QED BY <1>4, <2>1, <2>2, <2>3 DEF ClockInv, Removal, Kept
<1>5. ASSUME Removal(StaleNodes, "stale"), StaleAfter > 0, now >= staleAt,
             staleAt' = now + StalePeriod, UNCHANGED evictAt
      PROVE  ClockInv'
  <2>1. \A m \in AllIds : lastSeen'[m] <= now
    BY <1>1, <1>5, ClockTypes DEF Gone, Kept, ClockInv, Never
  <2>2. \A m \in Remotes' : m \in Remotes /\ m \notin StaleNodes /\ Kept(m)
    BY <1>1, <1>5 DEF Remotes, Members
  <2>3. \A m \in Remotes' : DownAt(m, Window + EvictPeriod, evictAt)'
                              => DownAt(m, Window + EvictPeriod, evictAt)
    BY <1>3, <1>5, <2>2 DEF DownAt, Kept, Remotes, Members
  <2>4. \A m \in Remotes' : lastSeen[m] \in Nat /\ lastSeen[m] >= now - StaleAfter
    BY <2>2 DEF StaleNodes, Remotes, Members, TypeOK, Times, Never, MembershipInv,
       TracesMatchMembership
  <2>5. \A m \in Remotes' : staleAt' <= lastSeen'[m] + StaleAfter + StalePeriod
    BY <1>5, <2>2, <2>4 DEF Kept, TypeOK
  <2>6. now' <= staleAt' + Lag /\ staleAt' - StalePeriod <= now'
    BY <1>5 DEF Removal, TypeOK
  <2>7. now' = now /\ evictAt' = evictAt /\ life' = life
    BY <1>5 DEF Removal
  <2> QED BY <2>1, <2>2, <2>3, <2>5, <2>6, <2>7 DEF ClockInv
<1>6. ASSUME Removal(NodesDown(Window), "unreachable"), Window > 0, now >= evictAt,
             evictAt' = now + EvictPeriod, UNCHANGED staleAt
      PROVE  ClockInv'
  <2>1. \A m \in AllIds : lastSeen'[m] <= now
    BY <1>1, <1>6, ClockTypes DEF Gone, Kept, ClockInv, Never
  <2>2. \A m \in Remotes' : m \in Remotes /\ m \notin NodesDown(Window) /\ Kept(m)
    BY <1>1, <1>6 DEF Remotes, Members
  <2>3. ASSUME NEW m \in Remotes', DownAt(m, Window + EvictPeriod, evictAt)'
        PROVE  FALSE
    <3>1. m \in AllIds /\ m \in Remotes /\ m \notin NodesDown(Window) /\ Kept(m)
      BY <2>2 DEF Remotes, Members
    <3>2. Reported(m)' = Reported(m)
      BY <1>3, <3>1
    <3>3. \A t \in Reported(m) : /\ reachability[m][t].status = "unreachable"
                                 /\ reachability[m][t].since + (Window + EvictPeriod)
                                      <= now + EvictPeriod
      BY <1>6, <2>3, <3>1, <3>2 DEF DownAt, Kept
    <3>4. \A t \in Reported(m) : reachability[m][t].since + Window <= now
      BY <3>1, <3>3 DEF TypeOK, Reported
    <3>5. DownAt(m, Window, now)
      BY <2>3, <3>2, <3>3, <3>4 DEF DownAt
    <3> QED BY <3>1, <3>5 DEF NodesDown
  <2>4. now' <= evictAt' + Lag /\ evictAt' - EvictPeriod <= now'
    BY <1>6 DEF Removal, TypeOK
  <2> QED BY <1>6, <2>1, <2>2, <2>3, <2>4 DEF ClockInv, Removal, Kept
<1> QED BY <1>4, <1>5, <1>6 DEF Removes

\* The clock invariant holds across the steps that remove nothing: a fresh
\* time stamp and a fresh "unreachable" are no older than the last sweep.
LEMMA ClockStep ==
    ASSUME TypeOK, MembershipInv, ClockInv, [Next]_vars
    PROVE  ClockInv'
<1> USE TopologyAssumption, PeriodsAreNaturals
<1>1. ASSUME Quiet \/ UNCHANGED vars PROVE ClockInv'
  BY <1>1 DEF Quiet, vars, ClockInv, Remotes, Members, IsLocal, DownAt, Reported
<1>2. ASSUME Tick PROVE ClockInv'
  <2>1. Remotes' = Remotes
    BY <1>2 DEF Tick, Remotes, Members, IsLocal
  <2>2. \A n \in Remotes : DownAt(n, Window + EvictPeriod, evictAt)'
                             <=> DownAt(n, Window + EvictPeriod, evictAt)
    BY <1>2 DEF Tick, DownAt, Reported
  <2>3. \A n \in AllIds : lastSeen'[n] <= now'
    BY <1>2, ClockTypes DEF Tick, ClockInv
  <2> QED BY <1>2, <2>1, <2>2, <2>3 DEF Tick, ClockInv, TypeOK
<1>3. ASSUME NEW v \in Versions, BindLocalNode(v) PROVE ClockInv'
  <2>1. Remotes' \subseteq Remotes
    BY <1>3 DEF BindLocalNode, TypeOK, Remotes, Members, IsLocal, AllIds
  <2>2. \A n \in Remotes : DownAt(n, Window + EvictPeriod, evictAt)'
                             <=> DownAt(n, Window + EvictPeriod, evictAt)
    BY <1>3 DEF BindLocalNode, DownAt, Reported
  <2> QED BY <1>3, <2>1, <2>2 DEF BindLocalNode, ClockInv
<1>4. ASSUME NEW n \in Ids, NEW v \in Versions, UpsertRemote(n, v) \/ PatchPeer(n, v)
      PROVE  ClockInv'
  <2>1. /\ n \in AllIds /\ UNCHANGED <<now, bound, life, reachability, staleAt, evictAt>>
        /\ v # Absent
        /\ nodes' = [nodes EXCEPT ![n] = v]
        /\ lastSeen' = IF IsLocal(n) THEN lastSeen ELSE [lastSeen EXCEPT ![n] = now]
    BY <1>4 DEF UpsertRemote, PatchPeer, AllIds, Absent
  <2>2. \A m \in AllIds : lastSeen'[m] = lastSeen[m] \/ lastSeen'[m] = now
    BY <2>1 DEF TypeOK
  <2>3. ASSUME NEW m \in Remotes'
        PROVE  /\ m \in AllIds
               /\ m \in Remotes \/ (m = n /\ n \notin Members)
               /\ lastSeen'[m] = now \/ (m \in Remotes /\ lastSeen'[m] = lastSeen[m])
    <3>1. m \in AllIds /\ nodes'[m] # Absent /\ ~IsLocal(m)' /\ (IsLocal(m)' <=> IsLocal(m))
      BY <2>1 DEF Remotes, Members, IsLocal
    <3>2. CASE m = n
      <4>1. lastSeen'[m] = now
        BY <2>1, <3>1, <3>2 DEF TypeOK
      <4>2. m \in Remotes \/ n \notin Members
        BY <3>1, <3>2 DEF Remotes
      <4> QED BY <3>1, <3>2, <4>1, <4>2
    <3>3. CASE m # n
      <4>1. nodes'[m] = nodes[m] /\ lastSeen'[m] = lastSeen[m]
        BY <2>1, <3>1, <3>3 DEF TypeOK
      <4>2. m \in Remotes
        BY <3>1, <4>1 DEF Remotes, Members
      <4> QED BY <3>1, <4>1, <4>2
    <3> QED BY <3>2, <3>3
  <2>4. \A m \in Remotes' : DownAt(m, Window + EvictPeriod, evictAt)'
                              => m \in Remotes /\ DownAt(m, Window + EvictPeriod, evictAt)
    <3>1. n \notin Members => Reported(n) = {}
      <4>1. n \in AllIds
        BY <2>1
      <4> QED BY <4>1 DEF MembershipInv, TracesMatchMembership
    <3> QED BY <2>1, <2>3, <3>1 DEF DownAt, Reported
  <2>5. \A m \in AllIds : lastSeen'[m] <= now
    BY <2>2, ClockTypes DEF ClockInv
  <2>6. (StaleAfter > 0 /\ life = "open") => \A m \in Remotes' :
          staleAt <= lastSeen'[m] + StaleAfter + StalePeriod
    BY <2>3, ClockTypes DEF ClockInv
  <2> QED BY <2>1, <2>4, <2>5, <2>6 DEF ClockInv
<1>5. ASSUME NEW n \in Ids, NEW t \in Transporters, NEW s \in Statuses,
             ReportReachability(n, t, s)
      PROVE  ClockInv'
  <2>1. n \in AllIds /\ UNCHANGED <<now, bound, life, nodes, lastSeen, staleAt, evictAt>>
    BY <1>5 DEF ReportReachability, AllIds
  <2>2. /\ \A m \in AllIds, u \in Transporters :
             <<m, u>> # <<n, t>> => reachability'[m][u] = reachability[m][u]
        /\ reachability'[n][t].status = s
        /\ reachability'[n][t].since = Since(reachability[n][t], s)
    BY <1>5, <2>1 DEF ReportReachability, TypeOK
  <2>3. Remotes' = Remotes
    BY <2>1 DEF Remotes, Members, IsLocal
  <2>4. (Window > 0 /\ life = "open") => \A m \in Remotes :
          DownAt(m, Window + EvictPeriod, evictAt)' => DownAt(m, Window + EvictPeriod, evictAt)
    <3> SUFFICES ASSUME Window > 0, life = "open", NEW m \in Remotes,
                        DownAt(m, Window + EvictPeriod, evictAt)'
                 PROVE  DownAt(m, Window + EvictPeriod, evictAt)
      OBVIOUS
    <3>1. m \in AllIds
      BY DEF Remotes, Members
    <3>2. CASE m # n
      BY <2>1, <2>2, <3>1, <3>2 DEF DownAt, Reported
    <3>3. CASE m = n
      <4>1. s # "none"
        BY DEF Statuses
      <4>2. s = "unreachable" /\ Since(reachability[n][t], s) + (Window + EvictPeriod) <= evictAt
        BY <2>1, <2>2, <3>3, <4>1 DEF DownAt, Reported
      <4>3. reachability[n][t].status = s
        BY <2>1, <4>2 DEF Since, ClockInv, TypeOK
      <4>4. \A u \in Transporters : /\ reachability'[n][u].status = reachability[n][u].status
                                    /\ reachability'[n][u].since = reachability[n][u].since
        BY <2>1, <2>2, <4>3 DEF Since
      <4> QED BY <2>1, <3>3, <4>4 DEF DownAt, Reported
    <3> QED BY <3>2, <3>3
  <2> QED BY <2>1, <2>3, <2>4 DEF ClockInv
<1>6. ASSUME Removes PROVE ClockInv'
  BY <1>6, RemovalClock
<1> QED BY <1>1, <1>2, <1>3, <1>4, <1>5, <1>6, StepKinds

\* The history facts are inductive: a status that stays keeps its since, a new
\* "unreachable" dates from now, and a question is asked now.
LEMMA HistoryStep ==
    ASSUME TypeOK, ClockInv, HistoryInv, [Next]_vars
    PROVE  HistoryInv'
<1>1. ASSUME Removes PROVE HistoryInv'
  <2>1. PICK W, reason : Removal(W, reason)
    BY <1>1 DEF Removes
  <2>2. \A n \in AllIds, t \in Transporters :
          \/ /\ reachability'[n][t] = NoReport
             /\ goodAt'[n][t] = Never /\ badAt'[n][t] = Never
          \/ /\ reachability'[n][t] = reachability[n][t]
             /\ goodAt'[n][t] = goodAt[n][t] /\ badAt'[n][t] = badAt[n][t]
    BY <2>1, RemovalEffect DEF Removal, Gone, Kept
  <2>3. \A n \in AllIds : verifying'[n].state = "asking" => verifying'[n] = verifying[n]
    BY <1>1 DEF Removes, TypeOK
  <2>4. now' = now /\ Never <= now
    BY <2>1, ClockTypes DEF Removal, Never
  <2> QED BY <2>2, <2>3, <2>4 DEF HistoryInv, NoReport
<1>2. ASSUME Quiet \/ UNCHANGED vars PROVE HistoryInv'
  <2>1. UNCHANGED <<now, reachability, goodAt, badAt>>
    BY <1>2 DEF Quiet, vars
  <2>2. \A n \in AllIds : verifying'[n].state = "asking"
          => \/ verifying'[n] = verifying[n]
             \/ (verifying'[n].seen = lastSeen[n] /\ verifying'[n].asked = now)
    BY <1>2 DEF Quiet, vars
  <2> QED BY <2>1, <2>2 DEF HistoryInv, ClockInv
<1>3. ASSUME NEW v \in Versions, BindLocalNode(v) PROVE HistoryInv'
  BY <1>3 DEF BindLocalNode, HistoryInv
<1>4. ASSUME NEW n \in Ids, NEW v \in Versions, UpsertRemote(n, v) \/ PatchPeer(n, v)
      PROVE  HistoryInv'
  <2>1. UNCHANGED <<now, reachability, goodAt, badAt>>
    BY <1>4 DEF UpsertRemote, PatchPeer
  <2>2. \A m \in AllIds : /\ verifying'[m].state = verifying[m].state
                          /\ verifying'[m].seen = verifying[m].seen
                          /\ verifying'[m].asked = verifying[m].asked
    BY <1>4 DEF UpsertRemote, PatchPeer
  <2> QED BY <2>1, <2>2 DEF HistoryInv
<1>5. ASSUME NEW n \in Ids, NEW t \in Transporters, NEW s \in Statuses,
             ReportReachability(n, t, s)
      PROVE  HistoryInv'
  <2>1. n \in AllIds /\ now' = now
    BY <1>5 DEF ReportReachability, AllIds
  <2>2. \A m \in AllIds, u \in Transporters : <<m, u>> # <<n, t>> =>
          /\ reachability'[m][u] = reachability[m][u]
          /\ goodAt'[m][u] = goodAt[m][u] /\ badAt'[m][u] = badAt[m][u]
    BY <1>5, <2>1 DEF ReportReachability, TypeOK
  <2>3. /\ reachability'[n][t].status = s
        /\ reachability'[n][t].since = Since(reachability[n][t], s)
    BY <1>5, <2>1 DEF ReportReachability, TypeOK
  <2>4. goodAt'[n][t] = IF s = "unreachable" THEN goodAt[n][t] ELSE now
    BY <1>5, <2>1 DEF ReportReachability, TypeOK
  <2>5. \A m \in AllIds : verifying'[m].state = "asking"
          => \/ verifying'[m] = verifying[m]
             \/ (verifying'[m].seen = lastSeen[m] /\ verifying'[m].asked = now)
    BY <1>5, <2>1 DEF ReportReachability, StartVerify, TypeOK
  <2>6. reachability'[n][t].status = "unreachable"
          => goodAt'[n][t] <= reachability'[n][t].since
    BY <2>1, <2>3, <2>4 DEF HistoryInv, Since
  <2>7. goodAt'[n][t] <= now
    BY <2>1, <2>4, ClockTypes DEF HistoryInv
  <2>8. badAt'[n][t] = IF s # "unreachable" THEN Never
                       ELSE IF badAt[n][t] = Never THEN now ELSE badAt[n][t]
    BY <1>5, <2>1 DEF ReportReachability, TypeOK
  <2>9. badAt'[n][t] = IF reachability'[n][t].status = "unreachable"
                       THEN reachability'[n][t].since ELSE Never
    <3>1. badAt[n][t] = IF reachability[n][t].status = "unreachable"
                        THEN reachability[n][t].since ELSE Never
      BY <2>1 DEF HistoryInv
    <3>2. reachability[n][t].since # Never
      BY <2>1, ClockTypes DEF Never
    <3> QED BY <2>3, <2>8, <3>1, <3>2 DEF Since
  <2> QED BY <2>1, <2>2, <2>5, <2>6, <2>7, <2>9 DEF HistoryInv, ClockInv
<1>6. ASSUME Tick PROVE HistoryInv'
  <2>1. \A n \in AllIds, t \in Transporters : goodAt[n][t] \in Int
    BY DEF TypeOK, Times, Never
  <2> QED BY <1>6, <2>1, ClockTypes DEF Tick, HistoryInv
<1> QED BY <1>1, <1>2, <1>3, <1>4, <1>5, <1>6, StepKinds

\* A remote node that goes was taken out by the code that acts on that reason.
LEMMA EvictionCause ==
    ASSUME TypeOK, Next, NEW n \in AllIds, NEW reason, Evicted(n, reason)
    PROVE  /\ reason = "unreachable" => DownAt(n, Window, now)
           /\ reason = "verification" => VerdictHolds(n) /\ verifying[n].state = "asking"
<1>1. n \in Remotes /\ nodes[n] # Absent /\ nodes'[n] = Absent /\ feed'[n].reason = reason
  BY DEF Evicted, Remotes, Members
<1>2. ASSUME NEW W, NEW r, Removal(W, r) PROVE n \in W /\ r = reason
  <2>1. IF n \in W /\ n \in Remotes THEN Gone(n, r) ELSE Kept(n)
    BY <1>2, RemovalEffect DEF Removal
  <2> QED BY <1>1, <2>1 DEF Gone, Kept
<1>3. CASE Removes
  <2>1. CASE \E m \in Ids : Removal({m}, "discovery")
    BY <1>2, <2>1
  <2>2. CASE \E m \in Ids : /\ Removal({m}, "verification") /\ VerdictHolds(m)
                            /\ verifying[m].state = "asking"
    BY <1>2, <2>2
  <2>3. CASE Removal(StaleNodes, "stale")
    BY <1>2, <2>3
  <2>4. CASE Removal(NodesDown(Window), "unreachable")
    BY <1>2, <2>4 DEF NodesDown
  <2> QED BY <1>3, <2>1, <2>2, <2>3, <2>4 DEF Removes
<1>4. CASE ~Removes
  <2>1. nodes'[n] = nodes[n] \/ nodes'[n] \in Versions
    BY <1>4, StepKinds DEF Quiet, BindLocalNode, UpsertRemote, PatchPeer,
       ReportReachability, Tick, TypeOK
  <2> QED BY <1>1, <2>1, TopologyAssumption DEF Absent
<1> QED BY <1>3, <1>4

-----------------------------------------------------------------------------
(* The theorems.                                                           *)

\* The inductive invariant holds: it adds to the properties themselves what
\* the last sweep of each timer guarantees (ClockInv) and what time stamps
\* remember (HistoryInv), without which no timer property is inductive.
THEOREM InvariantHolds == Spec => []TopologyInv
<1>1. Init => TopologyInv
  <2> SUFFICES ASSUME Init PROVE TopologyInv
    OBVIOUS
  <2> USE TopologyAssumption, PeriodsAreNaturals
  <2>1. TypeOK
    <3>1. NoReport \in [status : Statuses \cup {"none"}, since : Nat]
      BY DEF NoReport
    <3>2. Idle \in [state : {"idle", "asking", "settling"},
                    seen : Times, asked : Nat]
      BY DEF Idle, Times, Never
    <3>3. NoEvents \in [online : Int, reason : Reasons \cup {"none"},
                        endpoint : [Transporters -> Statuses]]
      BY DEF NoEvents, Statuses
    <3> QED
      BY <3>1, <3>2, <3>3 DEF Init, TypeOK, Times, Absent, Never
  <2>2. Members = {} /\ Remotes = {} /\ \A n \in AllIds : Reported(n) = {}
    BY DEF Init, Members, Remotes, Reported, NoReport
  <2>3. TracesMatchMembership /\ LocalNodeStays /\ EventsTellMembership
          /\ EventsTellReachability
    BY <2>2 DEF Init, TracesMatchMembership, LocalNodeStays, EventsTellMembership,
       EventsTellReachability, NoEvents
  <2>4. ClockInv
    BY <2>2 DEF Init, ClockInv, Never
  <2>5. HistoryInv
    BY DEF Init, HistoryInv, NoReport, Idle, Never
  <2> QED BY <2>1, <2>3, <2>4, <2>5 DEF TopologyInv
<1>2. TopologyInv /\ [Next]_vars => TopologyInv'
  BY TypeStep, MembershipStep, ClockStep, HistoryStep DEF TopologyInv, MembershipInv
<1> QED BY <1>1, <1>2, PTL DEF Spec

\* No time stamp and no report of reachability is left of a removed node, and
\* every remote member has the time stamp the stale timer goes by.  (What is
\* left is a verification in flight, which the next incarnation shares.)
THEOREM TracesMatch == Spec => []TracesMatchMembership
<1>1. TopologyInv => TracesMatchMembership
  BY DEF TopologyInv
<1> QED BY <1>1, InvariantHolds, PTL

\* Once bound, the local node is in nodes$ for good.
THEOREM LocalNodeNeverLeaves == Spec => []LocalNodeStays
<1>1. TopologyInv => LocalNodeStays
  BY DEF TopologyInv
<1> QED BY <1>1, InvariantHolds, PTL

\* The node-online and node-offline events add up to the remote membership.
THEOREM MembershipEventsExact == Spec => []EventsTellMembership
<1>1. TopologyInv => EventsTellMembership
  BY DEF TopologyInv
<1> QED BY <1>1, InvariantHolds, PTL

\* The endpoint events add up to what getReachability answers.
THEOREM EndpointEventsExact == Spec => []EventsTellReachability
<1>1. TopologyInv => EventsTellReachability
  BY DEF TopologyInv
<1> QED BY <1>1, InvariantHolds, PTL

\* A node Discovery went silent about leaves within staleAfterMs, one period of
\* the stale timer and the lateness of the event loop.
THEOREM SilentNodesGo == Spec => []SilentNodesLeave
<1>1. TopologyInv => SilentNodesLeave
  <2> SUFFICES ASSUME TopologyInv, StaleAfter > 0, life = "open", NEW n \in Remotes
               PROVE  now - lastSeen[n] <= StaleAfter + StalePeriod + Lag
    BY DEF SilentNodesLeave
  <2>1. lastSeen[n] \in Int /\ now \in Nat /\ staleAt \in Nat
    BY ClockTypes DEF TopologyInv, Remotes, Members
  <2>2. now <= staleAt + Lag /\ staleAt <= lastSeen[n] + StaleAfter + StalePeriod
    BY DEF TopologyInv, ClockInv
  <2> QED BY <2>1, <2>2, TopologyAssumption, PeriodsAreNaturals
<1> QED BY <1>1, InvariantHolds, PTL

\* A node that every reporting transporter holds unreachable leaves within the
\* window, one period of the unreachable timer and the lateness of the loop.
THEOREM DownNodesGo == Spec => []DownNodesLeave
<1>1. TopologyInv => DownNodesLeave
  <2> SUFFICES ASSUME TopologyInv, Window > 0, life = "open", NEW n \in Remotes,
                      Reported(n) # {}, \A t \in Reported(n) : badAt[n][t] # Never
               PROVE  \E t \in Reported(n) :
                        now - badAt[n][t] <= Window + EvictPeriod + Lag
    BY DEF DownNodesLeave
  <2>1. n \in AllIds /\ TypeOK
    BY DEF TopologyInv, Remotes, Members
  <2>2. now <= evictAt + Lag /\ ~DownAt(n, Window + EvictPeriod, evictAt)
    BY DEF TopologyInv, ClockInv
  <2>3. \A t \in Reported(n) : /\ reachability[n][t].status = "unreachable"
                               /\ badAt[n][t] = reachability[n][t].since
    BY <2>1 DEF TopologyInv, HistoryInv, Reported
  <2>4. PICK t \in Reported(n) :
          ~(reachability[n][t].since + (Window + EvictPeriod) <= evictAt)
    BY <2>2, <2>3 DEF DownAt
  <2>5. reachability[n][t].since \in Nat /\ now \in Nat /\ evictAt \in Nat
    BY <2>1, ClockTypes DEF Reported
  <2>6. now - badAt[n][t] <= Window + EvictPeriod + Lag
    BY <2>2, <2>3, <2>4, <2>5, TopologyAssumption, PeriodsAreNaturals
  <2> QED BY <2>6
<1> QED BY <1>1, InvariantHolds, PTL

\* removeUnreachableAfterMs never evicts a node that a reporting transporter
\* has spoken better of within the window.
THEOREM WindowProtects == Spec => NoEvictionInsideWindow
<1>1. TopologyInv /\ [Next]_vars =>
        [\A n \in AllIds : Evicted(n, "unreachable") =>
           \A t \in Reported(n) : now - goodAt[n][t] >= Window]_vars
  <2> SUFFICES ASSUME TopologyInv, Next, NEW n \in AllIds, Evicted(n, "unreachable"),
                      NEW t \in Reported(n)
               PROVE  now - goodAt[n][t] >= Window
    BY DEF vars, Evicted, Remotes, Members
  <2>1. TypeOK /\ n \in Remotes /\ t \in Transporters
    BY DEF TopologyInv, Evicted, Reported
  <2>2. DownAt(n, Window, now)
    BY <2>1, EvictionCause
  <2>3. /\ reachability[n][t].status = "unreachable"
        /\ reachability[n][t].since + Window <= now
    BY <2>2 DEF DownAt
  <2>4. goodAt[n][t] <= reachability[n][t].since
    BY <2>1, <2>3 DEF TopologyInv, HistoryInv
  <2>5. goodAt[n][t] \in Int /\ reachability[n][t].since \in Nat /\ now \in Nat
    BY <2>1 DEF TypeOK, Times, Never
  <2> QED BY <2>3, <2>4, <2>5, TopologyAssumption
<1> QED BY <1>1, InvariantHolds, PTL DEF Spec, NoEvictionInsideWindow

\* A node removed on a dead verdict was not heard of in a later tick than the
\* one the question was asked in.
THEOREM DeadVerdictsAreCurrent == Spec => DeadVerdictIsCurrent
<1>1. TopologyInv /\ [Next]_vars =>
        [\A n \in AllIds : Evicted(n, "verification") =>
           lastSeen[n] <= verifying[n].asked]_vars
  <2> SUFFICES ASSUME TopologyInv, Next, NEW n \in AllIds, Evicted(n, "verification")
               PROVE  lastSeen[n] <= verifying[n].asked
    BY DEF vars, Evicted, Remotes, Members
  <2>1. VerdictHolds(n) /\ verifying[n].state = "asking"
    BY EvictionCause DEF TopologyInv
  <2> QED BY <2>1 DEF TopologyInv, HistoryInv, VerdictHolds
<1> QED BY <1>1, InvariantHolds, PTL DEF Spec, DeadVerdictIsCurrent
=============================================================================
