------------------------- MODULE K8sDiscoveryProofs -------------------------
(***************************************************************************)
(* Theorems about K8sDiscovery, for every value of its constants.          *)
(***************************************************************************)
EXTENDS K8sDiscovery, SequenceTheorems, TLAPS

-----------------------------------------------------------------------------
(* The inductive invariant.                                                *)

Streams == [phase : {"none", "dialing", "open", "self"}, source : Processes \cup {Nobody},
            lines : Seq(Nat), node : Processes \cup {Nobody}]

Phases == {"list", "listed", "opening", "watching", "sleeping", "denied", "dns", "closed"}

Contents == UNION {[kept -> SUBSET Targets] : kept \in SUBSET Slices}
Versions == UNION {[known -> Nat] : known \in SUBSET Processes}

PeerTypes ==
    /\ alive \in SUBSET Processes
    /\ edition \in [Processes -> Nat]
    /\ hostKnown \in BOOLEAN
    /\ peers \in [Targets -> Streams]
    /\ synced \in BOOLEAN
    /\ members \in Versions
    /\ faults \in Nat

SourceTypes ==
    /\ ready \in SUBSET Processes
    /\ history \in Seq(Contents)
    /\ mode \in {"auto", "api", "dns"}
    /\ phase \in Phases
    /\ version \in 1..Latest
    /\ slices \in Contents
    /\ partial \in BOOLEAN

Types == PeerTypes /\ SourceTypes

\* An address belongs to one living process, and was never one of this process's own.
AddressesHeldOnce ==
    /\ Self \in alive
    /\ \A p \in alive : edition[p] > 0
    /\ \A p, q \in alive : p # q => AddressOf[p] \cap AddressOf[q] = {}
    /\ \A p \in Processes : edition[p] > 0 /\ p # Self => AddressOf[p] \cap AddressOf[Self] = {}

\* A stream s to target t comes from a process that has, or had, this address; it has
\* told of a remote one, and of no other that still lives.
StreamSound(t, s) ==
    /\ s.phase = "none" => s = NoPeer
    /\ s.phase = "open" <=> s.source # Nobody
    /\ s.source # Nobody => t \in AddressOf[s.source] /\ edition[s.source] > 0
    /\ s.node # Nobody => s.node # Self /\ t \in AddressOf[s.node] /\ edition[s.node] > 0
    /\ s.source # Nobody /\ s.node \in alive => s.node = s.source
    /\ hostKnown /\ t = SelfTarget => s.phase = "none"

StreamsSound == \A t \in Targets : StreamSound(t, peers[t])

MembersTold == DOMAIN members \subseteq NodesOf(Entries) /\ Self \notin DOMAIN members

\* From one version to the next, slice f and no other has changed.
Differs(before, after, f) ==
    \/ (f \in DOMAIN after) # (f \in DOMAIN before)
    \/ f \in DOMAIN after /\ after[f] # before[f]

HistorySteps ==
    \A v \in DOMAIN history : v > 1 =>
        \E f \in Slices : /\ Differs(history[v - 1], history[v], f)
                          /\ \A g \in Slices \ {f} : ~Differs(history[v - 1], history[v], g)

Streamed == TargetsIn(history[version]) \ (IF hostKnown THEN {SelfTarget} ELSE {})

\* What the client knows is what the server held at its version, from the arrival of a list
\* until the next one is asked for; its streams stay in step unless all is in doubt.
SourceSound ==
    /\ phase \in {"opening", "watching"} => synced /\ slices = history[version]
    /\ phase \notin {"dns", "closed"} => ~partial
    /\ synced /\ ~partial /\ phase \notin {"listed", "closed"} => Entries = Streamed

Inv ==
    /\ Types
    /\ AddressesHeldOnce
    /\ StreamsSound
    /\ phase # "closed" => MembersTold
    /\ HistorySteps
    /\ SourceSound

-----------------------------------------------------------------------------
(* Lemmas about functions with some of the processes, or slices, as domain. *)

LEMMA VersionsDomain ==
    ASSUME NEW known
    PROVE  known \in Versions <=>
              /\ DOMAIN known \subseteq Processes
              /\ known = [p \in DOMAIN known |-> known[p]]
              /\ \A p \in DOMAIN known : known[p] \in Nat
<1>1. ASSUME known \in Versions
      PROVE  /\ DOMAIN known \subseteq Processes
             /\ known = [p \in DOMAIN known |-> known[p]]
             /\ \A p \in DOMAIN known : known[p] \in Nat
  <2>1. PICK S \in SUBSET Processes : known \in [S -> Nat]
    BY <1>1 DEF Versions
  <2> QED BY <2>1
<1>2. ASSUME DOMAIN known \subseteq Processes,
             known = [p \in DOMAIN known |-> known[p]],
             \A p \in DOMAIN known : known[p] \in Nat
      PROVE  known \in Versions
  <2> DEFINE S == DOMAIN known
  <2>1. known \in [S -> Nat]
    BY <1>2
  <2>2. S \in SUBSET Processes
    BY <1>2
  <2> QED BY <2>1, <2>2 DEF Versions
<1> QED BY <1>1, <1>2

LEMMA VersionsRestricted ==
    ASSUME NEW known \in Versions, NEW S
    PROVE  [p \in DOMAIN known \ S |-> known[p]] \in Versions
<1> DEFINE less == [p \in DOMAIN known \ S |-> known[p]]
<1>1. /\ DOMAIN known \subseteq Processes
      /\ \A p \in DOMAIN known : known[p] \in Nat
  BY VersionsDomain
<1>2. DOMAIN less = DOMAIN known \ S
  OBVIOUS
<1>3. \A p \in DOMAIN less : less[p] = known[p]
  OBVIOUS
<1>4. less = [p \in DOMAIN less |-> less[p]]
  OBVIOUS
<1> HIDE DEF less
<1> QED BY <1>1, <1>2, <1>3, <1>4, VersionsDomain

LEMMA VersionsUpserted ==
    ASSUME NEW known \in Versions, NEW p \in Processes, NEW v \in Nat
    PROVE  /\ Upserted(known, p, v) \in Versions
           /\ DOMAIN Upserted(known, p, v) = DOMAIN known \cup {p}
<1>1. /\ DOMAIN known \subseteq Processes
      /\ \A q \in DOMAIN known : known[q] \in Nat
  BY VersionsDomain
<1> DEFINE more == [q \in DOMAIN known \cup {p} |-> IF q = p THEN v ELSE known[q]]
<1>2. DOMAIN more = DOMAIN known \cup {p}
  OBVIOUS
<1>3. \A q \in DOMAIN more : more[q] = (IF q = p THEN v ELSE known[q])
  OBVIOUS
<1>4. more = [q \in DOMAIN more |-> more[q]]
  OBVIOUS
<1>5. Upserted(known, p, v) \in {known, more}
  BY DEF Upserted
<1>6. p \in DOMAIN known \/ Upserted(known, p, v) = more
  BY DEF Upserted
<1> HIDE DEF more
<1>7. more \in Versions
  <2>1. \A q \in DOMAIN more : more[q] \in Nat
    BY <1>1, <1>2, <1>3
  <2> QED BY <1>1, <1>2, <1>4, <2>1, VersionsDomain
<1> QED BY <1>2, <1>5, <1>6, <1>7

LEMMA ContentsDomain ==
    ASSUME NEW copy
    PROVE  copy \in Contents <=>
              /\ DOMAIN copy \subseteq Slices
              /\ copy = [f \in DOMAIN copy |-> copy[f]]
              /\ \A f \in DOMAIN copy : copy[f] \in SUBSET Targets
<1>1. ASSUME copy \in Contents
      PROVE  /\ DOMAIN copy \subseteq Slices
             /\ copy = [f \in DOMAIN copy |-> copy[f]]
             /\ \A f \in DOMAIN copy : copy[f] \in SUBSET Targets
  <2>1. PICK S \in SUBSET Slices : copy \in [S -> SUBSET Targets]
    BY <1>1 DEF Contents
  <2> QED BY <2>1
<1>2. ASSUME DOMAIN copy \subseteq Slices,
             copy = [f \in DOMAIN copy |-> copy[f]],
             \A f \in DOMAIN copy : copy[f] \in SUBSET Targets
      PROVE  copy \in Contents
  <2> DEFINE S == DOMAIN copy
  <2>1. copy \in [S -> SUBSET Targets]
    BY <1>2
  <2>2. S \in SUBSET Slices
    BY <1>2
  <2> QED BY <2>1, <2>2 DEF Contents
<1> QED BY <1>1, <1>2

LEMMA ContentsTargets ==
    ASSUME NEW copy \in Contents
    PROVE  TargetsIn(copy) \subseteq Targets
BY ContentsDomain DEF TargetsIn

-----------------------------------------------------------------------------
(* What #apply(snapshot) does to streams and members.                      *)

Applies(snapshot) == Apply(snapshot) /\ UNCHANGED <<alive, edition, hostKnown>>

LEMMA ApplyStreams ==
    ASSUME PeerTypes, StreamsSound, NEW snapshot \in SUBSET Targets, Applies(snapshot)
    PROVE  /\ StreamsSound'
           /\ peers' \in [Targets -> Streams]
           /\ members' \in Versions
           /\ synced' = TRUE
           /\ Entries' = snapshot \ (IF hostKnown THEN {SelfTarget} ELSE {})
<1> USE DEF PeerTypes
<1> DEFINE After(t) == IF t \notin snapshot THEN NoPeer
                       ELSE IF peers[t].phase = "none" /\ ~(hostKnown /\ t = SelfTarget) THEN Dialing
                       ELSE peers[t]
<1>1. peers' = [t \in Targets |-> After(t)]
  BY DEF Applies, Apply
<1>2. UNCHANGED <<alive, edition, hostKnown>>
  BY DEF Applies
<1>3. /\ NoPeer \in Streams /\ NoPeer.phase = "none" /\ NoPeer.source = Nobody
      /\ NoPeer.node = Nobody /\ NoPeer.lines = <<>>
  BY DEF NoPeer, Streams
<1>4. /\ Dialing \in Streams /\ Dialing.phase = "dialing" /\ Dialing.source = Nobody
      /\ Dialing.node = Nobody
  <2>1. Dialing = [phase |-> "dialing", source |-> Nobody, lines |-> <<>>, node |-> Nobody]
    BY DEF NoPeer, Dialing
  <2> QED BY <2>1 DEF Streams
<1>5. \A t \in Targets : /\ peers'[t] = After(t)
                         /\ After(t) \in {NoPeer, Dialing, peers[t]}
  BY <1>1
<1>6. \A t \in Targets : StreamSound(t, peers[t])
  BY DEF StreamsSound
<1>7. ASSUME NEW t \in Targets
      PROVE  /\ StreamSound(t, peers[t])'
             /\ peers'[t].phase # "none" <=>
                   t \in snapshot /\ ~(hostKnown /\ t = SelfTarget)
  <2>1. Nobody \notin Processes
    BY K8sPeersAssumption
  <2>2. CASE t \notin snapshot
    <3>1. peers'[t] = NoPeer
      BY <1>5, <2>2
    <3> QED BY <1>2, <1>3, <2>1, <2>2, <3>1 DEF StreamSound
  <2>3. CASE t \in snapshot /\ peers[t].phase = "none" /\ ~(hostKnown /\ t = SelfTarget)
    <3>1. peers'[t] = Dialing
      BY <1>5, <2>3
    <3> QED BY <1>2, <1>4, <2>1, <2>3, <3>1 DEF StreamSound
  <2>4. CASE t \in snapshot /\ ~(peers[t].phase = "none" /\ ~(hostKnown /\ t = SelfTarget))
    <3>1. peers'[t] = peers[t]
      BY <1>5, <2>4
    <3> QED BY <1>2, <1>6, <2>4, <3>1 DEF StreamSound
  <2> QED BY <2>2, <2>3, <2>4
<1>8. StreamsSound'
  BY <1>7 DEF StreamsSound
<1>9. peers' \in [Targets -> Streams]
  BY <1>1, <1>3, <1>4, <1>5
<1>10. members' \in Versions
  BY VersionsRestricted DEF Applies, Apply
<1>11. synced' = TRUE
  BY DEF Applies, Apply
<1>12. SelfTarget \in Targets
  BY K8sPeersAssumption
<1>13. Entries' = snapshot \ (IF hostKnown THEN {SelfTarget} ELSE {})
  <2>1. Entries' = {t \in Targets : peers'[t].phase # "none"}
    BY DEF Entries
  <2>2. \A t \in Targets : peers'[t].phase # "none" <=>
                             t \in snapshot /\ ~(hostKnown /\ t = SelfTarget)
    BY <1>7
  <2>3. Entries' = {t \in snapshot : ~(hostKnown /\ t = SelfTarget)}
    BY <2>1, <2>2
  <2>4. CASE hostKnown
    BY <2>3, <2>4
  <2>5. CASE ~hostKnown
    BY <2>3, <2>5
  <2> QED BY <2>4, <2>5
<1> QED BY <1>8, <1>9, <1>10, <1>11, <1>13

\* A member that #apply keeps is still told of by a stream it kept.
LEMMA ApplyMembers ==
    ASSUME PeerTypes, MembersTold, StreamsSound, NEW snapshot \in SUBSET Targets,
           Applies(snapshot)
    PROVE  /\ MembersTold'
           /\ \A p \in DOMAIN members :
                 (\A t \in Targets : peers[t].node = p => t \in snapshot) => p \in DOMAIN members'
<1> USE DEF PeerTypes
<1>1. DOMAIN members' = DOMAIN members \ NodesOf(Entries \ snapshot)
  BY DEF Applies, Apply
<1>2. ASSUME NEW p \in DOMAIN members, p \notin NodesOf(Entries \ snapshot)
      PROVE  p \in NodesOf(Entries)'
  <2>1. PICK t \in Entries : peers[t].node = p /\ p # Nobody
    BY DEF MembersTold, NodesOf
  <2>2. t \in snapshot /\ t \in Targets /\ peers[t].phase # "none"
    BY <1>2, <2>1 DEF NodesOf, Entries
  <2>3. peers'[t] = peers[t]
    BY <2>2 DEF Applies, Apply
  <2> QED BY <2>1, <2>2, <2>3 DEF NodesOf, Entries
<1>3. MembersTold'
  BY <1>1, <1>2 DEF MembersTold
<1>4. ASSUME NEW p \in DOMAIN members,
             \A t \in Targets : peers[t].node = p => t \in snapshot
      PROVE  p \in DOMAIN members'
  BY <1>1, <1>4 DEF NodesOf, Entries
<1> QED BY <1>3, <1>4

-----------------------------------------------------------------------------
(* Steps that leave the client and its source alone.                       *)

LEMMA SourceFrame ==
    ASSUME SourceSound, HistorySteps, UNCHANGED <<sourceVars, synced, history, hostKnown>>,
           Entries' = Entries
    PROVE  SourceSound' /\ HistorySteps'
<1>1. /\ UNCHANGED <<phase, version, slices, partial, synced, history, hostKnown>>
      /\ Streamed' = Streamed
  BY DEF sourceVars, Streamed
<1>2. SourceSound'
  BY <1>1 DEF SourceSound
<1>3. HistorySteps'
  BY <1>1 DEF HistorySteps
<1> QED BY <1>2, <1>3

LEMMA MembersFrame ==
    ASSUME MembersTold, UNCHANGED members,
           \A t \in Targets : /\ peers'[t].node = peers[t].node
                              /\ peers[t].phase # "none" => peers'[t].phase # "none"
    PROVE  MembersTold'
<1>1. ASSUME NEW p \in NodesOf(Entries)
      PROVE  p \in NodesOf(Entries)'
  <2>1. PICK t \in Targets : peers[t].phase # "none" /\ peers[t].node = p /\ p # Nobody
    BY <1>1 DEF NodesOf, Entries
  <2>2. peers'[t].phase # "none" /\ peers'[t].node = p
    BY <2>1
  <2> QED BY <2>1, <2>2 DEF NodesOf, Entries
<1> QED BY <1>1 DEF MembersTold

LEMMA StartsStep ==
    ASSUME Inv, NEW p \in Processes, Starts(p)
    PROVE  Inv'
<1> USE DEF Inv, Types
<1>1. /\ p \notin alive /\ alive' = alive \cup {p}
      /\ \A q \in alive : AddressOf[p] \cap AddressOf[q] = {}
      /\ edition[p] = 0 /\ edition' = [edition EXCEPT ![p] = 1]
      /\ UNCHANGED <<hostKnown, peers, synced, members, faults, ready, history, mode>>
      /\ UNCHANGED <<phase, version, slices, partial>>
  BY DEF Starts, OnlyCluster, clusterVars, sourceVars
<1>2. Types'
  BY <1>1 DEF PeerTypes, SourceTypes, Latest
<1>3. \A q \in Processes : edition'[q] = IF q = p THEN 1 ELSE edition[q]
  BY <1>1 DEF PeerTypes
<1>4. AddressesHeldOnce'
  <2>1. Self \in alive' /\ p # Self
    BY <1>1 DEF AddressesHeldOnce
  <2>2. \A q \in alive' : edition'[q] > 0
    BY <1>1, <1>3 DEF AddressesHeldOnce, PeerTypes
  <2>3. \A q, o \in alive' : q # o => AddressOf[q] \cap AddressOf[o] = {}
    BY <1>1 DEF AddressesHeldOnce
  <2>4. \A q \in Processes :
            edition'[q] > 0 /\ q # Self => AddressOf[q] \cap AddressOf[Self] = {}
    BY <1>1, <1>3 DEF AddressesHeldOnce
  <2> QED BY <2>1, <2>2, <2>3, <2>4 DEF AddressesHeldOnce
<1>5. StreamsSound'
  <2> SUFFICES ASSUME NEW t \in Targets
               PROVE  StreamSound(t, peers[t])'
    BY DEF StreamsSound
  <2>1. StreamSound(t, peers[t]) /\ peers[t] \in Streams
    BY DEF StreamsSound, PeerTypes
  <2>2. /\ peers[t].source # Nobody => peers[t].source \in Processes
        /\ peers[t].node # Nobody => peers[t].node \in Processes
    BY <2>1 DEF Streams
  <2>3. peers[t].node # Nobody => peers[t].node # p
    BY <2>1, <1>1 DEF StreamSound
  <2>4. Nobody \notin Processes
    BY K8sPeersAssumption
  <2>5. /\ peers[t].source # Nobody => edition'[peers[t].source] > 0
        /\ peers[t].node # Nobody => edition'[peers[t].node] > 0
    BY <1>3, <2>1, <2>2 DEF StreamSound
  <2> QED BY <1>1, <2>1, <2>3, <2>4, <2>5 DEF StreamSound
<1>6. (phase # "closed" => MembersTold)'
  BY <1>1, MembersFrame
<1>7. SourceSound' /\ HistorySteps'
  <2>1. Entries' = Entries
    BY <1>1 DEF Entries
  <2> QED BY <1>1, <2>1, SourceFrame DEF sourceVars
<1> QED BY <1>2, <1>4, <1>5, <1>6, <1>7

LEMMA DiesStep ==
    ASSUME Inv, NEW p \in Processes, Dies(p)
    PROVE  Inv'
<1> USE DEF Inv, Types
<1>1. /\ alive' = alive \ {p} /\ ready' = ready \ {p} /\ p # Self
      /\ UNCHANGED <<edition, hostKnown, peers, synced, members, faults, history, mode>>
      /\ UNCHANGED <<phase, version, slices, partial>>
  BY DEF Dies, OnlyCluster, sourceVars
<1>2. Types'
  BY <1>1 DEF PeerTypes, SourceTypes, Latest
<1>3. AddressesHeldOnce'
  BY <1>1 DEF AddressesHeldOnce
<1>4. StreamsSound'
  <2> SUFFICES ASSUME NEW t \in Targets
               PROVE  StreamSound(t, peers[t])'
    BY DEF StreamsSound
  <2>1. StreamSound(t, peers[t])
    BY DEF StreamsSound
  <2> QED BY <1>1, <2>1 DEF StreamSound
<1>5. (phase # "closed" => MembersTold)'
  BY <1>1, MembersFrame
<1>6. SourceSound' /\ HistorySteps'
  <2>1. Entries' = Entries
    BY <1>1 DEF Entries
  <2> QED BY <1>1, <2>1, SourceFrame DEF sourceVars
<1> QED BY <1>2, <1>3, <1>4, <1>5, <1>6

LEMMA ReadinessStep ==
    ASSUME Inv, NEW p \in Processes, ReadinessChanges(p)
    PROVE  Inv'
<1> USE DEF Inv, Types
<1>1. /\ p \in alive /\ ready' = (ready \ {p}) \cup ({p} \ ready)
      /\ UNCHANGED <<alive, edition, hostKnown, peers, synced, members, faults, history, mode>>
      /\ UNCHANGED <<phase, version, slices, partial>>
  BY DEF ReadinessChanges, OnlyCluster, sourceVars
<1>2. Types'
  BY <1>1 DEF PeerTypes, SourceTypes, Latest
<1>3. AddressesHeldOnce'
  BY <1>1 DEF AddressesHeldOnce
<1>4. StreamsSound'
  BY <1>1 DEF StreamsSound, StreamSound
<1>5. (phase # "closed" => MembersTold)'
  BY <1>1, MembersFrame
<1>6. SourceSound' /\ HistorySteps'
  <2>1. Entries' = Entries
    BY <1>1 DEF Entries
  <2> QED BY <1>1, <2>1, SourceFrame DEF sourceVars
<1> QED BY <1>2, <1>3, <1>4, <1>5, <1>6

\* A slice changes and nothing else of the cluster: what the client has read stays.
LEMMA SliceChangesStep ==
    ASSUME Inv, NEW f \in Slices, SliceChanges(f)
    PROVE  Inv'
<1> USE DEF Inv, Types
<1> DEFINE now == history[Latest]
           content == SliceContent(f, ready)
           Kept == DOMAIN now \cup {f}
           grown == [g \in Kept |-> IF g = f THEN content ELSE now[g]]
           shrunk == [g \in Kept \ {f} |-> now[g]]
<1>1. /\ UNCHANGED <<alive, edition, hostKnown, peers, synced, members, faults, ready, mode>>
      /\ UNCHANGED <<phase, version, slices, partial>>
      /\ content # (IF f \in DOMAIN now THEN now[f] ELSE {})
  BY DEF SliceChanges, OnlyCluster, sourceVars
<1>2. PICK x : /\ history' = Append(history, x)
               /\ \/ x = grown
                  \/ x = shrunk /\ content = {}
  BY DEF SliceChanges
<1>3. /\ history \in Seq(Contents) /\ Latest = Len(history) /\ Latest \in Nat /\ version \in 1..Latest
  BY DEF SourceTypes, Latest
<1>4. now \in Contents
  BY <1>3
<1>5. /\ DOMAIN now \subseteq Slices
      /\ \A g \in DOMAIN now : now[g] \in SUBSET Targets
  BY <1>4, ContentsDomain
<1>6. content \in SUBSET Targets
  BY K8sPeersAssumption DEF SliceContent, Addresses, SourceTypes
<1> HIDE DEF now, content
<1>7. x \in Contents
  <2>1. grown \in Contents
    <3>1. grown \in [Kept -> SUBSET Targets]
      BY <1>5, <1>6
    <3>2. Kept \in SUBSET Slices
      BY <1>5
    <3> HIDE DEF grown, Kept
    <3> QED BY <3>1, <3>2 DEF Contents
  <2>2. shrunk \in Contents
    <3>1. shrunk \in [Kept \ {f} -> SUBSET Targets]
      BY <1>5
    <3>2. Kept \ {f} \in SUBSET Slices
      BY <1>5
    <3> HIDE DEF shrunk, Kept
    <3> QED BY <3>1, <3>2 DEF Contents
  <2> QED BY <1>2, <2>1, <2>2
<1>8. /\ history' \in Seq(Contents)
      /\ Latest' = Latest + 1
      /\ \A v \in 1..Latest : history'[v] = history[v]
      /\ history'[Latest + 1] = x
  BY <1>2, <1>3, <1>7 DEF Latest
<1>9. /\ Differs(now, x, f)
      /\ \A g \in Slices \ {f} : ~Differs(now, x, g)
  <2>1. CASE x = grown
    <3>1. DOMAIN x = Kept /\ \A g \in Kept : x[g] = IF g = f THEN content ELSE now[g]
      BY <2>1
    <3> QED BY <1>1, <3>1 DEF Differs
  <2>2. CASE x = shrunk /\ content = {}
    <3>1. DOMAIN x = Kept \ {f} /\ \A g \in Kept \ {f} : x[g] = now[g]
      BY <2>2
    <3> QED BY <1>1, <2>2, <3>1 DEF Differs
  <2> QED BY <1>2, <2>1, <2>2
<1>10. HistorySteps'
  <2> SUFFICES ASSUME NEW v \in DOMAIN history', v > 1
               PROVE  \E h \in Slices :
                          /\ Differs(history'[v - 1], history'[v], h)
                          /\ \A g \in Slices \ {h} : ~Differs(history'[v - 1], history'[v], g)
    BY DEF HistorySteps
  <2>1. v \in 1..(Latest + 1)
    BY <1>2, <1>3, <1>7
  <2>2. CASE v = Latest + 1
    <3>1. history'[v - 1] = now /\ history'[v] = x
      BY <1>3, <1>8, <2>2 DEF now
    <3> QED BY <1>9, <3>1
  <2>3. CASE v # Latest + 1
    <3>1. v \in DOMAIN history /\ history'[v - 1] = history[v - 1] /\ history'[v] = history[v]
      BY <1>3, <1>8, <2>1, <2>3
    <3> QED BY <3>1 DEF HistorySteps
  <2> QED BY <2>2, <2>3
<1>11. Types'
  <2>1. version' \in 1..Latest'
    BY <1>1, <1>3, <1>8
  <2> QED BY <1>1, <1>8, <2>1 DEF PeerTypes, SourceTypes
<1>12. AddressesHeldOnce'
  BY <1>1 DEF AddressesHeldOnce
<1>13. StreamsSound'
  BY <1>1 DEF StreamsSound, StreamSound
<1>14. (phase # "closed" => MembersTold)'
  BY <1>1, MembersFrame
<1>15. SourceSound'
  <2>1. history'[version'] = history[version] /\ Entries' = Entries
    BY <1>1, <1>3, <1>8 DEF Entries
  <2>2. Streamed' = Streamed
    BY <1>1, <2>1 DEF Streamed
  <2> QED BY <1>1, <2>1, <2>2 DEF SourceSound
<1> QED BY <1>10, <1>11, <1>12, <1>13, <1>14, <1>15

-----------------------------------------------------------------------------
(* The steps of a stream.                                                  *)

LEMMA EditsStep ==
    ASSUME Inv, NEW p \in Processes, ProcessEdits(p)
    PROVE  Inv'
<1> USE DEF Inv, Types
<1>1. /\ p \in alive /\ edition' = [edition EXCEPT ![p] = @ + 1]
      /\ UNCHANGED <<alive, hostKnown, synced, members, faults, ready, history, mode>>
      /\ UNCHANGED <<phase, version, slices, partial>>
  BY DEF ProcessEdits, Edits, Unchanged, sourceVars, clusterVars
<1>2. edition \in [Processes -> Nat] /\ peers \in [Targets -> Streams]
  BY DEF PeerTypes
<1>3. edition' \in [Processes -> Nat] /\ \A q \in Processes : edition'[q] >= edition[q]
  BY <1>1, <1>2
<1> DEFINE Told(t) == IF peers[t].phase = "open" /\ peers[t].source = p
                      THEN [peers[t] EXCEPT !.lines = Append(@, edition'[p])]
                      ELSE peers[t]
<1>4. peers' = [t \in Targets |-> Told(t)]
  BY DEF ProcessEdits, Edits
<1>5. ASSUME NEW t \in Targets
      PROVE  /\ Told(t) \in Streams
             /\ Told(t).phase = peers[t].phase /\ Told(t).source = peers[t].source
             /\ Told(t).node = peers[t].node
             /\ peers[t].phase = "none" => Told(t) = peers[t]
  <2>1. peers[t] \in Streams /\ edition'[p] \in Nat
    BY <1>2, <1>3
  <2>2. peers[t].lines \in Seq(Nat)
    BY <2>1 DEF Streams
  <2>3. Append(peers[t].lines, edition'[p]) \in Seq(Nat)
    BY <2>1, <2>2
  <2> QED BY <2>1, <2>3 DEF Streams
<1> HIDE DEF Told
<1>6. \A t \in Targets : peers'[t] = Told(t)
  BY <1>4
<1>7. peers' \in [Targets -> Streams]
  BY <1>4, <1>5
<1>8. Types'
  BY <1>1, <1>3, <1>7 DEF PeerTypes, SourceTypes, Latest
<1>9. AddressesHeldOnce'
  <2>1. \A q \in Processes : (edition'[q] > 0 /\ q # p) => edition[q] > 0
    BY <1>1, <1>2
  <2>2. edition[p] > 0
    BY <1>1 DEF AddressesHeldOnce
  <2>3. \A q \in alive : edition'[q] > 0
    BY <1>2, <1>3 DEF AddressesHeldOnce, PeerTypes
  <2> QED BY <1>1, <2>1, <2>2, <2>3 DEF AddressesHeldOnce
<1>10. StreamsSound'
  <2> SUFFICES ASSUME NEW t \in Targets
               PROVE  StreamSound(t, peers[t])'
    BY DEF StreamsSound
  <2>1. StreamSound(t, peers[t]) /\ peers[t] \in Streams
    BY <1>2 DEF StreamsSound
  <2>2. /\ peers'[t].phase = peers[t].phase /\ peers'[t].source = peers[t].source
        /\ peers'[t].node = peers[t].node
        /\ peers[t].phase = "none" => peers'[t] = peers[t]
    BY <1>5, <1>6
  <2>3. /\ peers[t].source # Nobody => peers[t].source \in Processes
        /\ peers[t].node # Nobody => peers[t].node \in Processes
    BY <2>1 DEF Streams
  <2>4. /\ peers[t].source # Nobody => edition'[peers[t].source] > 0
        /\ peers[t].node # Nobody => edition'[peers[t].node] > 0
    BY <1>2, <1>3, <2>1, <2>3 DEF StreamSound
  <2> QED BY <1>1, <2>1, <2>2, <2>4 DEF StreamSound
<1>11. (phase # "closed" => MembersTold)'
  <2>1. \A t \in Targets : /\ peers'[t].node = peers[t].node
                           /\ peers[t].phase # "none" => peers'[t].phase # "none"
    BY <1>5, <1>6
  <2> QED BY <1>1, <2>1, MembersFrame
<1>12. SourceSound' /\ HistorySteps'
  <2>1. Entries' = Entries
    BY <1>5, <1>6 DEF Entries
  <2> QED BY <1>1, <2>1, SourceFrame DEF sourceVars
<1> QED BY <1>8, <1>9, <1>10, <1>11, <1>12

\* A step of one stream, which stays one of the membership.
LEMMA OneStream ==
    ASSUME Inv, NEW t \in Targets, NEW s \in Streams,
           peers' = [peers EXCEPT ![t] = s], peers[t].phase # "none", s.phase # "none",
           StreamSound(t, s),
           UNCHANGED <<alive, edition, hostKnown, synced, ready, history, mode, sourceVars>>,
           faults' \in Nat, members' \in Versions,
           phase # "closed" => MembersTold'
    PROVE  Inv'
<1> USE DEF Inv, Types
<1>1. UNCHANGED <<phase, version, slices, partial>>
  BY DEF sourceVars
<1>2. peers \in [Targets -> Streams]
  BY DEF PeerTypes
<1>3. Types'
  BY <1>1, <1>2 DEF PeerTypes, SourceTypes, Latest
<1>4. AddressesHeldOnce'
  BY DEF AddressesHeldOnce
<1>5. StreamsSound'
  <2> SUFFICES ASSUME NEW u \in Targets
               PROVE  StreamSound(u, peers[u])'
    BY DEF StreamsSound
  <2>1. StreamSound(u, peers'[u])
    BY <1>2 DEF StreamsSound
  <2> QED BY <2>1 DEF StreamSound
<1>6. SourceSound' /\ HistorySteps'
  <2>1. Entries' = Entries
    BY <1>2 DEF Entries
  <2> QED BY <2>1, SourceFrame
<1> QED BY <1>1, <1>3, <1>4, <1>5, <1>6

LEMMA ConnectsStep ==
    ASSUME Inv, NEW t \in Targets, Connects(t), Unchanged
    PROVE  Inv'
<1>1. PICK p \in alive : /\ t \in AddressOf[p]
                         /\ peers' = [peers EXCEPT ![t].phase = "open", ![t].source = p,
                                                   ![t].lines = <<edition[p]>>]
  BY DEF Connects
<1> DEFINE s == [peers[t] EXCEPT !.phase = "open", !.source = p, !.lines = <<edition[p]>>]
<1>2. /\ peers[t].phase = "dialing"
      /\ UNCHANGED <<alive, edition, hostKnown, synced, members, faults>>
  BY DEF Connects
<1>3. UNCHANGED <<ready, history, mode, sourceVars>>
  BY DEF Unchanged, clusterVars
<1>4. /\ peers \in [Targets -> Streams] /\ edition \in [Processes -> Nat]
      /\ alive \in SUBSET Processes /\ faults \in Nat /\ members \in Versions
  BY DEF Inv, Types, PeerTypes
<1>5. peers[t] \in Streams /\ p \in Processes /\ edition[p] \in Nat
  BY <1>4
<1>6. /\ s \in Streams /\ s.phase = "open" /\ s.source = p /\ s.node = peers[t].node
  <2>1. <<edition[p]>> \in Seq(Nat)
    BY <1>5
  <2> QED BY <1>5, <2>1 DEF Streams
<1>7. peers' = [peers EXCEPT ![t] = s]
  BY <1>1, <1>4
<1>8. StreamSound(t, peers[t]) /\ AddressesHeldOnce
  BY DEF Inv, StreamsSound
<1>9. Nobody \notin Processes
  BY K8sPeersAssumption
<1> HIDE DEF s
<1>10. StreamSound(t, s)
  <2>1. edition[p] > 0 /\ p # Nobody
    BY <1>5, <1>8, <1>9 DEF AddressesHeldOnce
  <2>2. s.node \in alive => s.node = p
    <3> SUFFICES ASSUME s.node \in alive, s.node # p
                 PROVE  FALSE
      OBVIOUS
    <3>1. s.node # Nobody
      BY <1>4, <1>9
    <3>2. t \in AddressOf[s.node]
      BY <1>6, <1>8, <3>1 DEF StreamSound
    <3>3. AddressOf[s.node] \cap AddressOf[p] = {}
      BY <1>8 DEF AddressesHeldOnce
    <3> QED BY <1>1, <3>2, <3>3
  <2> QED BY <1>1, <1>2, <1>6, <1>8, <2>1, <2>2 DEF StreamSound
<1>11. phase # "closed" => MembersTold'
  <2>1. \A u \in Targets : /\ peers'[u].node = peers[u].node
                           /\ peers[u].phase # "none" => peers'[u].phase # "none"
    BY <1>4, <1>6, <1>7
  <2> QED BY <1>2, <2>1, MembersFrame DEF Inv
<1> QED BY <1>2, <1>3, <1>4, <1>6, <1>7, <1>10, <1>11, OneStream

LEMMA BreaksStep ==
    ASSUME Inv, NEW t \in Targets, Breaks(t), Unchanged
    PROVE  Inv'
<1> DEFINE s == [peers[t] EXCEPT !.phase = "dialing", !.source = Nobody, !.lines = <<>>]
<1>1. /\ peers[t].phase = "open"
      /\ UNCHANGED <<alive, edition, hostKnown, synced, members>>
      /\ peers' = [peers EXCEPT ![t].phase = "dialing", ![t].source = Nobody, ![t].lines = <<>>]
      /\ faults' = faults \/ faults' = faults + 1
  BY DEF Breaks, AfterBreak, Fault
<1>2. UNCHANGED <<ready, history, mode, sourceVars>>
  BY DEF Unchanged, clusterVars
<1>3. /\ peers \in [Targets -> Streams] /\ faults \in Nat /\ members \in Versions
  BY DEF Inv, Types, PeerTypes
<1>4. peers[t] \in Streams /\ faults' \in Nat
  BY <1>1, <1>3
<1>5. /\ s \in Streams /\ s.phase = "dialing" /\ s.source = Nobody /\ s.node = peers[t].node
  <2>1. <<>> \in Seq(Nat)
    OBVIOUS
  <2> QED BY <1>4, <2>1 DEF Streams
<1>6. peers' = [peers EXCEPT ![t] = s]
  BY <1>1, <1>3
<1>7. StreamSound(t, peers[t])
  BY DEF Inv, StreamsSound
<1> HIDE DEF s
<1>8. StreamSound(t, s)
  BY <1>1, <1>5, <1>7 DEF StreamSound
<1>9. phase # "closed" => MembersTold'
  <2>1. \A u \in Targets : /\ peers'[u].node = peers[u].node
                           /\ peers[u].phase # "none" => peers'[u].phase # "none"
    BY <1>3, <1>5, <1>6
  <2> QED BY <1>1, <2>1, MembersFrame DEF Inv
<1> QED BY <1>1, <1>2, <1>3, <1>4, <1>5, <1>6, <1>8, <1>9, OneStream

\* A node that another one replaces at its address no longer lives.
LEMMA ReplacedIsDead ==
    ASSUME Inv, NEW t \in Targets, peers[t].phase = "open",
           NEW p \in Replaced(t, peers[t].source)
    PROVE  p \notin alive
<1>1. p = peers[t].node /\ p # Nobody /\ p # peers[t].source
  BY DEF Replaced
<1>2. StreamSound(t, peers[t])
  BY DEF Inv, StreamsSound
<1> QED BY <1>1, <1>2 DEF StreamSound

LEMMA LineStep ==
    ASSUME Inv, NEW t \in Targets, Line(t), Unchanged
    PROVE  Inv'
<1>1. /\ peers[t].phase = "open" /\ peers[t].lines # <<>>
      /\ UNCHANGED <<alive, edition, hostKnown, synced, faults>>
  BY DEF Line
<1>2. UNCHANGED <<ready, history, mode, sourceVars>>
  BY DEF Unchanged, clusterVars
<1>3. /\ peers \in [Targets -> Streams] /\ faults \in Nat /\ members \in Versions
      /\ alive \in SUBSET Processes
  BY DEF Inv, Types, PeerTypes
<1>4. peers[t] \in Streams
  BY <1>3
<1>5. StreamSound(t, peers[t]) /\ AddressesHeldOnce
  BY DEF Inv, StreamsSound
<1>6. Nobody \notin Processes /\ Self \in Processes /\ Self # Nobody
  BY K8sPeersAssumption
<1>7. /\ peers[t].source \in Processes /\ peers[t].source # Nobody
      /\ peers[t].node # Nobody => peers[t].node \in Processes
      /\ peers[t].lines \in Seq(Nat)
  BY <1>1, <1>4, <1>5 DEF StreamSound, Streams
<1>8. CASE peers[t].source = Self
  <2> DEFINE s == [NoPeer EXCEPT !.phase = "self"]
  <2>1. peers' = [peers EXCEPT ![t] = s] /\ UNCHANGED members
    BY <1>8 DEF Line
  <2>2. s = [phase |-> "self", source |-> Nobody, lines |-> <<>>, node |-> Nobody]
    BY DEF NoPeer
  <2>3. s \in Streams /\ s.phase = "self" /\ s.source = Nobody /\ s.node = Nobody
    <3>1. <<>> \in Seq(Nat)
      OBVIOUS
    <3> QED BY <2>2, <3>1 DEF Streams
  <2> HIDE DEF s
  <2>4. StreamSound(t, s)
    BY <1>1, <1>5, <1>6, <2>3 DEF StreamSound
  <2>5. peers[t].node = Nobody
    <3> SUFFICES ASSUME peers[t].node # Nobody
                 PROVE  FALSE
      OBVIOUS
    <3>1. /\ t \in AddressOf[peers[t].node] /\ t \in AddressOf[Self]
          /\ edition[peers[t].node] > 0 /\ peers[t].node # Self
      BY <1>5, <1>7, <1>8 DEF StreamSound
    <3> QED BY <1>5, <1>7, <3>1 DEF AddressesHeldOnce
  <2>6. phase # "closed" => MembersTold'
    <3>1. \A u \in Targets : /\ peers'[u].node = peers[u].node
                             /\ peers[u].phase # "none" => peers'[u].phase # "none"
      BY <1>3, <2>1, <2>3, <2>5
    <3> QED BY <2>1, <3>1, MembersFrame DEF Inv
  <2> QED BY <1>1, <1>2, <1>3, <2>1, <2>3, <2>4, <2>6, OneStream
<1>9. CASE peers[t].source # Self
  <2> DEFINE p == peers[t].source
             kept == [q \in DOMAIN members \ Replaced(t, p) |-> members[q]]
             s == [peers[t] EXCEPT !.lines = Tail(peers[t].lines), !.node = p]
  <2>1. /\ peers' = [peers EXCEPT ![t].lines = Tail(@), ![t].node = p]
        /\ members' = Upserted(kept, p, Head(peers[t].lines))
    BY <1>9 DEF Line
  <2>2. /\ Tail(peers[t].lines) \in Seq(Nat) /\ Head(peers[t].lines) \in Nat
    BY <1>1, <1>7
  <2>3. /\ s \in Streams /\ s.phase = "open" /\ s.source = p /\ s.node = p
    BY <1>1, <1>4, <1>7, <2>2 DEF Streams
  <2>4. peers' = [peers EXCEPT ![t] = s]
    BY <1>3, <2>1
  <2>5. kept \in Versions /\ DOMAIN kept = DOMAIN members \ Replaced(t, p)
    BY <1>3, VersionsRestricted
  <2> HIDE DEF kept, s
  <2>6. members' \in Versions /\ DOMAIN members' = (DOMAIN members \ Replaced(t, p)) \cup {p}
    BY <1>7, <2>1, <2>2, <2>5, VersionsUpserted
  <2>7. StreamSound(t, s)
    BY <1>1, <1>5, <1>9, <2>3 DEF StreamSound
  <2>8. ASSUME phase # "closed", NEW q \in DOMAIN members'
        PROVE  q # Self /\ q \in NodesOf(Entries)'
    <3>1. MembersTold
      BY <2>8 DEF Inv
    <3>2. CASE q = p
      <4>1. t \in Entries' /\ peers'[t].node = p
        BY <1>3, <2>3, <2>4 DEF Entries
      <4> QED BY <1>7, <1>9, <3>2, <4>1 DEF NodesOf
    <3>3. CASE q # p
      <4>1. q \in DOMAIN members /\ q \notin Replaced(t, p)
        BY <2>6, <3>3
      <4>2. PICK u \in Targets : peers[u].phase # "none" /\ peers[u].node = q /\ q # Nobody
        BY <3>1, <4>1 DEF MembersTold, NodesOf, Entries
      <4>3. u # t
        BY <3>3, <4>1, <4>2 DEF Replaced
      <4>4. peers'[u] = peers[u]
        BY <1>3, <2>4, <4>3
      <4> QED BY <3>1, <4>1, <4>2, <4>4 DEF NodesOf, Entries, MembersTold
    <3> QED BY <3>2, <3>3
  <2>9. phase # "closed" => MembersTold'
    BY <2>8 DEF MembersTold
  <2> QED BY <1>1, <1>2, <1>3, <2>3, <2>4, <2>6, <2>7, <2>9, OneStream
<1> QED BY <1>8, <1>9

-----------------------------------------------------------------------------
(* The steps of the source.                                                *)

LEMMA ContentAt ==
    ASSUME Inv, NEW v \in 1..Latest
    PROVE  history[v] \in Contents /\ TargetsIn(history[v]) \in SUBSET Targets
<1>1. history[v] \in Contents
  BY DEF Inv, Types, SourceTypes, Latest
<1> QED BY <1>1, ContentsTargets

\* Nothing is applied.
LEMMA QuietSource ==
    ASSUME Inv, phase # "closed",
           UNCHANGED <<alive, edition, hostKnown, peers, members, ready, history, mode,
                       slices, partial>>,
           phase' \in Phases, version' \in 1..Latest, synced' \in BOOLEAN, faults' \in Nat,
           SourceSound'
    PROVE  Inv'
<1> USE DEF Inv, Types
<1>1. Types'
  BY DEF PeerTypes, SourceTypes, Latest
<1>2. AddressesHeldOnce'
  BY DEF AddressesHeldOnce
<1>3. StreamsSound'
  BY DEF StreamsSound, StreamSound
<1>4. MembersTold'
  BY MembersFrame
<1>5. HistorySteps'
  BY DEF HistorySteps
<1> QED BY <1>1, <1>2, <1>3, <1>4, <1>5

\* A snapshot is applied, which is the whole content of a version unless DNS left out some.
LEMMA ApplyingSource ==
    ASSUME Inv, phase # "closed", NEW snapshot \in SUBSET Targets, Applies(snapshot),
           UNCHANGED <<ready, history, mode>>,
           phase' \in {"opening", "watching", "dns"}, version' \in 1..Latest,
           slices' \in Contents, partial' \in BOOLEAN, faults' \in Nat,
           phase' \in {"opening", "watching"} => slices' = history[version'],
           phase' # "dns" => ~partial',
           ~partial' => snapshot = TargetsIn(history[version'])
    PROVE  Inv'
<1> USE DEF Inv, Types
<1>1. /\ StreamsSound' /\ peers' \in [Targets -> Streams]
      /\ members' \in Versions /\ synced' = TRUE
      /\ Entries' = snapshot \ (IF hostKnown THEN {SelfTarget} ELSE {})
  BY ApplyStreams
<1>2. MembersTold'
  BY ApplyMembers
<1>3. UNCHANGED <<alive, edition, hostKnown>>
  BY DEF Applies
<1>4. Types'
  BY <1>1, <1>3 DEF PeerTypes, SourceTypes, Latest, Phases
<1>5. AddressesHeldOnce'
  BY <1>3 DEF AddressesHeldOnce
<1>6. HistorySteps'
  BY DEF HistorySteps
<1>7. SourceSound'
  <2>1. ~partial' => Entries' = Streamed'
    BY <1>1, <1>3 DEF Streamed
  <2> QED BY <1>1, <2>1 DEF SourceSound
<1> QED BY <1>1, <1>2, <1>4, <1>5, <1>6, <1>7

LEMMA ListReadStep ==
    ASSUME Inv, ListRead
    PROVE  Inv'
<1>1. /\ phase = "list" /\ phase' = "listed" /\ version' = Latest
      /\ UNCHANGED <<slices, partial, peers, synced, members, faults>>
      /\ UNCHANGED <<alive, edition, hostKnown, ready, history, mode>>
  BY DEF ListRead, OnlySource, clusterVars
<1>2. Types /\ SourceSound
  BY DEF Inv
<1>3. phase' \in Phases /\ version' \in 1..Latest /\ synced' \in BOOLEAN /\ faults' \in Nat
  BY <1>1, <1>2 DEF Types, PeerTypes, SourceTypes, Phases, Latest
<1>4. SourceSound'
  BY <1>1, <1>2 DEF SourceSound
<1> QED BY <1>1, <1>3, <1>4, QuietSource

\* The version stays, or is given up for a new list.
LEMMA QuietPhases ==
    ASSUME Inv, UNCHANGED <<version, slices, partial, peers, synced, members>>, OnlySource,
           faults' \in Nat, phase \notin {"listed", "dns", "closed"},
           \/ phase' \in {"list", "denied", "dns"}
           \/ phase' \in {"opening", "watching"} /\ phase \in {"opening", "watching"}
    PROVE  Inv'
<1>1. UNCHANGED <<alive, edition, hostKnown, ready, history, mode>>
  BY DEF OnlySource, clusterVars
<1>2. Types /\ SourceSound
  BY DEF Inv
<1>3. phase' \in Phases /\ version' \in 1..Latest /\ synced' \in BOOLEAN
  BY <1>2 DEF Types, PeerTypes, SourceTypes, Phases, Latest
<1>4. Entries' = Entries /\ Streamed' = Streamed
  BY <1>1 DEF Entries, Streamed
<1>5. SourceSound'
  BY <1>1, <1>2, <1>4 DEF SourceSound
<1> QED BY <1>1, <1>3, <1>5, QuietSource

LEMMA WatchOpensStep ==
    ASSUME Inv, WatchOpens
    PROVE  Inv'
<1>1. faults' \in Nat
  BY DEF WatchOpens, Inv, Types, PeerTypes
<1>2. /\ phase = "opening" /\ phase' \in {"list", "watching"}
      /\ UNCHANGED <<version, slices, partial, peers, synced, members>> /\ OnlySource
  BY DEF WatchOpens, Expired
<1> QED BY <1>1, <1>2, QuietPhases

LEMMA WatchEndsStep ==
    ASSUME Inv, WatchEnds
    PROVE  Inv'
<1>1. faults' \in Nat
  BY DEF WatchEnds, Inv, Types, PeerTypes
<1>2. /\ phase = "watching" /\ phase' \in {"list", "opening"}
      /\ UNCHANGED <<version, slices, partial, peers, synced, members>> /\ OnlySource
  BY DEF WatchEnds, Expired
<1> QED BY <1>1, <1>2, QuietPhases

LEMMA SourceWakesStep ==
    ASSUME Inv, SourceWakes
    PROVE  Inv'
<1>1. faults' \in Nat
  BY DEF SourceWakes, Inv, Types, PeerTypes
<1>2. /\ phase \in {"sleeping", "denied"} /\ phase' = "list"
      /\ UNCHANGED <<version, slices, partial, peers, synced, members>> /\ OnlySource
  BY DEF SourceWakes
<1> QED BY <1>1, <1>2, QuietPhases

LEMMA DeniedStep ==
    ASSUME Inv, Denied
    PROVE  Inv'
<1>1. faults' \in Nat
  BY DEF Denied, Fault, Inv, Types, PeerTypes
<1>2. /\ phase \in {"list", "opening"} /\ phase' \in {"dns", "denied"}
      /\ UNCHANGED <<version, slices, partial, peers, synced, members>> /\ OnlySource
  BY DEF Denied, MayBeDenied
<1> QED BY <1>1, <1>2, QuietPhases

\* In doubt: what is streamed from stays.
LEMMA UnknownStep ==
    ASSUME Inv, SourceFails \/ ResolveFails
    PROVE  Inv'
<1>1. /\ phase \notin {"closed"} /\ phase' \in {"sleeping", "dns"}
      /\ (phase' = "sleeping" => phase \in {"list", "listed", "opening", "watching"})
      /\ faults' = faults + 1 /\ synced' = FALSE
      /\ UNCHANGED <<version, slices, partial, peers, members>>
      /\ UNCHANGED <<alive, edition, hostKnown, ready, history, mode>>
  BY DEF SourceFails, ResolveFails, Fault, Unknown, OnlySource, clusterVars, sourceVars
<1>2. Types /\ SourceSound
  BY DEF Inv
<1>3. phase' \in Phases /\ version' \in 1..Latest /\ synced' \in BOOLEAN /\ faults' \in Nat
  <2>1. faults \in Nat /\ version \in 1..Latest
    BY <1>2 DEF Types, PeerTypes, SourceTypes
  <2>2. phase' \in Phases
    BY <1>1 DEF Phases
  <2>3. faults' \in Nat /\ version' \in 1..Latest
    BY <1>1, <2>1
  <2>4. synced' \in BOOLEAN
    BY <1>1
  <2> QED BY <2>2, <2>3, <2>4
<1>4. SourceSound'
  BY <1>1, <1>2 DEF SourceSound
<1> QED BY <1>1, <1>3, <1>4, QuietSource

LEMMA ListArrivesStep ==
    ASSUME Inv, ListArrives
    PROVE  Inv'
<1>1. /\ phase = "listed" /\ phase' = "opening" /\ slices' = history[version]
      /\ Apply(TargetsIn(slices'))
      /\ UNCHANGED <<version, partial, faults>>
      /\ UNCHANGED <<alive, edition, hostKnown, ready, history, mode>>
  BY DEF ListArrives, OnlySource, clusterVars
<1>2. Types /\ SourceSound
  BY DEF Inv
<1>3. /\ version \in 1..Latest /\ partial = FALSE /\ faults \in Nat
  BY <1>1, <1>2 DEF Types, PeerTypes, SourceTypes, SourceSound
<1>4. history[version] \in Contents /\ TargetsIn(history[version]) \in SUBSET Targets
  BY <1>3, ContentAt
<1>5. Applies(TargetsIn(history[version]))
  BY <1>1 DEF Applies
<1> QED BY <1>1, <1>3, <1>4, <1>5, ApplyingSource

\* The event of a version turns the copy of the version before into that version.
LEMMA ChangedCatchesUp ==
    ASSUME Inv, NEW v \in 1..Latest, v > 1
    PROVE  Changed(history[v - 1], SliceAt(v), history[v]) = history[v]
<1> DEFINE before == history[v - 1]
           after == history[v]
<1>1. v - 1 \in 1..Latest /\ v \in DOMAIN history
  BY DEF Inv, Types, SourceTypes, Latest
<1>2. before \in Contents /\ after \in Contents
  BY <1>1, ContentAt
<1>3. PICK f \in Slices : /\ Differs(before, after, f)
                          /\ \A g \in Slices \ {f} : ~Differs(before, after, g)
  BY <1>1 DEF Inv, HistorySteps
<1>4. SliceAt(v) = CHOOSE g \in Slices : Differs(before, after, g)
  BY DEF SliceAt, Differs
<1> HIDE DEF before, after
<1>5. SliceAt(v) \in Slices /\ Differs(before, after, SliceAt(v))
  BY <1>3, <1>4
<1>6. SliceAt(v) = f
  BY <1>3, <1>5
<1>7. /\ DOMAIN before \subseteq Slices /\ DOMAIN after \subseteq Slices
      /\ after = [g \in DOMAIN after |-> after[g]]
  BY <1>2, ContentsDomain
<1>8. \A g \in Slices \ {f} : /\ g \in DOMAIN after <=> g \in DOMAIN before
                              /\ g \in DOMAIN after => after[g] = before[g]
  BY <1>3 DEF Differs
<1>9. CASE f \in DOMAIN after
  <2> DEFINE new == [g \in DOMAIN before \cup {f} |-> IF g = f THEN after[f] ELSE before[g]]
  <2>1. DOMAIN new = DOMAIN after
    BY <1>7, <1>8, <1>9
  <2>2. \A g \in DOMAIN after : new[g] = after[g]
    BY <1>7, <1>8, <2>1
  <2>3. new = [g \in DOMAIN new |-> new[g]]
    OBVIOUS
  <2>4. Changed(before, f, after) = new
    BY <1>9 DEF Changed
  <2> HIDE DEF new
  <2>5. new = after
    BY <1>7, <2>1, <2>2, <2>3
  <2> QED BY <1>6, <2>4, <2>5 DEF before, after
<1>10. CASE f \notin DOMAIN after
  <2> DEFINE new == [g \in DOMAIN before \ {f} |-> before[g]]
  <2>1. DOMAIN new = DOMAIN after
    BY <1>7, <1>8, <1>10
  <2>2. \A g \in DOMAIN after : new[g] = after[g]
    BY <1>7, <1>8, <1>10, <2>1
  <2>3. new = [g \in DOMAIN new |-> new[g]]
    OBVIOUS
  <2>4. Changed(before, f, after) = new
    BY <1>10 DEF Changed
  <2> HIDE DEF new
  <2>5. new = after
    BY <1>7, <2>1, <2>2, <2>3
  <2> QED BY <1>6, <2>4, <2>5 DEF before, after
<1> QED BY <1>9, <1>10

LEMMA WatchEventStep ==
    ASSUME Inv, WatchEvent
    PROVE  Inv'
<1>1. /\ phase = "watching" /\ version < Latest /\ version' = version + 1
      /\ slices' = Changed(slices, SliceAt(version'), history[version'])
      /\ Apply(TargetsIn(slices'))
      /\ UNCHANGED <<phase, partial, faults>>
      /\ UNCHANGED <<alive, edition, hostKnown, ready, history, mode>>
  BY DEF WatchEvent, OnlySource, clusterVars
<1>2. Types /\ SourceSound
  BY DEF Inv
<1>3. /\ version \in 1..Latest /\ Latest \in Nat /\ partial = FALSE /\ faults \in Nat
      /\ slices = history[version]
  BY <1>1, <1>2 DEF Types, PeerTypes, SourceTypes, SourceSound, Latest
<1>4. /\ version' \in 1..Latest /\ version' > 1 /\ version' - 1 = version
  BY <1>1, <1>3
<1>5. PICK v \in 1..Latest : v = version'
  BY <1>4
<1>6. slices' = history[v]
  BY <1>1, <1>3, <1>4, <1>5, ChangedCatchesUp
<1>7. history[v] \in Contents /\ TargetsIn(history[v]) \in SUBSET Targets
  BY ContentAt
<1>8. Applies(TargetsIn(history[v]))
  BY <1>1, <1>6 DEF Applies
<1> QED BY <1>1, <1>3, <1>5, <1>6, <1>7, <1>8, ApplyingSource

LEMMA ResolvesStep ==
    ASSUME Inv, NEW v \in version..Latest, NEW families \in SUBSET Slices,
           Resolves(v, families), faults' \in Nat
    PROVE  Inv'
<1> DEFINE answer == {t \in TargetsIn(history[v]) : SliceOf[t] \in families}
<1>1. /\ phase = "dns" /\ version' = v /\ Apply(answer) /\ partial' = (families # Slices)
      /\ UNCHANGED <<phase, slices>>
      /\ UNCHANGED <<alive, edition, hostKnown, ready, history, mode>>
  BY DEF Resolves, OnlySource, clusterVars
<1>2. v \in 1..Latest /\ slices \in Contents
  BY DEF Inv, Types, SourceTypes, Latest
<1>3. TargetsIn(history[v]) \in SUBSET Targets
  BY <1>2, ContentAt
<1>4. ~partial' => answer = TargetsIn(history[v])
  BY <1>1, <1>3, K8sDiscoveryAssumption
<1>5. answer \in SUBSET Targets /\ Applies(answer)
  BY <1>1, <1>3 DEF Applies
<1>6. partial' \in BOOLEAN
  BY <1>1
<1> HIDE DEF answer
<1> QED BY <1>1, <1>2, <1>4, <1>5, <1>6, ApplyingSource

LEMMA UnbindStep ==
    ASSUME Inv, Unbind
    PROVE  Inv'
<1> USE DEF Inv, Types
<1>1. /\ phase' = "closed" /\ synced' = FALSE /\ peers' = [t \in Targets |-> NoPeer]
      /\ UNCHANGED <<version, slices, partial, members, faults>>
      /\ UNCHANGED <<alive, edition, hostKnown, ready, history, mode>>
  BY DEF Unbind, SourceStops, OnlySource, clusterVars
<1>2. NoPeer \in Streams /\ NoPeer.phase = "none" /\ NoPeer.source = Nobody /\ NoPeer.node = Nobody
  BY DEF NoPeer, Streams
<1>3. Types'
  BY <1>1, <1>2 DEF PeerTypes, SourceTypes, Phases, Latest
<1>4. AddressesHeldOnce'
  BY <1>1 DEF AddressesHeldOnce
<1>5. Nobody \notin Processes
  BY K8sPeersAssumption
<1>6. StreamsSound'
  BY <1>1, <1>2, <1>5 DEF StreamsSound, StreamSound, PeerTypes
<1>7. SourceSound' /\ HistorySteps'
  BY <1>1 DEF SourceSound, HistorySteps
<1> QED BY <1>1, <1>3, <1>4, <1>6, <1>7

-----------------------------------------------------------------------------
(* The theorems.                                                           *)

LEMMA InitInv == Init => Inv
<1> SUFFICES ASSUME Init PROVE Inv
  OBVIOUS
<1> DEFINE first == [f \in Slices |-> SliceContent(f, AtStart)]
<1>1. /\ alive = AtStart /\ ready = AtStart
      /\ edition = [p \in Processes |-> IF p \in AtStart THEN 1 ELSE 0]
      /\ peers = [t \in Targets |-> NoPeer] /\ synced = FALSE /\ faults = 0
      /\ members = [p \in {} |-> 0] /\ history = <<first>>
      /\ version = 1 /\ slices = [f \in {} |-> {}] /\ partial = FALSE
      /\ phase \in {"dns", "list"}
  BY DEF Init, PeersInit
<1>2. hostKnown \in BOOLEAN /\ mode \in {"auto", "api", "dns"}
  BY K8sDiscoveryAssumption DEF Init
<1>3. /\ NoPeer \in Streams /\ NoPeer.phase = "none" /\ NoPeer.source = Nobody
      /\ NoPeer.node = Nobody
  BY DEF NoPeer, Streams
<1>4. AtStart \subseteq Processes
  BY K8sPeersAssumption
<1>5. DOMAIN members = {} /\ members \in Versions
  BY <1>1, VersionsDomain
<1>6. slices \in Contents
  BY <1>1, ContentsDomain
<1>7. first \in Contents
  <2>1. \A f \in Slices : first[f] \in SUBSET Targets
    BY <1>4, K8sPeersAssumption DEF SliceContent, Addresses
  <2>2. DOMAIN first = Slices /\ first = [f \in DOMAIN first |-> first[f]]
    OBVIOUS
  <2> HIDE DEF first
  <2> QED BY <2>1, <2>2, ContentsDomain
<1> HIDE DEF first
<1>8. history \in Seq(Contents) /\ Latest = 1 /\ DOMAIN history = 1..1
  BY <1>1, <1>7 DEF Latest
<1>9. Types
  <2>1. alive \in SUBSET Processes /\ ready \in SUBSET Processes /\ edition \in [Processes -> Nat]
    BY <1>1, <1>4
  <2>2. peers \in [Targets -> Streams]
    BY <1>1, <1>3
  <2>3. synced \in BOOLEAN /\ partial \in BOOLEAN /\ faults \in Nat
    BY <1>1
  <2>4. phase \in Phases /\ version \in 1..Latest
    BY <1>1, <1>8 DEF Phases
  <2> QED BY <1>2, <1>5, <1>6, <1>8, <2>1, <2>2, <2>3, <2>4 DEF Types, PeerTypes, SourceTypes
<1>10. AddressesHeldOnce
  <2>1. Self \in AtStart /\ \A p, q \in AtStart : p # q => AddressOf[p] \cap AddressOf[q] = {}
    BY K8sPeersAssumption
  <2> QED BY <1>1, <1>4, <2>1 DEF AddressesHeldOnce
<1>11. Nobody \notin Processes
  BY K8sPeersAssumption
<1>12. StreamsSound
  BY <1>1, <1>3, <1>4, <1>11 DEF StreamsSound, StreamSound
<1>13. MembersTold
  BY <1>5 DEF MembersTold
<1>14. HistorySteps /\ SourceSound
  BY <1>1, <1>8 DEF HistorySteps, SourceSound
<1> QED BY <1>9, <1>10, <1>12, <1>13, <1>14 DEF Inv

LEMMA NextInv == Inv /\ [Next]_vars => Inv'
<1> SUFFICES ASSUME Inv, [Next]_vars PROVE Inv'
  OBVIOUS
<1>1. ASSUME NEW p \in Processes,
             Starts(p) \/ Dies(p) \/ ReadinessChanges(p) \/ ProcessEdits(p)
      PROVE  Inv'
  BY <1>1, StartsStep, DiesStep, ReadinessStep, EditsStep
<1>2. ASSUME NEW f \in Slices, SliceChanges(f)
      PROVE  Inv'
  BY <1>2, SliceChangesStep
<1>3. CASE Source
  BY <1>3, ListReadStep, ListArrivesStep, WatchOpensStep, SourceWakesStep DEF Source
<1>4. CASE WatchEvent \/ WatchEnds \/ SourceFails \/ Denied \/ ResolveFails
  BY <1>4, WatchEventStep, WatchEndsStep, UnknownStep, DeniedStep
<1>5. faults \in Nat
  BY DEF Inv, Types, PeerTypes
<1>6. CASE ResolvesCached
  <2>1. PICK v \in version..Latest : Resolves(v, Slices) /\ UNCHANGED faults
    BY <1>6 DEF ResolvesCached
  <2>2. Slices \in SUBSET Slices
    OBVIOUS
  <2> QED BY <1>5, <2>1, <2>2, ResolvesStep
<1>7. CASE ResolvesPartly
  <2>1. PICK v \in version..Latest, f \in Slices : Resolves(v, {f}) /\ Fault
    BY <1>7 DEF ResolvesPartly
  <2>2. {f} \in SUBSET Slices /\ faults' \in Nat
    BY <1>5, <2>1 DEF Fault
  <2> QED BY <2>1, <2>2, ResolvesStep
<1>8. ASSUME NEW t \in Targets, PeerSteps(t) \/ PeerBreaks(t)
      PROVE  Inv'
  BY <1>8, LineStep, ConnectsStep, BreaksStep DEF PeerSteps, PeerBreaks
<1>9. CASE Unbind
  BY <1>9, UnbindStep
<1>10. CASE UNCHANGED vars
  <2>1. /\ UNCHANGED <<alive, edition, hostKnown, peers, synced, members, faults>>
        /\ UNCHANGED <<phase, version, slices, partial, ready, history, mode>>
    BY <1>10 DEF vars, peerVars, sourceVars, clusterVars
  <2>2. Entries' = Entries /\ Streamed' = Streamed
    BY <2>1 DEF Entries, Streamed
  <2>3. SourceSound' /\ HistorySteps' /\ StreamsSound' /\ AddressesHeldOnce' /\ Types'
    BY <2>1, <2>2 DEF Inv, SourceSound, HistorySteps, StreamsSound, StreamSound,
                      AddressesHeldOnce, Types, PeerTypes, SourceTypes, Latest
  <2>4. (phase # "closed" => MembersTold)'
    BY <2>1, MembersFrame DEF Inv
  <2> QED BY <2>3, <2>4 DEF Inv
<1> QED BY <1>1, <1>2, <1>3, <1>4, <1>6, <1>7, <1>8, <1>9, <1>10 DEF Next

\* What a step may not do to a node whose pod was always listed.
ReadyNodesKept ==
    \A p \in DOMAIN members :
        p \in alive /\ AlwaysListed(p) /\ ~partial' => p \in DOMAIN members'

\* A whole version lists whatever was always listed.
LEMMA AppliedVersionKeeps ==
    ASSUME Inv, phase # "closed", NEW v \in 1..Latest, Applies(TargetsIn(history[v])),
           NEW p \in DOMAIN members, AlwaysListed(p)
    PROVE  p \in DOMAIN members'
<1>1. TargetsIn(history[v]) \in SUBSET Targets /\ v \in DOMAIN history
  BY ContentAt DEF Inv, Types, SourceTypes, Latest
<1>2. PeerTypes /\ MembersTold /\ StreamsSound
  BY DEF Inv, Types
<1>3. ASSUME NEW t \in Targets, peers[t].node = p
      PROVE  t \in TargetsIn(history[v])
  <2>1. p # Nobody
    BY <1>2 DEF MembersTold, NodesOf
  <2>2. t \in AddressOf[p]
    BY <1>2, <1>3, <2>1 DEF StreamsSound, StreamSound
  <2> QED BY <1>1, <2>2 DEF AlwaysListed
<1> QED BY <1>1, <1>2, <1>3, ApplyMembers

LEMMA ReadyNodesStep == Inv /\ [Next]_vars => [ReadyNodesKept]_vars
<1> SUFFICES ASSUME Inv, Next, NEW p \in DOMAIN members,
                    p \in alive, AlwaysListed(p), ~partial'
             PROVE  p \in DOMAIN members'
  BY DEF ReadyNodesKept
<1>1. /\ members \in Versions /\ version \in 1..Latest /\ Latest \in Nat
      /\ peers \in [Targets -> Streams] /\ SourceSound
  BY DEF Inv, Types, PeerTypes, SourceTypes, Latest
<1>2. CASE UNCHANGED members
  BY <1>2
<1>3. CASE ListArrives
  <2>1. /\ phase = "listed" /\ slices' = history[version] /\ Apply(TargetsIn(slices'))
        /\ UNCHANGED <<alive, edition, hostKnown>>
    BY <1>3 DEF ListArrives, OnlySource
  <2>2. Applies(TargetsIn(history[version]))
    BY <2>1 DEF Applies
  <2> QED BY <1>1, <2>1, <2>2, AppliedVersionKeeps
<1>4. CASE WatchEvent
  <2>1. /\ phase = "watching" /\ version < Latest /\ version' = version + 1
        /\ slices' = Changed(slices, SliceAt(version'), history[version'])
        /\ Apply(TargetsIn(slices'))
        /\ UNCHANGED <<alive, edition, hostKnown>>
    BY <1>4 DEF WatchEvent, OnlySource
  <2>2. slices = history[version]
    BY <1>1, <2>1 DEF SourceSound
  <2>3. PICK v \in 1..Latest : v = version' /\ v > 1 /\ v - 1 = version
    BY <1>1, <2>1
  <2>4. slices' = history[v]
    BY <2>1, <2>2, <2>3, ChangedCatchesUp
  <2>5. Applies(TargetsIn(history[v]))
    BY <2>1, <2>4 DEF Applies
  <2> QED BY <2>1, <2>5, AppliedVersionKeeps
<1>5. ASSUME NEW v \in version..Latest, NEW families, Resolves(v, families)
      PROVE  p \in DOMAIN members'
  <2> DEFINE answer == {t \in TargetsIn(history[v]) : SliceOf[t] \in families}
  <2>1. /\ phase = "dns" /\ Apply(answer) /\ partial' = (families # Slices)
        /\ UNCHANGED <<alive, edition, hostKnown>>
    BY <1>5 DEF Resolves, OnlySource
  <2>2. v \in 1..Latest
    BY <1>1
  <2>3. TargetsIn(history[v]) \in SUBSET Targets /\ families = Slices
    BY <2>1, <2>2, ContentAt
  <2>4. answer = TargetsIn(history[v])
    BY <2>3, K8sDiscoveryAssumption
  <2>5. Applies(TargetsIn(history[v]))
    BY <2>1, <2>4 DEF Applies
  <2> QED BY <2>1, <2>2, <2>5, AppliedVersionKeeps
<1>6. ASSUME NEW t \in Targets, Line(t)
      PROVE  p \in DOMAIN members'
  <2>1. peers[t].phase = "open" /\ peers[t].lines # <<>>
    BY <1>6 DEF Line
  <2>2. CASE peers[t].source = Self
    BY <1>6, <2>2 DEF Line
  <2>3. CASE peers[t].source # Self
    <3> DEFINE q == peers[t].source
               kept == [o \in DOMAIN members \ Replaced(t, q) |-> members[o]]
    <3>1. members' = Upserted(kept, q, Head(peers[t].lines))
      BY <1>6, <2>3 DEF Line
    <3>2. p \notin Replaced(t, q)
      BY <2>1, ReplacedIsDead
    <3>3. kept \in Versions /\ DOMAIN kept = DOMAIN members \ Replaced(t, q)
      BY <1>1, VersionsRestricted
    <3>4. StreamSound(t, peers[t]) /\ peers[t] \in Streams
      BY <1>1 DEF Inv, StreamsSound
    <3>5. q \in Processes /\ Head(peers[t].lines) \in Nat
      BY <2>1, <3>4 DEF StreamSound, Streams
    <3> HIDE DEF kept, q
    <3>6. DOMAIN members' = DOMAIN kept \cup {q}
      BY <3>1, <3>3, <3>5, VersionsUpserted
    <3> QED BY <3>2, <3>3, <3>6
  <2> QED BY <2>2, <2>3
<1>7. CASE \E n \in Processes : Starts(n) \/ Dies(n) \/ ReadinessChanges(n) \/ ProcessEdits(n)
  BY <1>2, <1>7 DEF Starts, Dies, ReadinessChanges, ProcessEdits, Edits, OnlyCluster
<1>8. CASE \E f \in Slices : SliceChanges(f)
  BY <1>2, <1>8 DEF SliceChanges, OnlyCluster
<1>9. CASE ListRead \/ WatchOpens \/ SourceWakes \/ WatchEnds \/ SourceFails \/ Denied \/ ResolveFails
  BY <1>2, <1>9 DEF ListRead, WatchOpens, SourceWakes, WatchEnds, SourceFails, Denied,
                    ResolveFails, Unknown
<1>10. CASE ResolvesCached \/ ResolvesPartly
  BY <1>5, <1>10 DEF ResolvesCached, ResolvesPartly
<1>11. CASE \E t \in Targets : PeerSteps(t) \/ PeerBreaks(t)
  BY <1>2, <1>6, <1>11 DEF PeerSteps, PeerBreaks, Connects, Breaks
<1>12. CASE Unbind
  BY <1>2, <1>12 DEF Unbind
<1> QED BY <1>3, <1>4, <1>7, <1>8, <1>9, <1>10, <1>11, <1>12 DEF Next, Source

LEMMA Safety == Spec => []Inv
BY InitInv, NextInv, PTL DEF Spec

\* Every variable has the shape the code gives it, in particular Topology's members and the
\* slices are maps, for any processes, addresses and slices (KubernetesDiscovery.ts:80-100).
THEOREM TypesCorrect == Spec => []Types
<1>1. Inv => Types
  BY DEF Inv
<1> QED BY <1>1, Safety, PTL

\* The client's slices and streams are those of its resourceVersion, through any order of
\* lists, events, deleted slices, expired versions and failures (membership.ts:103-105).
THEOREM PeersFollow == Spec => []PeersAreCurrent
<1>1. Inv => PeersAreCurrent
  BY DEF Inv, SourceSound, PeersAreCurrent, Streamed
<1> QED BY <1>1, Safety, PTL

\* Topology has no member that a stream of the membership has not told of, and never this
\* process itself (KubernetesDiscovery.ts:258, 276-277).
THEOREM NoGhosts == Spec => []MembersArePeers
<1>1. Inv => MembersArePeers
  BY DEF Inv, MembersTold, MembersArePeers
<1> QED BY <1>1, Safety, PTL

\* A process that lives and whose pod was always listed is not removed, whatever happens to
\* watch, list, DNS or its stream, but for an answer of DNS that lacks a family
\* (KubernetesDiscovery.ts:237, NodeStream.ts:23-24).
THEOREM ReadyNodesStay == Spec => KeepsReadyNodesUnlessPartial
<1>1. Inv /\ [Next]_vars => [ReadyNodesKept]_vars
  BY ReadyNodesStep
<1>2. ReadyNodesKept <=>
        \A p \in DOMAIN members :
            p \in alive /\ AlwaysListed(p) /\ ~partial' => p \in DOMAIN members'
  BY DEF ReadyNodesKept
<1> QED BY <1>1, <1>2, Safety, PTL DEF Spec, KeepsReadyNodesUnlessPartial

=============================================================================
