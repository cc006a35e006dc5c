--------------------------- MODULE EventMeshProofs ---------------------------
(***************************************************************************)
(* Theorems about EventMesh, for every value of its constants: discovery   *)
(* keeps what a publisher knows of the others current, and an event that   *)
(* was published without an error has reached all who were to hear it.     *)
(***************************************************************************)
EXTENDS EventMesh, TLAPS, FiniteSetTheorems, SequenceTheorems

-----------------------------------------------------------------------------
(* Discovery: the invariant.                                               *)

Frames == [type : {"hello"}, node : Nodes, me : Snapshots] \cup [type : {"offline"}, node : Nodes]

Heeds(n) == client[n].phase \in {"connecting", "open"} /\ far[Current(n)] = "open"

DiscoveryTypes ==
    /\ local \in [Nodes -> Snapshots]
    /\ client \in [Nodes -> [phase : {"waiting", "connecting", "open", "closed", "stalled"},
                             sockets : Nat]]
    /\ \A n \in Nodes : client[n].phase \in {"connecting", "open"} => Current(n) \in Sockets
    /\ DOMAIN directory = Nodes /\ DOMAIN leftover = Nodes /\ DOMAIN members = Nodes
    /\ \A n \in Nodes : DOMAIN members[n] \subseteq Nodes
    /\ far \in [Sockets -> {"unused", "open", "closed"}]
    /\ up \in [Sockets -> Seq(Snapshots)]
    /\ down \in [Sockets -> Seq(Frames)]
    /\ DOMAIN metadata \subseteq Nodes
    /\ \A x \in DOMAIN metadata : metadata[x] \in Snapshots

\* What a snapshot of node x may say: it is not newer than the node, and where it names
\* an event transporter, that is one of the node.
Own(x, snapshot) ==
    \A i \in Instances : LET j == snapshot.transporters[NameOf[i]] IN
        j \in Instances => HomeOf[j] = x
Genuine(x, snapshot) == snapshot.version <= local[x].version /\ Own(x, snapshot)

SnapshotsAreGenuine ==
    /\ \A x \in Nodes : Own(x, local[x])
    /\ \A s \in Sockets : \A k \in 1..Len(up[s]) : Genuine(Owner(s), up[s][k])
    /\ \A s \in Sockets : \A k \in 1..Len(down[s]) :
         down[s][k].type = "hello" => Genuine(down[s][k].node, down[s][k].me)
    /\ \A x \in DOMAIN metadata : Genuine(x, metadata[x])
    /\ \A n \in Nodes : \A x \in DOMAIN members[n] :
         members[n][x] \in Snapshots /\ Genuine(x, members[n][x])

MetricsAreExact == metrics = Metrics(metadata)

SocketsAreFresh ==
    \A s \in Sockets : s[2] > client[Owner(s)].sockets => far[s] = "unused"

\* Whom the client knows from its socket, and not only from one that ended in an error.
HeardOf(n) == DOMAIN directory[n] \ leftover[n]

WaitersHeardNobody ==
    \A n \in Nodes : client[n].phase \in {"waiting", "connecting"} => HeardOf(n) = {}

OneSocketEach ==
    \A s, t \in Sockets :
        far[s] = "open" /\ far[t] = "open" /\ Owner(s) = Owner(t) /\ s # t => Owner(s) \in overlap

\* What is on its way to the server ends with what the node is.
Learns(x) ==
    LET q == up[Current(x)] IN
    /\ q = <<>> => x \in DOMAIN metadata /\ metadata[x] = local[x]
    /\ q # <<>> => q[Len(q)] = local[x]

ServerLearns == \A x \in Nodes \ overlap : Linked(x) => Learns(x)

Silent(q, x) == \A k \in 1..Len(q) : q[k].node # x
LastWord(q, x, k) ==
    k \in 1..Len(q) /\ q[k].node = x /\ \A j \in 1..Len(q) : j > k => q[j].node # x

\* The last word on a node that is on its way to a client is what the server knows of it,
\* and without a word the client knows it: known are the nodes it has heard of.
Tells(q, x, known, remote, meta) ==
    /\ Silent(q, x) =>
         /\ x \in known <=> x \in DOMAIN meta
         /\ x \in DOMAIN meta => /\ x \in DOMAIN remote
                                 /\ remote[x] = meta[x] \/ remote[x].version > meta[x].version
    /\ \A k \in 1..Len(q) : LastWord(q, x, k) =>
         /\ x \in DOMAIN meta => q[k] = Hello(x, meta[x])
         /\ x \notin DOMAIN meta => q[k] = Offline(x)

Follows(n, x) == Tells(down[Current(n)], x, HeardOf(n), members[n], metadata)

ClientsFollow == \A n \in Nodes : Heeds(n) => \A x \in Nodes \ {n} : Follows(n, x)

DiscoveryInv ==
    /\ DiscoveryTypes /\ SnapshotsAreGenuine /\ MetricsAreExact /\ SocketsAreFresh
    /\ WaitersHeardNobody /\ OneSocketEach /\ ServerLearns /\ ClientsFollow

-----------------------------------------------------------------------------
(* The buses: the invariant.                                               *)

BusTypes ==
    /\ transporters \in [Nodes -> Seq(Instances)]
    /\ references \in [Nodes -> [Topics -> Nat]]
    /\ listeners \in [Links -> Nat]
    /\ serving \in [Instances -> {"starting", "listening", "closed"}]

\* The transporters of a process are its own, and have different names.
TransportersAreApart ==
    \A n \in Nodes : \A k, j \in 1..Len(transporters[n]) :
        /\ HomeOf[transporters[n][k]] = n
        /\ NameOf[transporters[n][k]] = NameOf[transporters[n][j]] => k = j

Audience(n, t) == {l \in Links : HostOf[l] = n /\ TopicOf[l] = t /\ listeners[l] > 0}

ReferencesAreExact ==
    \A n \in Nodes : \A t \in Topics : references[n][t] = Cardinality(Audience(n, t))

TopicsAreAnnounced ==
    \A n \in Nodes : local[n].topics = {t \in Topics : references[n][t] > 0}

EndpointsAreAnnounced ==
    \A i \in Instances :
        local[HomeOf[i]].transporters[NameOf[i]] = i <=> Registered(i) /\ serving[i] # "starting"

BusInv ==
    /\ BusTypes /\ TransportersAreApart /\ ReferencesAreExact
    /\ TopicsAreAnnounced /\ EndpointsAreAnnounced

-----------------------------------------------------------------------------
(* Publishing: the invariant.                                              *)

Session == [phase : {"connecting", "open"}, to : Instances]
PostPhases == {"none", "sent", "heard", "done", "failed", "ended", "closed"}

PubsubTypes ==
    /\ sessions \in [Instances -> [Nodes -> Session \cup {NoSession}]]
    /\ posts \in [Messages -> [Instances -> [Nodes -> [phase : PostPhases]]]]
    /\ sender \in [Messages -> [phase : {"sent"}, by : Links] \cup {Unsent}]
    /\ heard \in [Messages -> [Links -> Nat]]
    /\ owed \in [Messages -> SUBSET Links]

\* A session leads to a transporter of its node, and stays while it has requests.
SessionsLeadHome ==
    \A i \in Instances : \A x \in Nodes :
        /\ sessions[i][x] # NoSession => HomeOf[sessions[i][x].to] = x
        /\ \A m \in Messages : posts[m][i][x].phase \in {"sent", "heard"} => sessions[i][x] # NoSession

NothingBeforeSending ==
    \A m \in Messages : sender[m] = Unsent =>
        /\ \A i \in Instances : \A x \in Nodes : posts[m][i][x] = NoPost
        /\ \A l \in Links : heard[m][l] = 0
        /\ owed[m] = {}

\* What becomes of a request: until it is lost, who is owed the event hears it there.
Serves(m, i, x, l) ==
    /\ posts[m][i][x].phase # "none"
    /\ \/ heard[m][l] > 0
       \/ posts[m][i][x].phase \in {"failed", "ended", "closed"}
       \/ posts[m][i][x].phase = "sent" /\ Hears(l, sessions[i][x].to)

OwedAreServed ==
    \A m \in Messages : \A l \in owed[m] :
        /\ listeners[l] > 0 /\ TopicOf[l] = TopicOf[sender[m].by]
        /\ \E i \in Instances : \E x \in Nodes : Serves(m, i, x, l)

\* A link that does not fan out posts through one transporter, to each node once.
PostedOnce ==
    \A m \in Messages : sender[m] # Unsent /\ RequestedBy[sender[m].by] # "fanout" =>
        /\ \A i, j \in Instances : \A x, y \in Nodes :
             posts[m][i][x].phase # "none" /\ posts[m][j][y].phase # "none" => i = j
        /\ \A l \in Links :
             /\ heard[m][l] <= 1
             /\ heard[m][l] = 1 => \A i \in Instances : posts[m][i][HostOf[l]].phase # "sent"

PubsubInv ==
    /\ PubsubTypes /\ SessionsLeadHome /\ NothingBeforeSending /\ OwedAreServed /\ PostedOnce

EventInv == DiscoveryInv /\ BusInv /\ PubsubInv

-----------------------------------------------------------------------------
(* Maps, sockets and frames.                                               *)

LEMMA PutParts ==
    ASSUME NEW map, NEW i, NEW value
    PROVE  /\ DOMAIN Put(map, i, value) = DOMAIN map \cup {i}
           /\ Put(map, i, value)[i] = value
           /\ \A j \in DOMAIN map : j # i => Put(map, i, value)[j] = map[j]
  BY DEF Put

LEMMA DeleteParts ==
    ASSUME NEW map, NEW i
    PROVE  /\ DOMAIN Delete(map, i) = DOMAIN map \ {i}
           /\ \A j \in DOMAIN map : j # i => Delete(map, i)[j] = map[j]
  BY DEF Delete

LEMMA SocketParts ==
    ASSUME NEW s \in Sockets
    PROVE  /\ Owner(s) \in Nodes /\ s[2] \in 1..MaxSockets[Owner(s)] /\ s[2] \in Nat
           /\ s = <<Owner(s), s[2]>>
<1>1. PICK n \in Nodes : s \in {n} \X (1..MaxSockets[n])
  BY DEF Sockets
<1>2. s[1] = n /\ s[2] \in 1..MaxSockets[n] /\ s = <<s[1], s[2]>>
  BY <1>1
<1>3. MaxSockets[n] \in Nat
  BY WsDiscoveryAssumption
<1> QED BY <1>1, <1>2, <1>3 DEF Owner

LEMMA SocketMade ==
    ASSUME NEW n \in Nodes, NEW k \in 1..MaxSockets[n]
    PROVE  <<n, k>> \in Sockets /\ Owner(<<n, k>>) = n /\ <<n, k>>[2] = k
  BY DEF Sockets, Owner

LEMMA CurrentParts ==
    ASSUME NEW n \in Nodes
    PROVE  Owner(Current(n)) = n /\ Current(n)[2] = client[n].sockets
  BY DEF Owner, Current

LEMMA FrameTypes ==
    /\ \A n \in Nodes, snapshot \in Snapshots : Hello(n, snapshot) \in Frames
    /\ \A n \in Nodes : Offline(n) \in Frames
<1>1. \A n \in Nodes, snapshot \in Snapshots : Hello(n, snapshot) \in Frames
  BY DEF Hello, Frames
<1>2. \A n \in Nodes : Offline(n) \in Frames
  BY DEF Offline, Frames
<1> QED BY <1>1, <1>2

LEMMA FrameParts ==
    /\ \A n, snapshot : /\ Hello(n, snapshot).type = "hello" /\ Hello(n, snapshot).node = n
                        /\ Hello(n, snapshot).me = snapshot
    /\ \A n : Offline(n).type = "offline" /\ Offline(n).node = n
    /\ \A f \in Frames : /\ f.type \in {"hello", "offline"} /\ f.node \in Nodes
                         /\ f.type = "hello" => f.me \in Snapshots /\ f = Hello(f.node, f.me)
<1>1. \A n, snapshot : /\ Hello(n, snapshot).type = "hello" /\ Hello(n, snapshot).node = n
                       /\ Hello(n, snapshot).me = snapshot
  BY DEF Hello
<1>2. \A n : Offline(n).type = "offline" /\ Offline(n).node = n
  BY DEF Offline
<1>3. \A f \in Frames : /\ f.type \in {"hello", "offline"} /\ f.node \in Nodes
                        /\ f.type = "hello" => f.me \in Snapshots
  BY DEF Frames
<1>4. \A f \in Frames : f.type = "hello" => f = Hello(f.node, f.me)
  BY DEF Frames, Hello
<1> QED BY <1>1, <1>2, <1>3, <1>4

\* A sequence that lists a finite set.
LEMMA SetToSeqLists ==
    ASSUME NEW S, IsFiniteSet(S)
    PROVE  /\ SetToSeq(S) \in Seq(S)
           /\ \A e \in S : \E k \in 1..Len(SetToSeq(S)) : SetToSeq(S)[k] = e
           /\ Len(SetToSeq(S)) = Cardinality(S)
<1>1. PICK c : c = Cardinality(S)
  OBVIOUS
<1>2. c \in Nat /\ ExistsBijection(1..c, S)
  BY <1>1, FS_CardinalityType
<1>3. \E list \in [1..c -> S] : IsInjective(list)
  BY <1>2 DEF ExistsBijection, Bijection, Injection
<1>4. PICK list : list = SetToSeq(S)
  OBVIOUS
<1>5. list \in [1..c -> S] /\ IsInjective(list)
  BY <1>1, <1>3, <1>4 DEF SetToSeq
<1>6. list \in Injection(1..c, S)
  BY <1>5 DEF Injection
<1>7. Cardinality(1..c) = c
  <2>1. 0 \in Int /\ 1 \in Int /\ c \in Int
    BY <1>2
  <2>2. Cardinality(1..c) = IF 1 > c THEN 0 ELSE c - 1 + 1
    BY <2>1, FS_Interval
  <2> QED BY <1>2, <2>2
<1>8. list \in Surjection(1..c, S)
  BY <1>1, <1>6, <1>7, FS_Injection
<1>9. \A e \in S : \E k \in 1..c : list[k] = e
  BY <1>8 DEF Surjection
<1>10. list \in Seq(S) /\ Len(list) = c
  BY <1>2, <1>5
<1> QED BY <1>1, <1>4, <1>9, <1>10

-----------------------------------------------------------------------------
(* The last word of a queue.                                               *)

LEMMA AppendParts ==
    ASSUME NEW S, NEW q \in Seq(S), NEW f \in S
    PROVE  /\ Append(q, f) \in Seq(S) /\ Len(q) \in Nat /\ Len(Append(q, f)) = Len(q) + 1
           /\ Append(q, f)[Len(q) + 1] = f
           /\ \A k \in 1..Len(q) : Append(q, f)[k] = q[k]
  OBVIOUS

LEMMA TailParts ==
    ASSUME NEW S, NEW q \in Seq(S), q # <<>>
    PROVE  /\ Tail(q) \in Seq(S) /\ Len(q) \in Nat \ {0} /\ Len(Tail(q)) = Len(q) - 1
           /\ Head(q) = q[1] /\ Head(q) \in S
           /\ \A k \in 1..(Len(q) - 1) : Tail(q)[k] = q[k + 1]
  OBVIOUS

LEMMA AppendWords ==
    ASSUME NEW q \in Seq(Frames), NEW f \in Frames, NEW x
    PROVE  /\ Silent(Append(q, f), x) => Silent(q, x) /\ f.node # x
           /\ \A k \in 1..Len(Append(q, f)) : LastWord(Append(q, f), x, k) =>
                \/ k = Len(q) + 1 /\ f.node = x
                \/ k \in 1..Len(q) /\ f.node # x /\ LastWord(q, x, k)
<1>1. PICK p : p = Append(q, f)
  OBVIOUS
<1>2. PICK size : size = Len(q)
  OBVIOUS
<1>3. /\ size \in Nat /\ Len(p) = size + 1 /\ p[size + 1] = f
      /\ \A k \in 1..size : p[k] = q[k]
  BY <1>1, <1>2, AppendParts
<1>4. Silent(p, x) => Silent(q, x) /\ f.node # x
  BY <1>2, <1>3 DEF Silent
<1>5. ASSUME NEW k \in 1..Len(p), LastWord(p, x, k)
      PROVE  \/ k = size + 1 /\ f.node = x
             \/ k \in 1..size /\ f.node # x /\ LastWord(q, x, k)
  <2>1. p[k].node = x /\ \A j \in 1..(size + 1) : j > k => p[j].node # x
    BY <1>3, <1>5 DEF LastWord
  <2>2. CASE k = size + 1
    BY <1>3, <2>1, <2>2
  <2>3. CASE k # size + 1
    <3>1. k \in 1..size /\ size + 1 > k
      BY <1>3, <2>3
    <3>2. f.node # x
      BY <1>3, <2>1, <3>1
    <3>3. q[k].node = x /\ \A j \in 1..size : j > k => q[j].node # x
      BY <1>3, <2>1, <3>1
    <3> QED BY <1>2, <3>1, <3>2, <3>3 DEF LastWord
  <2> QED BY <2>2, <2>3
<1> QED BY <1>1, <1>2, <1>4, <1>5

LEMMA TailWords ==
    ASSUME NEW q \in Seq(Frames), q # <<>>, NEW x
    PROVE  /\ Silent(Tail(q), x) => IF Head(q).node = x THEN LastWord(q, x, 1) ELSE Silent(q, x)
           /\ \A k \in 1..Len(Tail(q)) : LastWord(Tail(q), x, k) =>
                k + 1 \in 1..Len(q) /\ Tail(q)[k] = q[k + 1] /\ LastWord(q, x, k + 1)
           /\ 1 \in 1..Len(q) /\ Head(q) = q[1]
<1>1. PICK p : p = Tail(q)
  OBVIOUS
<1>2. PICK size : size = Len(q)
  OBVIOUS
<1>3. /\ size \in Nat \ {0} /\ Len(p) = size - 1 /\ Head(q) = q[1]
      /\ \A k \in 1..(size - 1) : p[k] = q[k + 1]
  BY <1>1, <1>2, TailParts
<1>4. \A j \in 1..size : j > 1 => j - 1 \in 1..(size - 1) /\ q[j] = p[j - 1]
  BY <1>3
<1>5. ASSUME Silent(p, x)
      PROVE  IF q[1].node = x THEN LastWord(q, x, 1) ELSE Silent(q, x)
  <2>1. \A k \in 1..(size - 1) : p[k].node # x
    BY <1>3, <1>5 DEF Silent
  <2>2. \A j \in 1..size : j > 1 => q[j].node # x
    BY <1>4, <2>1
  <2>3. \A j \in 1..size : j = 1 \/ j > 1
    BY <1>3
  <2>4. 1 \in 1..size
    BY <1>3
  <2> QED BY <1>2, <2>2, <2>3, <2>4 DEF LastWord, Silent
<1>6. ASSUME NEW k \in 1..Len(p), LastWord(p, x, k)
      PROVE  k + 1 \in 1..size /\ p[k] = q[k + 1] /\ LastWord(q, x, k + 1)
  <2>1. k \in 1..(size - 1) /\ k + 1 \in 1..size /\ p[k] = q[k + 1]
    BY <1>3
  <2>2. p[k].node = x /\ \A j \in 1..(size - 1) : j > k => p[j].node # x
    BY <1>3, <1>6 DEF LastWord
  <2>3. ASSUME NEW j \in 1..size, j > k + 1
        PROVE  q[j].node # x
    <3>1. j - 1 \in 1..(size - 1) /\ j - 1 > k /\ q[j] = p[j - 1]
      BY <1>3, <1>4, <2>1, <2>3
    <3> QED BY <2>2, <3>1
  <2> QED BY <1>2, <2>1, <2>2, <2>3 DEF LastWord
<1>7. 1 \in 1..size
  BY <1>3
<1> QED BY <1>1, <1>2, <1>3, <1>5, <1>6, <1>7

\* The server hears from m, and tells the client.
LEMMA TellsHello ==
    ASSUME NEW q \in Seq(Frames), NEW x \in Nodes, NEW known, NEW remote, NEW meta,
           NEW m \in Nodes, NEW snapshot \in Snapshots, Tells(q, x, known, remote, meta)
    PROVE  Tells(Append(q, Hello(m, snapshot)), x, known, remote, Put(meta, m, snapshot))
<1>1. PICK f \in Frames : f = Hello(m, snapshot) /\ f.node = m
  BY FrameTypes, FrameParts
<1>2. PICK after : after = Put(meta, m, snapshot)
  OBVIOUS
<1>3. /\ DOMAIN after = DOMAIN meta \cup {m} /\ after[m] = snapshot
      /\ \A j \in DOMAIN meta : j # m => after[j] = meta[j]
  <2>1. /\ DOMAIN Put(meta, m, snapshot) = DOMAIN meta \cup {m}
        /\ Put(meta, m, snapshot)[m] = snapshot
        /\ \A j \in DOMAIN meta : j # m => Put(meta, m, snapshot)[j] = meta[j]
    BY DEF Put
  <2> QED BY <1>2, <2>1
<1>4. PICK p : p = Append(q, f)
  OBVIOUS
<1>5. /\ Len(q) \in Nat /\ Len(p) = Len(q) + 1 /\ p[Len(q) + 1] = f
      /\ \A k \in 1..Len(q) : p[k] = q[k]
  BY <1>4, AppendParts
<1>6. /\ Silent(p, x) => Silent(q, x) /\ m # x
      /\ \A k \in 1..Len(p) : LastWord(p, x, k) =>
           \/ k = Len(q) + 1 /\ m = x
           \/ k \in 1..Len(q) /\ m # x /\ LastWord(q, x, k)
  BY <1>1, <1>4, AppendWords
<1>7. m # x => (x \in DOMAIN after <=> x \in DOMAIN meta) /\ (x \in DOMAIN meta => after[x] = meta[x])
  BY <1>3
<1>8. Silent(p, x) =>
         /\ x \in known <=> x \in DOMAIN after
         /\ x \in DOMAIN after => /\ x \in DOMAIN remote
                                  /\ remote[x] = after[x] \/ remote[x].version > after[x].version
  BY <1>6, <1>7 DEF Tells
<1>9. ASSUME NEW k \in 1..Len(p), LastWord(p, x, k)
      PROVE  /\ x \in DOMAIN after => p[k] = Hello(x, after[x])
             /\ x \notin DOMAIN after => p[k] = Offline(x)
  <2>1. CASE k = Len(q) + 1 /\ m = x
    BY <1>1, <1>3, <1>5, <2>1
  <2>2. CASE k \in 1..Len(q) /\ m # x /\ LastWord(q, x, k)
    BY <1>5, <1>7, <2>2 DEF Tells
  <2> QED BY <1>6, <1>9, <2>1, <2>2
<1> QED BY <1>1, <1>2, <1>4, <1>8, <1>9 DEF Tells

LEMMA TellsOffline ==
    ASSUME NEW q \in Seq(Frames), NEW x \in Nodes, NEW known, NEW remote, NEW meta,
           NEW m \in Nodes, Tells(q, x, known, remote, meta)
    PROVE  Tells(Append(q, Offline(m)), x, known, remote, Delete(meta, m))
<1>1. PICK f \in Frames : f = Offline(m) /\ f.node = m
  BY FrameTypes, FrameParts
<1>2. PICK after : after = Delete(meta, m)
  OBVIOUS
<1>3. /\ DOMAIN after = DOMAIN meta \ {m}
      /\ \A j \in DOMAIN meta : j # m => after[j] = meta[j]
  BY <1>2, DeleteParts
<1>4. PICK p : p = Append(q, f)
  OBVIOUS
<1>5. /\ Len(q) \in Nat /\ Len(p) = Len(q) + 1 /\ p[Len(q) + 1] = f
      /\ \A k \in 1..Len(q) : p[k] = q[k]
  BY <1>4, AppendParts
<1>6. /\ Silent(p, x) => Silent(q, x) /\ m # x
      /\ \A k \in 1..Len(p) : LastWord(p, x, k) =>
           \/ k = Len(q) + 1 /\ m = x
           \/ k \in 1..Len(q) /\ m # x /\ LastWord(q, x, k)
  BY <1>1, <1>4, AppendWords
<1>7. m # x => (x \in DOMAIN after <=> x \in DOMAIN meta) /\ (x \in DOMAIN meta => after[x] = meta[x])
  BY <1>3
<1>8. Silent(p, x) =>
         /\ x \in known <=> x \in DOMAIN after
         /\ x \in DOMAIN after => /\ x \in DOMAIN remote
                                  /\ remote[x] = after[x] \/ remote[x].version > after[x].version
  BY <1>6, <1>7 DEF Tells
<1>9. ASSUME NEW k \in 1..Len(p), LastWord(p, x, k)
      PROVE  /\ x \in DOMAIN after => p[k] = Hello(x, after[x])
             /\ x \notin DOMAIN after => p[k] = Offline(x)
  <2>1. CASE k = Len(q) + 1 /\ m = x
    BY <1>1, <1>3, <1>5, <2>1
  <2>2. CASE k \in 1..Len(q) /\ m # x /\ LastWord(q, x, k)
    BY <1>5, <1>7, <2>2 DEF Tells
  <2> QED BY <1>6, <1>9, <2>1, <2>2
<1> QED BY <1>1, <1>2, <1>4, <1>8, <1>9 DEF Tells

\* What the server learns of one node changes nothing for the others.
LEMMA TellsOthers ==
    ASSUME NEW q, NEW x, NEW known, NEW remote, NEW meta, NEW after,
           x \in DOMAIN after <=> x \in DOMAIN meta,
           x \in DOMAIN meta => after[x] = meta[x],
           Tells(q, x, known, remote, meta)
    PROVE  Tells(q, x, known, remote, after)
  BY DEF Tells

LEMMA UpsertedParts ==
    ASSUME NEW remote, NEW i, NEW snapshot
    PROVE  /\ DOMAIN Upserted(remote, i, snapshot) = DOMAIN remote \cup {i}
           /\ \/ Upserted(remote, i, snapshot)[i] = snapshot
              \/ /\ i \in DOMAIN remote /\ snapshot.version < remote[i].version
                 /\ Upserted(remote, i, snapshot)[i] = remote[i]
           /\ \A j \in DOMAIN remote : j # i => Upserted(remote, i, snapshot)[j] = remote[j]
<1>1. CASE i \in DOMAIN remote /\ snapshot.version < remote[i].version
  BY <1>1 DEF Upserted
<1>2. CASE ~(i \in DOMAIN remote /\ snapshot.version < remote[i].version)
  BY <1>2 DEF Upserted, Put
<1> QED BY <1>1, <1>2

\* What FrameRead makes of a frame, for one of the nodes.
Reads(n, frame, known, remote, known2, remote2) ==
    LET i == frame.node IN
    \/ /\ frame.type = "hello" /\ i # n
       /\ known2 = known \cup {i} /\ remote2 = Upserted(remote, i, frame.me)
    \/ /\ frame.type = "offline"
       /\ known2 = known \ {i} /\ remote2 = Delete(remote, i)
    \/ /\ \/ frame.type = "hello" /\ i = n
          \/ frame.type = "offline" /\ i \notin known
       /\ known2 = known /\ remote2 = remote

LEMMA TellsRead ==
    ASSUME NEW q \in Seq(Frames), q # <<>>, NEW n, NEW x \in Nodes, x # n,
           NEW known, NEW remote, NEW meta, NEW known2, NEW remote2,
           x \in DOMAIN remote => remote[x].version \in Nat,
           Tells(q, x, known, remote, meta),
           Reads(n, Head(q), known, remote, known2, remote2)
    PROVE  Tells(Tail(q), x, known2, remote2, meta)
<1>1. PICK p : p = Tail(q)
  OBVIOUS
<1>2. PICK f \in Frames : f = Head(q)
  BY TailParts
<1>3. /\ Silent(p, x) => IF f.node = x THEN LastWord(q, x, 1) ELSE Silent(q, x)
      /\ \A k \in 1..Len(p) : LastWord(p, x, k) =>
           k + 1 \in 1..Len(q) /\ p[k] = q[k + 1] /\ LastWord(q, x, k + 1)
      /\ 1 \in 1..Len(q) /\ f = q[1]
  BY <1>1, <1>2, TailWords
<1>4. ASSUME NEW k \in 1..Len(p), LastWord(p, x, k)
      PROVE  /\ x \in DOMAIN meta => p[k] = Hello(x, meta[x])
             /\ x \notin DOMAIN meta => p[k] = Offline(x)
  BY <1>3, <1>4 DEF Tells
<1>5. f.type \in {"hello", "offline"} /\ (f.type = "hello" => f.me.version \in Nat)
  BY FrameParts DEF Snapshots
<1>6. ASSUME f.node # x
      PROVE  /\ x \in known2 <=> x \in known
             /\ x \in DOMAIN remote2 <=> x \in DOMAIN remote
             /\ x \in DOMAIN remote => remote2[x] = remote[x]
  <2>1. CASE known2 = known \cup {f.node} /\ remote2 = Upserted(remote, f.node, f.me)
    BY <1>6, <2>1 DEF Upserted, Put
  <2>2. CASE known2 = known \ {f.node} /\ remote2 = Delete(remote, f.node)
    BY <1>6, <2>2 DEF Delete
  <2> QED BY <1>2, <2>1, <2>2 DEF Reads
<1>7. CASE Silent(p, x)
  <2>1. CASE f.node # x
    BY <1>1, <1>3, <1>4, <1>6, <1>7, <2>1 DEF Tells
  <2>2. CASE f.node = x
    <3>1. /\ x \in DOMAIN meta => f = Hello(x, meta[x])
          /\ x \notin DOMAIN meta => f = Offline(x)
      BY <1>3, <1>7, <2>2 DEF Tells
    <3>2. CASE x \in DOMAIN meta
      <4>1. f.type = "hello" /\ f.me = meta[x]
        BY <3>1, <3>2, FrameParts
      <4>2. known2 = known \cup {x} /\ remote2 = Upserted(remote, x, f.me)
        BY <1>2, <2>2, <4>1 DEF Reads
      <4>3. x \in known2 /\ x \in DOMAIN remote2
        BY <4>2 DEF Upserted, Put
      <4>4. remote2[x] = f.me \/ (x \in DOMAIN remote /\ f.me.version < remote[x].version
                                  /\ remote2[x] = remote[x])
        BY <4>2 DEF Upserted, Put
      <4>5. remote2[x] = meta[x] \/ remote2[x].version > meta[x].version
        BY <1>5, <4>1, <4>4
      <4> QED BY <1>1, <1>4, <3>2, <4>3, <4>5 DEF Tells
    <3>3. CASE x \notin DOMAIN meta
      <4>1. f.type = "offline"
        BY <3>1, <3>3, FrameParts
      <4>2. x \notin known2
        BY <1>2, <2>2, <4>1 DEF Reads
      <4> QED BY <1>1, <1>4, <3>3, <4>2 DEF Tells
    <3> QED BY <3>2, <3>3
  <2> QED BY <2>1, <2>2
<1>8. CASE ~Silent(p, x)
  BY <1>1, <1>4, <1>8 DEF Tells
<1> QED BY <1>7, <1>8

\* The letter to a newcomer, who knows nobody yet.
LEMMA TellsFirst ==
    ASSUME NEW meta, NEW x \in Nodes, DOMAIN meta \subseteq Nodes, NEW remote,
           \A y \in DOMAIN meta : meta[y] \in Snapshots
    PROVE  LET q == SetToSeq({Hello(y, meta[y]) : y \in DOMAIN meta}) IN
           /\ q \in Seq(Frames)
           /\ \A k \in 1..Len(q) : \E y \in DOMAIN meta : q[k] = Hello(y, meta[y])
           /\ Tells(q, x, {}, remote, meta)
<1> DEFINE S == {Hello(y, meta[y]) : y \in DOMAIN meta}
<1>1. IsFiniteSet(S)
  <2>1. DOMAIN meta \in SUBSET Nodes /\ IsFiniteSet(Nodes)
    BY WsDiscoveryAssumption
  <2>2. IsFiniteSet(DOMAIN meta)
    BY <2>1, FS_Subset
  <2>3. PICK h : h = [y \in DOMAIN meta |-> Hello(y, meta[y])]
    OBVIOUS
  <2>4. h \in Surjection(DOMAIN meta, S)
    BY <2>3 DEF Surjection
  <2> QED BY <2>2, <2>4, FS_Surjection
<1>2. PICK q : q = SetToSeq(S)
  OBVIOUS
<1>3. /\ q \in Seq(S) /\ \A e \in S : \E k \in 1..Len(q) : q[k] = e
  BY <1>1, <1>2, SetToSeqLists
<1>4. \A k \in 1..Len(q) : q[k] \in S
  BY <1>3, ElementOfSeq
<1>5. S \subseteq Frames
  BY FrameTypes
<1>6. q \in Seq(Frames)
  BY <1>3, <1>5
<1>7. \A k \in 1..Len(q) : \E y \in DOMAIN meta : q[k] = Hello(y, meta[y])
  BY <1>4
<1>8. \A k \in 1..Len(q) : q[k].node \in DOMAIN meta /\ q[k] = Hello(q[k].node, meta[q[k].node])
  BY <1>7, FrameParts
<1>9. Silent(q, x) => x \notin DOMAIN meta
  <2>1. ASSUME x \in DOMAIN meta
        PROVE  ~Silent(q, x)
    <3>1. PICK k \in 1..Len(q) : q[k] = Hello(x, meta[x])
      BY <1>3, <2>1
    <3>2. q[k].node = x
      BY <3>1, FrameParts
    <3> QED BY <3>2 DEF Silent
  <2> QED BY <2>1
<1>10. Tells(q, x, {}, remote, meta)
  BY <1>8, <1>9 DEF Tells, LastWord
<1> QED BY <1>2, <1>6, <1>7, <1>10

-----------------------------------------------------------------------------
(* Discovery: what the client does.                                        *)

LEMMA ConcatParts ==
    ASSUME NEW S, NEW q \in Seq(S), NEW r \in Seq(S)
    PROVE  /\ q \o r \in Seq(S) /\ Len(q) \in Nat /\ Len(r) \in Nat
           /\ Len(q \o r) = Len(q) + Len(r)
           /\ \A k \in 1..Len(q) : (q \o r)[k] = q[k]
           /\ \A k \in 1..Len(r) : (q \o r)[Len(q) + k] = r[k]
           /\ \A k \in 1..Len(q \o r) :
                (\E j \in 1..Len(q) : k = j) \/ (\E j \in 1..Len(r) : k = Len(q) + j)
<1>1. /\ q \o r \in Seq(S) /\ Len(q \o r) = Len(q) + Len(r)
      /\ \A k \in 1..(Len(q) + Len(r)) :
            (q \o r)[k] = IF k <= Len(q) THEN q[k] ELSE r[k - Len(q)]
  BY ConcatProperties
<1>2. PICK a \in Nat : a = Len(q)
  BY LenProperties
<1>3. PICK b \in Nat : b = Len(r)
  BY LenProperties
<1>4. PICK c : c = q \o r
  OBVIOUS
<1>5. \A k \in 1..(a + b) : c[k] = IF k <= a THEN q[k] ELSE r[k - a]
  BY <1>1, <1>2, <1>3, <1>4
<1>6. \A k \in 1..a : c[k] = q[k]
  BY <1>5
<1>7. \A k \in 1..b : c[a + k] = r[k]
  <2> TAKE k \in 1..b
  <2>1. a + k \in 1..(a + b) /\ ~(a + k <= a) /\ (a + k) - a = k
    OBVIOUS
  <2> QED BY <1>5, <2>1
<1>8. \A k \in 1..(a + b) : (\E j \in 1..a : k = j) \/ (\E j \in 1..b : k = a + j)
  <2> TAKE k \in 1..(a + b)
  <2>1. CASE k <= a
    BY <2>1
  <2>2. CASE ~(k <= a)
    <3>1. k - a \in 1..b /\ k = a + (k - a)
      BY <2>2
    <3> QED BY <3>1
  <2> QED BY <2>1, <2>2
<1> QED BY <1>1, <1>2, <1>3, <1>4, <1>6, <1>7, <1>8

LEMMA OtherSockets ==
    ASSUME NEW n, NEW x, x # n
    PROVE  Current(x) # Current(n)
  BY DEF Current

LEMMA ConnectKeeps ==
    ASSUME DiscoveryInv, NEW n \in Nodes, Connect(n)
    PROVE  DiscoveryInv'
<1> USE DEF DiscoveryInv
<1>1. /\ client[n].phase = "waiting" /\ client[n].sockets < MaxSockets[n]
      /\ client' = [client EXCEPT ![n] = [phase |-> "connecting", sockets |-> @.sockets + 1]]
      /\ UNCHANGED <<directory, leftover, members, up, down, local, far, named, metadata, metrics, overlap>>
  BY DEF Connect, OnlyClient, serverVars
<1>2. client[n].sockets \in Nat /\ MaxSockets[n] \in Nat /\ n \in DOMAIN client
  BY WsDiscoveryAssumption DEF DiscoveryTypes
<1>3. PICK k \in Nat : k = client[n].sockets
  BY <1>2
<1>4. PICK e : e = [phase |-> "connecting", sockets |-> k + 1]
  OBVIOUS
<1>5. e.phase = "connecting" /\ e.sockets = k + 1
      /\ e \in [phase : {"waiting", "connecting", "open", "closed", "stalled"}, sockets : Nat]
  BY <1>4
<1>6. client' = [client EXCEPT ![n] = e]
  BY <1>1, <1>3, <1>4
<1>7. client'[n] = e /\ \A x \in Nodes : x # n => client'[x] = client[x]
  BY <1>2, <1>6 DEF DiscoveryTypes
<1>8. Current(n)' = <<n, k + 1>> /\ \A x \in Nodes : x # n => Current(x)' = Current(x)
  BY <1>5, <1>7 DEF Current
<1>9. <<n, k + 1>> \in Sockets /\ far[<<n, k + 1>>] = "unused"
  <2>1. k + 1 \in 1..MaxSockets[n] /\ k + 1 > k
    BY <1>1, <1>2, <1>3
  <2>2. <<n, k + 1>> \in Sockets /\ Owner(<<n, k + 1>>) = n /\ <<n, k + 1>>[2] = k + 1
    BY <2>1, SocketMade
  <2> QED BY <1>3, <2>1, <2>2 DEF SocketsAreFresh
<1>10. DiscoveryTypes'
  <2>1. client' \in [Nodes -> [phase : {"waiting", "connecting", "open", "closed", "stalled"},
                               sockets : Nat]]
    BY <1>5, <1>6 DEF DiscoveryTypes
  <2>2. \A x \in Nodes : client'[x].phase \in {"connecting", "open"} => Current(x)' \in Sockets
    BY <1>7, <1>8, <1>9 DEF DiscoveryTypes
  <2> QED BY <1>1, <2>1, <2>2 DEF DiscoveryTypes
<1>11. SnapshotsAreGenuine' /\ MetricsAreExact' /\ OneSocketEach'
  BY <1>1 DEF SnapshotsAreGenuine, Genuine, MetricsAreExact, OneSocketEach
<1>12. SocketsAreFresh'
  <2> SUFFICES ASSUME NEW s \in Sockets, s[2] > client'[Owner(s)].sockets
               PROVE  far[s] = "unused"
    BY <1>1 DEF SocketsAreFresh
  <2>1. Owner(s) \in Nodes /\ s[2] \in Nat
    BY SocketParts
  <2>2. CASE Owner(s) = n
    <3>1. s[2] > k
      BY <1>5, <1>7, <2>1, <2>2
    <3> QED BY <1>3, <2>2, <3>1 DEF SocketsAreFresh
  <2>3. CASE Owner(s) # n
    BY <1>7, <2>1, <2>3 DEF SocketsAreFresh
  <2> QED BY <2>2, <2>3
<1>13. WaitersHeardNobody'
  BY <1>1, <1>7 DEF WaitersHeardNobody, HeardOf
<1>14. ServerLearns'
  BY <1>1, <1>5, <1>7, <1>8 DEF ServerLearns, Learns, Linked
<1>15. ClientsFollow'
  BY <1>1, <1>5, <1>7, <1>8, <1>9 DEF ClientsFollow, Heeds, Follows, HeardOf
<1> QED BY <1>10, <1>11, <1>12, <1>13, <1>14, <1>15

\* A client that loses its socket, or gives it up.
LEMMA LeavingKeeps ==
    ASSUME DiscoveryInv, NEW n \in Nodes, NEW phase \in {"waiting", "stalled", "closed"},
           client' = [client EXCEPT ![n].phase = phase],
           \A x \in Nodes : x # n => HeardOf(x)' = HeardOf(x),
           DOMAIN directory' = Nodes, DOMAIN leftover' = Nodes,
           phase = "waiting" => HeardOf(n)' = {},
           \/ down' = [down EXCEPT ![Current(n)] = <<>>]
           \/ down' = down,
           UNCHANGED <<members, up, local, far, metadata, metrics, overlap>>
    PROVE  DiscoveryInv'
<1> USE DEF DiscoveryInv
<1>1. n \in DOMAIN client /\ client[n].sockets \in Nat
  BY DEF DiscoveryTypes
<1>2. PICK e : e = [client[n] EXCEPT !.phase = phase]
  OBVIOUS
<1>3. e.phase = phase /\ e.sockets = client[n].sockets
      /\ e \in [phase : {"waiting", "connecting", "open", "closed", "stalled"}, sockets : Nat]
  BY <1>2 DEF DiscoveryTypes
<1>4. client' = [client EXCEPT ![n] = e]
  BY <1>2
<1>5. client'[n] = e /\ \A x \in Nodes : x # n => client'[x] = client[x]
  BY <1>1, <1>4 DEF DiscoveryTypes
<1>6. \A x \in Nodes : Current(x)' = Current(x) /\ client'[x].sockets = client[x].sockets
  BY <1>3, <1>5 DEF Current
<1>7. \A s \in Sockets : s # Current(n) => down'[s] = down[s]
  BY DEF DiscoveryTypes
<1>8. \A s \in Sockets : down'[s] = down[s] \/ down'[s] = <<>>
  BY DEF DiscoveryTypes
<1>9. DiscoveryTypes'
  <2>1. client' \in [Nodes -> [phase : {"waiting", "connecting", "open", "closed", "stalled"},
                               sockets : Nat]]
    BY <1>3, <1>4 DEF DiscoveryTypes
  <2>2. \A x \in Nodes : client'[x].phase \in {"connecting", "open"} => Current(x)' \in Sockets
    BY <1>3, <1>5, <1>6 DEF DiscoveryTypes
  <2>3. <<>> \in Seq(Frames)
    OBVIOUS
  <2>4. down' \in [Sockets -> Seq(Frames)]
    BY <2>3 DEF DiscoveryTypes
  <2> QED BY <2>1, <2>2, <2>4 DEF DiscoveryTypes
<1>10. SnapshotsAreGenuine'
  <2>1. ASSUME NEW s \in Sockets, NEW k \in 1..Len(down'[s]), down'[s][k].type = "hello"
        PROVE  Genuine(down'[s][k].node, down'[s][k].me)
    <3>1. Len(<<>>) = 0
      OBVIOUS
    <3>2. down'[s] = down[s]
      BY <1>8, <3>1
    <3> QED BY <2>1, <3>2 DEF SnapshotsAreGenuine
  <2> QED BY <2>1 DEF SnapshotsAreGenuine, Genuine
<1>11. MetricsAreExact' /\ OneSocketEach'
  BY DEF MetricsAreExact, OneSocketEach
<1>12. SocketsAreFresh'
  <2>1. \A s \in Sockets : client'[Owner(s)].sockets = client[Owner(s)].sockets
    BY <1>6, SocketParts
  <2> QED BY <2>1 DEF SocketsAreFresh
<1>13. WaitersHeardNobody'
  BY <1>3, <1>5 DEF WaitersHeardNobody
<1>14. ServerLearns'
  BY <1>3, <1>5, <1>6 DEF ServerLearns, Learns, Linked
<1>15. ClientsFollow'
  <2> SUFFICES ASSUME NEW x \in Nodes, Heeds(x)', NEW y \in Nodes \ {x}
               PROVE  Follows(x, y)'
    BY DEF ClientsFollow
  <2>1. x # n /\ Heeds(x)
    BY <1>3, <1>5, <1>6 DEF Heeds
  <2>2. Current(x) \in Sockets /\ Current(x) # Current(n)
    BY <2>1, OtherSockets DEF Heeds, DiscoveryTypes
  <2>3. down'[Current(x)] = down[Current(x)]
    BY <1>7, <2>2
  <2>4. Follows(x, y)
    BY <2>1 DEF ClientsFollow
  <2> QED BY <1>6, <2>1, <2>3, <2>4 DEF Follows
<1> QED BY <1>9, <1>10, <1>11, <1>12, <1>13, <1>14, <1>15

LEMMA RefusedKeeps ==
    ASSUME DiscoveryInv, NEW n \in Nodes, Refused(n)
    PROVE  DiscoveryInv'
<1>1. /\ client' = [client EXCEPT ![n].phase = "stalled"]
      /\ down' = [down EXCEPT ![Current(n)] = <<>>]
      /\ UNCHANGED <<directory, leftover, members, up, local, far, metadata, metrics, overlap>>
  BY DEF Refused, AfterRefusal, OnlyClient, serverVars
<1>2. DOMAIN directory = Nodes /\ DOMAIN leftover = Nodes
  BY DEF DiscoveryInv, DiscoveryTypes
<1>3. \A x \in Nodes : HeardOf(x)' = HeardOf(x)
  BY <1>1 DEF HeardOf
<1> QED BY <1>1, <1>2, <1>3, LeavingKeeps

LEMMA LostKeeps ==
    ASSUME DiscoveryInv, NEW n \in Nodes, NEW how, Lost(n, how)
    PROVE  DiscoveryInv'
<1>1. /\ client' = [client EXCEPT ![n].phase = "waiting"]
      /\ \/ /\ directory' = [directory EXCEPT ![n] = Nothing]
            /\ leftover' = [leftover EXCEPT ![n] = {}]
         \/ /\ directory' = directory
            /\ leftover' = [leftover EXCEPT ![n] = DOMAIN directory[n]]
      /\ down' = [down EXCEPT ![Current(n)] = <<>>]
      /\ UNCHANGED <<members, up, local, far, metadata, metrics, overlap>>
  BY DEF Lost, ClearedNodes, OnlyClient, serverVars
<1>2. DOMAIN directory = Nodes /\ DOMAIN leftover = Nodes
  BY DEF DiscoveryInv, DiscoveryTypes
<1>3. DOMAIN directory' = Nodes /\ DOMAIN leftover' = Nodes
  BY <1>1, <1>2
<1>4. \A x \in Nodes : x # n => directory'[x] = directory[x] /\ leftover'[x] = leftover[x]
  BY <1>1, <1>2
<1>5. \A x \in Nodes : x # n => HeardOf(x)' = HeardOf(x)
  BY <1>4 DEF HeardOf
<1>6. HeardOf(n)' = {}
  <2>1. CASE directory' = [directory EXCEPT ![n] = Nothing]
    BY <1>2, <2>1 DEF HeardOf, Nothing
  <2>2. CASE directory' = directory /\ leftover' = [leftover EXCEPT ![n] = DOMAIN directory[n]]
    BY <1>2, <2>2 DEF HeardOf
  <2> QED BY <1>1, <2>1, <2>2
<1> QED BY <1>1, <1>3, <1>5, <1>6, LeavingKeeps

LEMMA CloseClientKeeps ==
    ASSUME DiscoveryInv, NEW n \in Nodes, CloseClient(n)
    PROVE  DiscoveryInv'
<1>1. /\ client' = [client EXCEPT ![n].phase = "closed"]
      /\ down' = [down EXCEPT ![Current(n)] = <<>>] \/ down' = down
      /\ UNCHANGED <<directory, leftover, members, up, local, far, metadata, metrics, overlap>>
  BY DEF CloseClient, OnlyClient, serverVars
<1>2. DOMAIN directory = Nodes /\ DOMAIN leftover = Nodes
  BY DEF DiscoveryInv, DiscoveryTypes
<1>3. \A x \in Nodes : HeardOf(x)' = HeardOf(x)
  BY <1>1 DEF HeardOf
<1> QED BY <1>1, <1>2, <1>3, LeavingKeeps

\* The queue to the server grows by what its node is now.
LEMMA SentParts ==
    ASSUME DiscoveryInv, NEW n \in Nodes, NEW snapshots \in Seq(Snapshots),
           client[n].phase \in {"connecting", "open"},
           up' = Sent(Current(n), snapshots)
    PROVE  /\ up' \in [Sockets -> Seq(Snapshots)]
           /\ \A s \in Sockets : s # Current(n) => up'[s] = up[s]
           /\ \A s \in Sockets : \A k \in 1..Len(up'[s]) :
                \/ k \in 1..Len(up[s]) /\ up'[s][k] = up[s][k]
                \/ Owner(s) = n /\ \E j \in 1..Len(snapshots) : up'[s][k] = snapshots[j]
           /\ far[Current(n)] = "open" /\ snapshots # <<>> =>
                LET q == up'[Current(n)] IN q # <<>> /\ q[Len(q)] = snapshots[Len(snapshots)]
           /\ snapshots = <<>> => up' = up
<1> DEFINE s == Current(n)
<1>1. s \in Sockets /\ up \in [Sockets -> Seq(Snapshots)] /\ Owner(s) = n
  BY CurrentParts DEF DiscoveryInv, DiscoveryTypes
<1>2. PICK r \in Seq(Snapshots) : r = up[s] \o snapshots
  BY <1>1, ConcatParts
<1>3. /\ Len(up[s]) \in Nat /\ Len(snapshots) \in Nat
      /\ Len(r) = Len(up[s]) + Len(snapshots)
      /\ \A k \in 1..Len(up[s]) : r[k] = up[s][k]
      /\ \A k \in 1..Len(snapshots) : r[Len(up[s]) + k] = snapshots[k]
      /\ \A k \in 1..Len(r) :
           (\E j \in 1..Len(up[s]) : k = j) \/ (\E j \in 1..Len(snapshots) : k = Len(up[s]) + j)
  BY <1>1, <1>2, ConcatParts
<1>4. up' = IF far[s] = "open" THEN [up EXCEPT ![s] = r] ELSE up
  BY <1>2 DEF Sent
<1> HIDE DEF s
<1>5. up' \in [Sockets -> Seq(Snapshots)]
  BY <1>1, <1>2, <1>4
<1>6. \A t \in Sockets : t # s => up'[t] = up[t]
  BY <1>1, <1>4
<1>7. ASSUME NEW t \in Sockets, NEW k \in 1..Len(up'[t])
      PROVE  \/ k \in 1..Len(up[t]) /\ up'[t][k] = up[t][k]
             \/ Owner(t) = n /\ \E j \in 1..Len(snapshots) : up'[t][k] = snapshots[j]
  <2>1. CASE up'[t] = up[t]
    BY <1>7, <2>1
  <2>2. CASE up'[t] # up[t]
    <3>1. t = s /\ up'[t] = r
      BY <1>1, <1>4, <2>2
    <3>2. CASE \E j \in 1..Len(up[s]) : k = j
      BY <1>3, <3>1, <3>2
    <3>3. CASE \E j \in 1..Len(snapshots) : k = Len(up[s]) + j
      BY <1>1, <1>3, <3>1, <3>3
    <3>4. k \in 1..Len(r)
      BY <1>7, <3>1
    <3> QED BY <1>3, <3>2, <3>3, <3>4
  <2> QED BY <2>1, <2>2
<1>8. ASSUME far[s] = "open", snapshots # <<>>
      PROVE  up'[s] # <<>> /\ up'[s][Len(up'[s])] = snapshots[Len(snapshots)]
  <2>1. up'[s] = r
    BY <1>1, <1>4, <1>8
  <2>2. Len(snapshots) > 0 /\ Len(snapshots) \in 1..Len(snapshots)
    BY <1>3, <1>8, EmptySeq
  <2>3. Len(r) > 0 /\ r[Len(r)] = snapshots[Len(snapshots)]
    BY <1>3, <2>2
  <2>4. Len(<<>>) = 0
    OBVIOUS
  <2> QED BY <2>1, <2>3, <2>4
<1>9. ASSUME snapshots = <<>>
      PROVE  up' = up
  <2>1. r = up[s]
    BY <1>1, <1>2, <1>9, ConcatEmptySeq
  <2> QED BY <1>1, <1>4, <2>1
<1> QED BY <1>5, <1>6, <1>7, <1>8, <1>9 DEF s

LEMMA OpenedKeeps ==
    ASSUME DiscoveryInv, NEW n \in Nodes, Opened(n)
    PROVE  DiscoveryInv'
<1> USE DEF DiscoveryInv
<1>1. /\ client[n].phase = "connecting" /\ far[Current(n)] # "unused"
      /\ client' = [client EXCEPT ![n].phase = "open"]
      /\ up' = Sent(Current(n), <<local[n]>>)
      /\ UNCHANGED <<directory, leftover, members, down, local, far, named, metadata, metrics, overlap>>
  BY DEF Opened, OnlyClient, serverVars
<1>2. PICK snapshots \in Seq(Snapshots) : snapshots = <<local[n]>>
  <2>1. local[n] \in Snapshots
    BY DEF DiscoveryTypes
  <2>2. <<local[n]>> \in Seq(Snapshots)
    BY <2>1
  <2> QED BY <2>2
<1>3. Len(snapshots) = 1 /\ snapshots[1] = local[n] /\ snapshots # <<>>
  BY <1>2
<1>4. PICK e : e = [client[n] EXCEPT !.phase = "open"]
  OBVIOUS
<1>5. e.phase = "open" /\ e.sockets = client[n].sockets
      /\ e \in [phase : {"waiting", "connecting", "open", "closed", "stalled"}, sockets : Nat]
  BY <1>4 DEF DiscoveryTypes
<1>6. client' = [client EXCEPT ![n] = e]
  BY <1>1, <1>4
<1>7. client'[n] = e /\ \A x \in Nodes : x # n => client'[x] = client[x]
  BY <1>6 DEF DiscoveryTypes
<1>8. \A x \in Nodes : Current(x)' = Current(x) /\ client'[x].sockets = client[x].sockets
  BY <1>5, <1>7 DEF Current
<1>9. /\ up' \in [Sockets -> Seq(Snapshots)]
      /\ \A s \in Sockets : s # Current(n) => up'[s] = up[s]
      /\ \A s \in Sockets : \A k \in 1..Len(up'[s]) :
           \/ k \in 1..Len(up[s]) /\ up'[s][k] = up[s][k]
           \/ Owner(s) = n /\ \E j \in 1..Len(snapshots) : up'[s][k] = snapshots[j]
      /\ far[Current(n)] = "open" =>
           up'[Current(n)] # <<>> /\ up'[Current(n)][Len(up'[Current(n)])] = local[n]
  BY <1>1, <1>2, <1>3, SentParts
<1>10. DiscoveryTypes'
  <2>1. client' \in [Nodes -> [phase : {"waiting", "connecting", "open", "closed", "stalled"},
                               sockets : Nat]]
    BY <1>5, <1>6 DEF DiscoveryTypes
  <2>2. \A x \in Nodes : client'[x].phase \in {"connecting", "open"} => Current(x)' \in Sockets
    BY <1>1, <1>5, <1>7, <1>8 DEF DiscoveryTypes
  <2> QED BY <1>1, <1>9, <2>1, <2>2 DEF DiscoveryTypes
<1>11. SnapshotsAreGenuine'
  <2>1. ASSUME NEW s \in Sockets, NEW k \in 1..Len(up'[s])
        PROVE  Genuine(Owner(s), up'[s][k])
    <3>1. CASE k \in 1..Len(up[s]) /\ up'[s][k] = up[s][k]
      BY <3>1 DEF SnapshotsAreGenuine
    <3>2. CASE Owner(s) = n /\ \E j \in 1..Len(snapshots) : up'[s][k] = snapshots[j]
      <4>1. up'[s][k] = local[n]
        BY <1>3, <3>2
      <4>2. local[n].version \in Nat
        BY DEF DiscoveryTypes, Snapshots
      <4> QED BY <3>2, <4>1, <4>2 DEF SnapshotsAreGenuine, Genuine
    <3> QED BY <1>9, <3>1, <3>2
  <2> QED BY <1>1, <2>1 DEF SnapshotsAreGenuine, Genuine
<1>12. MetricsAreExact' /\ OneSocketEach'
  BY <1>1 DEF MetricsAreExact, OneSocketEach
<1>13. SocketsAreFresh'
  <2>1. \A s \in Sockets : client'[Owner(s)].sockets = client[Owner(s)].sockets
    BY <1>8, SocketParts
  <2> QED BY <1>1, <2>1 DEF SocketsAreFresh
<1>14. WaitersHeardNobody'
  BY <1>1, <1>5, <1>7 DEF WaitersHeardNobody, HeardOf
<1>15. ServerLearns'
  <2> SUFFICES ASSUME NEW x \in Nodes \ overlap, Linked(x)'
               PROVE  Learns(x)'
    BY <1>1 DEF ServerLearns
  <2>1. CASE x = n
    <3>1. far[Current(n)] = "open"
      BY <1>1, <1>8, <2>1 DEF Linked
    <3> QED BY <1>1, <1>8, <1>9, <2>1, <3>1 DEF Learns
  <2>2. CASE x # n
    <3>1. Linked(x)
      BY <1>1, <1>7, <1>8, <2>2 DEF Linked
    <3>2. Current(x) \in Sockets /\ Current(x) # Current(n)
      BY <2>2, <3>1, OtherSockets DEF Linked, DiscoveryTypes
    <3>3. up'[Current(x)] = up[Current(x)]
      BY <1>9, <3>2
    <3>4. Learns(x)
      BY <3>1 DEF ServerLearns
    <3> QED BY <1>1, <1>8, <3>3, <3>4 DEF Learns
  <2> QED BY <2>1, <2>2
<1>16. ClientsFollow'
  <2> SUFFICES ASSUME NEW x \in Nodes, Heeds(x)', NEW y \in Nodes \ {x}
               PROVE  Follows(x, y)'
    BY DEF ClientsFollow
  <2>1. Heeds(x)
    BY <1>1, <1>7, <1>8 DEF Heeds
  <2>2. Follows(x, y)
    BY <2>1 DEF ClientsFollow
  <2> QED BY <1>1, <1>8, <2>2 DEF Follows, HeardOf
<1> QED BY <1>10, <1>11, <1>12, <1>13, <1>14, <1>15, <1>16

\* What a process may announce of itself.
Proper(n, snapshots) ==
    /\ snapshots \in Seq(Snapshots)
    /\ \A k \in 1..Len(snapshots) :
         /\ Own(n, snapshots[k])
         /\ local[n].version <= snapshots[k].version
         /\ snapshots[k].version <= snapshots[Len(snapshots)].version

LEMMA AnnounceKeeps ==
    ASSUME DiscoveryInv, NEW n \in Nodes, NEW snapshots, Proper(n, snapshots),
           Announce(n, snapshots)
    PROVE  DiscoveryInv'
<1> USE DEF DiscoveryInv
<1>1. UNCHANGED <<client, directory, leftover, members, far, named, metadata, metrics, running, overlap, down>>
  BY DEF Announce, clientVars, serverVars
<1>2. local' = [local EXCEPT ![n] = IF snapshots = <<>> THEN @ ELSE Last(snapshots)]
  BY DEF Announce
<1>3. up' = IF client[n].phase = "open" THEN Sent(Current(n), snapshots) ELSE up
  BY DEF Announce
<1>4. CASE snapshots = <<>>
  <2>1. local' = local
    BY <1>2, <1>4 DEF DiscoveryTypes
  <2>2. up' = up
    BY <1>3, <1>4, SentParts DEF Proper
  <2> QED
    BY <1>1, <2>1, <2>2 DEF DiscoveryTypes, SnapshotsAreGenuine, Genuine, MetricsAreExact,
       SocketsAreFresh, WaitersHeardNobody, HeardOf, OneSocketEach, ServerLearns, Learns, Linked,
       Current, ClientsFollow, Heeds, Follows
<1>5. CASE snapshots # <<>>
  <2>1. PICK size \in Nat \ {0} : size = Len(snapshots)
    BY <1>5, EmptySeq, LenProperties DEF Proper
  <2>2. PICK newest \in Snapshots : newest = snapshots[size]
    BY <2>1, ElementOfSeq DEF Proper
  <2>3. local' = [local EXCEPT ![n] = newest]
    BY <1>2, <1>5, <2>1, <2>2 DEF Last
  <2>4. /\ newest.version \in Nat /\ Own(n, newest) /\ local[n].version <= newest.version
        /\ local[n].version \in Nat
        /\ \A k \in 1..size : /\ snapshots[k].version <= newest.version
                              /\ Own(n, snapshots[k])
    BY <2>1, <2>2 DEF Proper, Snapshots, DiscoveryTypes
  <2>5. local'[n] = newest /\ \A x \in Nodes : x # n => local'[x] = local[x]
    BY <2>3 DEF DiscoveryTypes
  <2>6. \A x \in Nodes : Current(x)' = Current(x)
    BY <1>1 DEF Current
  <2>7. /\ up' \in [Sockets -> Seq(Snapshots)]
        /\ \A s \in Sockets : s # Current(n) => up'[s] = up[s]
        /\ \A s \in Sockets : \A k \in 1..Len(up'[s]) :
             \/ k \in 1..Len(up[s]) /\ up'[s][k] = up[s][k]
             \/ Owner(s) = n /\ \E j \in 1..Len(snapshots) : up'[s][k] = snapshots[j]
        /\ Linked(n) => up'[Current(n)] # <<>> /\ up'[Current(n)][Len(up'[Current(n)])] = newest
    <3>1. CASE client[n].phase = "open"
      BY <1>3, <1>5, <2>1, <2>2, <3>1, SentParts DEF Proper, Linked
    <3>2. CASE client[n].phase # "open"
      BY <1>3, <3>2 DEF Linked, DiscoveryTypes
    <3> QED BY <3>1, <3>2
  <2>8. \A x \in Nodes : local[x].version <= local'[x].version /\ local[x].version \in Nat
                         /\ local'[x].version \in Nat
    <3> TAKE x \in Nodes
    <3>1. local[x].version \in Nat
      BY DEF DiscoveryTypes, Snapshots
    <3>2. CASE x = n
      BY <2>4, <2>5, <3>2
    <3>3. CASE x # n
      <4>1. local'[x] = local[x]
        BY <2>5, <3>3
      <4>2. local[x].version <= local[x].version
        BY <3>1
      <4> QED BY <3>1, <4>1, <4>2
    <3> QED BY <3>2, <3>3
  <2>9. ASSUME NEW x \in Nodes, NEW snapshot \in Snapshots, Genuine(x, snapshot)
        PROVE  snapshot.version <= local'[x].version /\ Own(x, snapshot)
    <3>1. snapshot.version \in Nat
      BY DEF Snapshots
    <3>2. snapshot.version <= local[x].version /\ Own(x, snapshot)
      BY <2>9 DEF Genuine
    <3>3. snapshot.version <= local'[x].version
      BY <2>8, <3>1, <3>2
    <3> QED BY <3>2, <3>3
  <2>10. DiscoveryTypes'
    <3>1. local' \in [Nodes -> Snapshots]
      BY <2>3 DEF DiscoveryTypes
    <3> QED BY <1>1, <2>6, <2>7, <3>1 DEF DiscoveryTypes
  <2>11. SnapshotsAreGenuine'
    <3>1. \A x \in Nodes : Own(x, local'[x])
      BY <2>4, <2>5 DEF SnapshotsAreGenuine
    <3>2. ASSUME NEW s \in Sockets, NEW k \in 1..Len(up'[s])
          PROVE  up'[s][k].version <= local'[Owner(s)].version /\ Own(Owner(s), up'[s][k])
      <4>1. Owner(s) \in Nodes
        BY SocketParts
      <4>2. CASE k \in 1..Len(up[s]) /\ up'[s][k] = up[s][k]
        <5>1. PICK snapshot \in Snapshots : snapshot = up[s][k]
          BY <4>2, ElementOfSeq DEF DiscoveryTypes
        <5>2. Genuine(Owner(s), snapshot)
          BY <4>2, <5>1 DEF SnapshotsAreGenuine
        <5> QED BY <2>9, <4>1, <4>2, <5>1, <5>2
      <4>3. CASE Owner(s) = n /\ \E j \in 1..Len(snapshots) : up'[s][k] = snapshots[j]
        BY <2>1, <2>4, <2>5, <4>3
      <4> QED BY <2>7, <4>2, <4>3
    <3>3. ASSUME NEW s \in Sockets, NEW k \in 1..Len(down[s]), down[s][k].type = "hello"
          PROVE  /\ down[s][k].me.version <= local'[down[s][k].node].version
                 /\ Own(down[s][k].node, down[s][k].me)
      <4>1. PICK f \in Frames : f = down[s][k]
        BY ElementOfSeq DEF DiscoveryTypes
      <4>2. f.node \in Nodes /\ f.me \in Snapshots
        BY <3>3, <4>1, FrameParts
      <4>3. Genuine(f.node, f.me)
        BY <3>3, <4>1 DEF SnapshotsAreGenuine
      <4> QED BY <2>9, <4>1, <4>2, <4>3
    <3>4. ASSUME NEW x \in DOMAIN metadata
          PROVE  metadata[x].version <= local'[x].version /\ Own(x, metadata[x])
      <4>1. x \in Nodes /\ metadata[x] \in Snapshots /\ Genuine(x, metadata[x])
        BY DEF DiscoveryTypes, SnapshotsAreGenuine
      <4> QED BY <2>9, <4>1
    <3>5. ASSUME NEW m \in Nodes, NEW x \in DOMAIN members[m]
          PROVE  /\ members[m][x] \in Snapshots /\ members[m][x].version <= local'[x].version
                 /\ Own(x, members[m][x])
      <4>1. x \in Nodes /\ members[m][x] \in Snapshots /\ Genuine(x, members[m][x])
        BY DEF DiscoveryTypes, SnapshotsAreGenuine
      <4> QED BY <2>9, <4>1
    <3> QED BY <1>1, <3>1, <3>2, <3>3, <3>4, <3>5 DEF SnapshotsAreGenuine, Genuine
  <2>12. MetricsAreExact' /\ OneSocketEach' /\ SocketsAreFresh' /\ WaitersHeardNobody'
    BY <1>1 DEF MetricsAreExact, OneSocketEach, SocketsAreFresh, WaitersHeardNobody, HeardOf
  <2>13. ServerLearns'
    <3> SUFFICES ASSUME NEW x \in Nodes \ overlap, Linked(x)'
                 PROVE  Learns(x)'
      BY <1>1 DEF ServerLearns
    <3>1. Linked(x)
      BY <1>1, <2>6 DEF Linked
    <3>2. CASE x = n
      BY <2>5, <2>6, <2>7, <3>1, <3>2 DEF Learns
    <3>3. CASE x # n
      <4>1. Current(x) \in Sockets /\ Current(x) # Current(n)
        BY <3>1, <3>3, OtherSockets DEF Linked, DiscoveryTypes
      <4>2. up'[Current(x)] = up[Current(x)]
        BY <2>7, <4>1
      <4>3. Learns(x)
        BY <3>1 DEF ServerLearns
      <4> QED BY <1>1, <2>5, <2>6, <3>3, <4>2, <4>3 DEF Learns
    <3> QED BY <3>2, <3>3
  <2>14. ClientsFollow'
    BY <1>1, <2>6 DEF ClientsFollow, Heeds, Follows, HeardOf
  <2> QED BY <2>10, <2>11, <2>12, <2>13, <2>14
<1> QED BY <1>4, <1>5

LEMMA FrameReadKeeps ==
    ASSUME DiscoveryInv, NEW n \in Nodes, FrameRead(n)
    PROVE  DiscoveryInv'
<1> USE DEF DiscoveryInv
<1> DEFINE s == Current(n)
<1>1. /\ client[n].phase = "open" /\ down[s] # <<>>
      /\ down' = [down EXCEPT ![s] = Tail(@)]
      /\ UNCHANGED <<client, up, local, far, named, metadata, metrics, overlap>>
  BY DEF FrameRead, OnlyClient, serverVars
<1>2. s \in Sockets /\ n \in DOMAIN directory /\ n \in DOMAIN leftover /\ n \in DOMAIN members
  BY <1>1 DEF DiscoveryTypes
<1>3. PICK f \in Frames : f = Head(down[s])
  BY <1>1, <1>2, TailParts DEF DiscoveryTypes
<1>4. f.type \in {"hello", "offline"} /\ f.node \in Nodes
      /\ (f.type = "hello" => f.me \in Snapshots /\ Genuine(f.node, f.me))
  <2>1. 1 \in 1..Len(down[s]) /\ f = down[s][1]
    BY <1>1, <1>2, <1>3, TailParts DEF DiscoveryTypes
  <2> QED BY <1>2, <2>1, FrameParts DEF SnapshotsAreGenuine
<1>5. /\ Reads(n, f, HeardOf(n), members[n], HeardOf(n)', members'[n])
      /\ \A x \in Nodes : x # n =>
           directory'[x] = directory[x] /\ leftover'[x] = leftover[x] /\ members'[x] = members[x]
      /\ DOMAIN directory' = Nodes /\ DOMAIN leftover' = Nodes /\ DOMAIN members' = Nodes
  <2>1. CASE f.type = "hello" /\ f.node # n
    <3>1. /\ directory' = [directory EXCEPT ![n] = Put(@, f.node, f.me)]
          /\ leftover' = [leftover EXCEPT ![n] = @ \ {f.node}]
          /\ members' = [members EXCEPT ![n] = Upserted(@, f.node, f.me)]
      BY <1>3, <2>1 DEF FrameRead
    <3>2. /\ directory'[n] = Put(directory[n], f.node, f.me) /\ leftover'[n] = leftover[n] \ {f.node}
          /\ members'[n] = Upserted(members[n], f.node, f.me)
      BY <1>2, <3>1
    <3>3. DOMAIN directory'[n] = DOMAIN directory[n] \cup {f.node}
      BY <3>2 DEF Put
    <3>4. HeardOf(n)' = HeardOf(n) \cup {f.node}
      BY <3>2, <3>3 DEF HeardOf
    <3> QED BY <1>2, <2>1, <3>1, <3>2, <3>4 DEF Reads, DiscoveryTypes
  <2>2. CASE f.type = "offline" /\ f.node \in DOMAIN directory[n]
    <3>1. /\ directory' = [directory EXCEPT ![n] = Delete(@, f.node)]
          /\ leftover' = [leftover EXCEPT ![n] = @ \ {f.node}]
          /\ members' = [members EXCEPT ![n] = Delete(@, f.node)]
      BY <1>3, <2>2 DEF FrameRead
    <3>2. /\ directory'[n] = Delete(directory[n], f.node) /\ leftover'[n] = leftover[n] \ {f.node}
          /\ members'[n] = Delete(members[n], f.node)
      BY <1>2, <3>1
    <3>3. DOMAIN directory'[n] = DOMAIN directory[n] \ {f.node}
      BY <3>2 DEF Delete
    <3>4. HeardOf(n)' = HeardOf(n) \ {f.node}
      BY <3>2, <3>3 DEF HeardOf
    <3> QED BY <1>2, <2>2, <3>1, <3>2, <3>4 DEF Reads, DiscoveryTypes
  <2>3. CASE ~(f.type = "hello" /\ f.node # n)
             /\ ~(f.type = "offline" /\ f.node \in DOMAIN directory[n])
    <3>1. directory' = directory /\ leftover' = leftover /\ members' = members
      BY <1>3, <2>3 DEF FrameRead
    <3>2. HeardOf(n)' = HeardOf(n) /\ (f.node \in HeardOf(n) => f.node \in DOMAIN directory[n])
      BY <3>1 DEF HeardOf
    <3> QED BY <1>2, <1>4, <2>3, <3>1, <3>2 DEF Reads, DiscoveryTypes
  <2> QED BY <2>1, <2>2, <2>3
<1>6. \A x \in Nodes : Current(x)' = Current(x)
  BY <1>1 DEF Current
<1>7. PICK q \in Seq(Frames) : q = down[s] /\ q # <<>>
  BY <1>1, <1>2 DEF DiscoveryTypes
<1>8. PICK p \in Seq(Frames) : p = Tail(q)
  BY <1>7, TailParts
<1>9. /\ Len(q) \in Nat \ {0} /\ Len(p) = Len(q) - 1
      /\ \A k \in 1..(Len(q) - 1) : p[k] = q[k + 1]
  BY <1>7, <1>8, TailParts
<1>10. down' = [down EXCEPT ![s] = p]
  BY <1>1, <1>7, <1>8
<1> HIDE DEF s
<1>11. down'[s] = p /\ \A t \in Sockets : t # s => down'[t] = down[t]
  BY <1>2, <1>10 DEF DiscoveryTypes
<1>12. \A x \in DOMAIN members'[n] :
          \/ x \in DOMAIN members[n] /\ members'[n][x] = members[n][x]
          \/ f.type = "hello" /\ x = f.node /\ members'[n][x] = f.me
  <2>1. CASE f.type = "hello" /\ members'[n] = Upserted(members[n], f.node, f.me)
    BY <2>1 DEF Upserted, Put
  <2>2. CASE members'[n] = Delete(members[n], f.node)
    BY <2>2 DEF Delete
  <2>3. CASE members'[n] = members[n]
    BY <2>3
  <2> QED BY <1>5, <2>1, <2>2, <2>3 DEF Reads
<1>13. DiscoveryTypes'
  <2>1. down' \in [Sockets -> Seq(Frames)]
    BY <1>10 DEF DiscoveryTypes
  <2>2. \A m \in Nodes : DOMAIN members'[m] \subseteq Nodes
    <3> TAKE m \in Nodes
    <3>1. CASE m = n
      BY <1>4, <1>12, <3>1 DEF DiscoveryTypes
    <3>2. CASE m # n
      BY <1>5, <3>2 DEF DiscoveryTypes
    <3> QED BY <3>1, <3>2
  <2>3. \A x \in Nodes : client'[x].phase \in {"connecting", "open"} => Current(x)' \in Sockets
    BY <1>1, <1>6 DEF DiscoveryTypes
  <2> QED BY <1>1, <1>5, <2>1, <2>2, <2>3 DEF DiscoveryTypes
<1>14. SnapshotsAreGenuine'
  <2>1. ASSUME NEW t \in Sockets, NEW k \in 1..Len(down'[t]), down'[t][k].type = "hello"
        PROVE  Genuine(down'[t][k].node, down'[t][k].me)
    <3>1. CASE t = s
      <4>1. k + 1 \in 1..Len(q) /\ p[k] = q[k + 1]
        BY <1>9, <1>11, <2>1, <3>1
      <4> QED BY <1>2, <1>7, <1>11, <2>1, <3>1, <4>1 DEF SnapshotsAreGenuine
    <3>2. CASE t # s
      BY <1>11, <2>1, <3>2 DEF SnapshotsAreGenuine
    <3> QED BY <3>1, <3>2
  <2>2. ASSUME NEW m \in Nodes, NEW x \in DOMAIN members'[m]
        PROVE  members'[m][x] \in Snapshots /\ Genuine(x, members'[m][x])
    <3>1. CASE m = n
      BY <1>4, <1>12, <2>2, <3>1 DEF SnapshotsAreGenuine
    <3>2. CASE m # n
      BY <1>5, <2>2, <3>2 DEF SnapshotsAreGenuine
    <3> QED BY <3>1, <3>2
  <2> QED BY <1>1, <2>1, <2>2 DEF SnapshotsAreGenuine, Genuine
<1>15. MetricsAreExact' /\ OneSocketEach' /\ SocketsAreFresh'
  BY <1>1 DEF MetricsAreExact, OneSocketEach, SocketsAreFresh
<1>16. WaitersHeardNobody'
  BY <1>1, <1>5 DEF WaitersHeardNobody, HeardOf
<1>17. ServerLearns'
  BY <1>1, <1>6 DEF ServerLearns, Learns, Linked
<1>18. ClientsFollow'
  <2> SUFFICES ASSUME NEW x \in Nodes, Heeds(x)', NEW y \in Nodes \ {x}
               PROVE  Follows(x, y)'
    BY DEF ClientsFollow
  <2>1. Heeds(x)
    BY <1>1, <1>6 DEF Heeds
  <2>2. Tells(down[Current(x)], y, HeardOf(x), members[x], metadata)
    BY <2>1 DEF ClientsFollow, Follows, HeardOf
  <2>3. CASE x = n
    <3>1. y \in DOMAIN members[n] => members[n][y].version \in Nat
      BY DEF SnapshotsAreGenuine, Snapshots
    <3>2. Tells(q, y, HeardOf(n), members[n], metadata)
      BY <1>7, <2>2, <2>3 DEF s
    <3>3. Reads(n, Head(q), HeardOf(n), members[n], HeardOf(n)', members'[n])
      BY <1>3, <1>5, <1>7
    <3>4. y # n
      BY <2>3
    <3>5. Tells(Tail(q), y, HeardOf(n)', members'[n], metadata)
      BY <1>7, <3>1, <3>2, <3>3, <3>4, TellsRead
    <3>6. Current(x)' = s
      BY <1>6, <2>3 DEF s
    <3> QED BY <1>1, <1>8, <1>11, <2>3, <3>5, <3>6 DEF Follows, HeardOf
  <2>4. CASE x # n
    <3>1. Current(x) \in Sockets /\ Current(x) # s
      BY <2>1, <2>4, OtherSockets DEF Heeds, DiscoveryTypes, s
    <3> QED BY <1>1, <1>5, <1>6, <1>11, <2>2, <2>4, <3>1 DEF Follows, HeardOf
  <2> QED BY <2>3, <2>4
<1> QED BY <1>13, <1>14, <1>15, <1>16, <1>17, <1>18

-----------------------------------------------------------------------------
(* Discovery: what the server does.                                        *)

\* An attempt of a client that is still going on.
LEMMA NearParts ==
    ASSUME NEW n \in Nodes, client[n].sockets \in Nat
    PROVE  /\ client[n].phase \in {"connecting", "open"} => Near(Current(n)) = client[n].phase
           /\ \A s \in Sockets : Owner(s) = n /\ Near(s) = "connecting" =>
                s = Current(n) /\ client[n].phase = "connecting"
<1>1. ASSUME client[n].phase \in {"connecting", "open"}
      PROVE  Near(Current(n)) = client[n].phase
  <2>1. PICK k \in Nat : k = client[n].sockets
    OBVIOUS
  <2>2. Owner(Current(n)) = n /\ Current(n)[2] = k /\ ~(k > k)
    BY <2>1, CurrentParts
  <2> QED BY <1>1, <2>1, <2>2 DEF Near
<1>2. ASSUME NEW s \in Sockets, Owner(s) = n, Near(s) = "connecting"
      PROVE  s = Current(n) /\ client[n].phase = "connecting"
  <2>1. s[2] = client[n].sockets /\ client[n].phase = "connecting"
    BY <1>2 DEF Near
  <2> QED BY <1>2, <2>1, SocketParts DEF Current
<1> QED BY <1>1, <1>2

LEMMA AcceptKeeps ==
    ASSUME DiscoveryInv, NEW s \in Sockets, Accept(s)
    PROVE  DiscoveryInv'
<1> USE DEF DiscoveryInv
<1> DEFINE n == Owner(s)
<1>1. /\ Near(s) = "connecting" /\ far[s] = "unused"
      /\ far' = [far EXCEPT ![s] = "open"]
      /\ down' = [down EXCEPT ![s] = SetToSeq({Hello(i, metadata[i]) : i \in DOMAIN metadata})]
      /\ overlap' = overlap \cup {m \in {n} : \E t \in Sockets : Owner(t) = m /\ far[t] = "open"}
      /\ UNCHANGED <<up, named, metadata, metrics, local, client, directory, leftover, members>>
  BY DEF Accept, OnlyServer, clientVars
<1>2. n \in Nodes /\ s = Current(n) /\ client[n].phase = "connecting"
  <2>1. n \in Nodes
    BY SocketParts
  <2>2. client[n].sockets \in Nat
    BY <2>1 DEF DiscoveryTypes
  <2> QED BY <1>1, <2>1, <2>2, NearParts
<1>3. DOMAIN metadata \subseteq Nodes /\ \A x \in DOMAIN metadata : metadata[x] \in Snapshots
  BY DEF DiscoveryTypes
<1>4. PICK q : q = SetToSeq({Hello(i, metadata[i]) : i \in DOMAIN metadata})
  OBVIOUS
<1>5. \A x \in Nodes : Tells(q, x, {}, members[n], metadata)
  BY <1>3, <1>4, TellsFirst
<1>6. /\ q \in Seq(Frames)
      /\ \A k \in 1..Len(q) : \E x \in DOMAIN metadata : q[k] = Hello(x, metadata[x])
  BY <1>2, <1>3, <1>4, TellsFirst
<1>7. down' = [down EXCEPT ![s] = q]
  BY <1>1, <1>4
<1>8. down'[s] = q /\ \A t \in Sockets : t # s => down'[t] = down[t]
  BY <1>7 DEF DiscoveryTypes
<1>9. far'[s] = "open" /\ \A t \in Sockets : t # s => far'[t] = far[t]
  BY <1>1 DEF DiscoveryTypes
<1>10. \A x \in Nodes : Current(x)' = Current(x)
  BY <1>1 DEF Current
<1> HIDE DEF n
<1>11. DiscoveryTypes'
  <2>1. down' \in [Sockets -> Seq(Frames)]
    BY <1>6, <1>7 DEF DiscoveryTypes
  <2>2. far' \in [Sockets -> {"unused", "open", "closed"}]
    BY <1>1 DEF DiscoveryTypes
  <2>3. \A x \in Nodes : client'[x].phase \in {"connecting", "open"} => Current(x)' \in Sockets
    BY <1>1, <1>10 DEF DiscoveryTypes
  <2> QED BY <1>1, <2>1, <2>2, <2>3 DEF DiscoveryTypes
<1>12. SnapshotsAreGenuine'
  <2>1. ASSUME NEW t \in Sockets, NEW k \in 1..Len(down'[t]), down'[t][k].type = "hello"
        PROVE  Genuine(down'[t][k].node, down'[t][k].me)
    <3>1. CASE t = s
      <4>1. PICK x \in DOMAIN metadata : q[k] = Hello(x, metadata[x])
        BY <1>6, <1>8, <2>1, <3>1
      <4>2. Genuine(x, metadata[x])
        BY DEF SnapshotsAreGenuine
      <4>3. down'[t][k].node = x /\ down'[t][k].me = metadata[x]
        BY <1>8, <3>1, <4>1, FrameParts
      <4> QED BY <4>2, <4>3
    <3>2. CASE t # s
      BY <1>8, <2>1, <3>2 DEF SnapshotsAreGenuine
    <3> QED BY <3>1, <3>2
  <2> QED BY <1>1, <2>1 DEF SnapshotsAreGenuine, Genuine
<1>13. MetricsAreExact' /\ WaitersHeardNobody'
  BY <1>1 DEF MetricsAreExact, WaitersHeardNobody, HeardOf
<1>14. SocketsAreFresh'
  <2> SUFFICES ASSUME NEW t \in Sockets, t[2] > client[Owner(t)].sockets
               PROVE  far'[t] = "unused"
    BY <1>1 DEF SocketsAreFresh
  <2>1. t # s
    <3>1. s[2] = client[n].sockets /\ client[n].sockets \in Nat /\ Owner(s) = n
      BY <1>2, CurrentParts DEF n, DiscoveryTypes
    <3> QED BY <3>1
  <2> QED BY <1>9, <2>1 DEF SocketsAreFresh
<1>15. OneSocketEach'
  <2> SUFFICES ASSUME NEW t \in Sockets, NEW v \in Sockets, far'[t] = "open", far'[v] = "open",
                      Owner(t) = Owner(v), t # v
               PROVE  Owner(t) \in overlap'
    BY DEF OneSocketEach
  <2>1. CASE t # s /\ v # s
    BY <1>1, <1>9, <2>1 DEF OneSocketEach
  <2>2. CASE t = s
    <3>1. far[v] = "open" /\ Owner(v) = n
      BY <1>9, <2>2 DEF n
    <3> QED BY <1>1, <2>2, <3>1 DEF n
  <2>3. CASE v = s
    <3>1. far[t] = "open" /\ Owner(t) = n
      BY <1>9, <2>3 DEF n
    <3> QED BY <1>1, <2>3, <3>1 DEF n
  <2> QED BY <2>1, <2>2, <2>3
<1>16. ServerLearns'
  <2> SUFFICES ASSUME NEW x \in Nodes \ overlap, Linked(x)'
               PROVE  Learns(x)'
    BY <1>1 DEF ServerLearns
  <2>1. client[x].phase = "open" /\ far'[Current(x)] = "open"
    BY <1>1, <1>10 DEF Linked
  <2>2. x # n
    BY <1>2, <2>1
  <2>3. Current(x) \in Sockets /\ Current(x) # s
    BY <1>2, <2>1, <2>2, OtherSockets DEF DiscoveryTypes
  <2>4. Linked(x)
    BY <1>9, <2>1, <2>3 DEF Linked
  <2>5. Learns(x)
    BY <2>4 DEF ServerLearns
  <2> QED BY <1>1, <1>10, <2>5 DEF Learns
<1>17. ClientsFollow'
  <2> SUFFICES ASSUME NEW x \in Nodes, Heeds(x)', NEW y \in Nodes \ {x}
               PROVE  Follows(x, y)'
    BY DEF ClientsFollow
  <2>1. client[x].phase \in {"connecting", "open"} /\ far'[Current(x)] = "open"
    BY <1>1, <1>10 DEF Heeds
  <2>2. CASE x = n
    <3>1. HeardOf(n) = {}
      BY <1>2 DEF WaitersHeardNobody
    <3>2. Tells(q, y, HeardOf(n), members[n], metadata)
      BY <1>5, <3>1
    <3> QED BY <1>1, <1>2, <1>8, <1>10, <2>2, <3>2 DEF Follows, HeardOf
  <2>3. CASE x # n
    <3>1. Current(x) \in Sockets /\ Current(x) # s
      BY <1>2, <2>1, <2>3, OtherSockets DEF DiscoveryTypes
    <3>2. Heeds(x)
      BY <1>9, <2>1, <3>1 DEF Heeds
    <3>3. Follows(x, y)
      BY <3>2 DEF ClientsFollow
    <3> QED BY <1>1, <1>8, <1>10, <3>1, <3>3 DEF Follows, HeardOf
  <2> QED BY <2>2, <2>3
<1> QED BY <1>11, <1>12, <1>13, <1>14, <1>15, <1>16, <1>17

LEMMA BroadcastParts ==
    ASSUME DiscoveryInv, NEW f \in Frames, NEW s \in Sockets
    PROVE  /\ Broadcast(f, s) \in [Sockets -> Seq(Frames)]
           /\ \A t \in Sockets : \A k \in 1..Len(Broadcast(f, s)[t]) :
                \/ k \in 1..Len(down[t]) /\ Broadcast(f, s)[t][k] = down[t][k]
                \/ Broadcast(f, s)[t][k] = f
           /\ \A n \in Nodes : Heeds(n) /\ Current(n) # s =>
                Broadcast(f, s)[Current(n)] = Append(down[Current(n)], f)
           /\ Broadcast(f, s)[s] = down[s]
<1>1. down \in [Sockets -> Seq(Frames)]
  BY DEF DiscoveryInv, DiscoveryTypes
<1>2. \A t \in Sockets : Broadcast(f, s)[t] =
         IF t # s /\ far[t] = "open" /\ Near(t) # "closed" THEN Append(down[t], f) ELSE down[t]
  BY DEF Broadcast
<1>3. \A t \in Sockets : Append(down[t], f) \in Seq(Frames)
  BY <1>1, AppendParts
<1>4. Broadcast(f, s) \in [Sockets -> Seq(Frames)]
  BY <1>1, <1>3 DEF Broadcast
<1>5. ASSUME NEW t \in Sockets, NEW k \in 1..Len(Broadcast(f, s)[t])
      PROVE  \/ k \in 1..Len(down[t]) /\ Broadcast(f, s)[t][k] = down[t][k]
             \/ Broadcast(f, s)[t][k] = f
  <2>1. CASE Broadcast(f, s)[t] = down[t]
    BY <1>5, <2>1
  <2>2. CASE Broadcast(f, s)[t] = Append(down[t], f)
    <3>1. PICK p : p = Broadcast(f, s)[t]
      OBVIOUS
    <3>2. /\ Len(down[t]) \in Nat /\ Len(p) = Len(down[t]) + 1 /\ p[Len(down[t]) + 1] = f
          /\ \A j \in 1..Len(down[t]) : p[j] = down[t][j]
      BY <1>1, <2>2, <3>1, AppendParts
    <3>3. k = Len(down[t]) + 1 \/ k \in 1..Len(down[t])
      BY <1>5, <3>1, <3>2
    <3> QED BY <3>1, <3>2, <3>3
  <2> QED BY <1>2, <2>1, <2>2
<1>6. ASSUME NEW n \in Nodes, Heeds(n), Current(n) # s
      PROVE  Broadcast(f, s)[Current(n)] = Append(down[Current(n)], f)
  <2>1. Current(n) \in Sockets /\ far[Current(n)] = "open" /\ client[n].sockets \in Nat
        /\ client[n].phase \in {"connecting", "open"}
    BY <1>6 DEF Heeds, DiscoveryInv, DiscoveryTypes
  <2>2. Near(Current(n)) # "closed"
    BY <2>1, NearParts
  <2> QED BY <1>2, <1>6, <2>1, <2>2
<1> QED BY <1>2, <1>4, <1>5, <1>6

LEMMA HelloReadKeeps ==
    ASSUME DiscoveryInv, NEW s \in Sockets, HelloRead(s)
    PROVE  DiscoveryInv'
<1> USE DEF DiscoveryInv
<1>1. PICK n \in Nodes : n = Owner(s)
  BY SocketParts
<1>2. PICK q \in Seq(Snapshots) : q = up[s]
  BY DEF DiscoveryTypes
<1>3. far[s] = "open" /\ q # <<>>
  BY <1>2 DEF HelloRead
<1>4. PICK snapshot \in Snapshots : snapshot = Head(q)
  BY <1>3, TailParts
<1>5. PICK p \in Seq(Snapshots) : p = Tail(q)
  BY <1>3, TailParts
<1>6. /\ Len(q) \in Nat \ {0} /\ Len(p) = Len(q) - 1 /\ snapshot = q[1]
      /\ \A k \in 1..(Len(q) - 1) : p[k] = q[k + 1]
  BY <1>3, <1>4, <1>5, TailParts
<1>7. PICK f \in Frames : f = Hello(n, snapshot)
  BY FrameTypes
<1>8. f.node = n /\ f.me = snapshot
  BY <1>7, FrameParts
<1>9. /\ up' = [up EXCEPT ![s] = p]
      /\ metadata' = Put(metadata, n, snapshot)
      /\ metrics' = Metrics(metadata')
      /\ down' = Broadcast(f, s)
      /\ UNCHANGED <<far, overlap, local, client, directory, leftover, members>>
  BY <1>1, <1>2, <1>4, <1>5, <1>7 DEF HelloRead, OnlyServer, clientVars
<1>10. Genuine(n, snapshot)
  <2>1. 1 \in 1..Len(q)
    BY <1>6
  <2> QED BY <1>1, <1>2, <1>6, <2>1 DEF SnapshotsAreGenuine
<1>11. /\ DOMAIN metadata' = DOMAIN metadata \cup {n} /\ metadata'[n] = snapshot
       /\ \A x \in DOMAIN metadata : x # n => metadata'[x] = metadata[x]
  BY <1>9 DEF Put
<1>12. up'[s] = p /\ \A t \in Sockets : t # s => up'[t] = up[t]
  BY <1>9 DEF DiscoveryTypes
<1>13. \A x \in Nodes : Current(x)' = Current(x)
  BY <1>9 DEF Current
<1>14. DiscoveryTypes'
  <2>1. up' \in [Sockets -> Seq(Snapshots)]
    BY <1>9 DEF DiscoveryTypes
  <2>2. down' \in [Sockets -> Seq(Frames)]
    BY <1>9, BroadcastParts
  <2>3. DOMAIN metadata' \subseteq Nodes /\ \A x \in DOMAIN metadata' : metadata'[x] \in Snapshots
    BY <1>11 DEF DiscoveryTypes
  <2>4. \A x \in Nodes : client'[x].phase \in {"connecting", "open"} => Current(x)' \in Sockets
    BY <1>9, <1>13 DEF DiscoveryTypes
  <2> QED BY <1>9, <2>1, <2>2, <2>3, <2>4 DEF DiscoveryTypes
<1>15. SnapshotsAreGenuine'
  <2>1. ASSUME NEW t \in Sockets, NEW k \in 1..Len(down'[t]), down'[t][k].type = "hello"
        PROVE  Genuine(down'[t][k].node, down'[t][k].me)
    <3>1. CASE k \in 1..Len(down[t]) /\ down'[t][k] = down[t][k]
      BY <2>1, <3>1 DEF SnapshotsAreGenuine
    <3>2. CASE down'[t][k] = f
      BY <1>8, <1>10, <3>2
    <3> QED BY <1>9, <2>1, <3>1, <3>2, BroadcastParts
  <2>2. ASSUME NEW t \in Sockets, NEW k \in 1..Len(up'[t])
        PROVE  Genuine(Owner(t), up'[t][k])
    <3>1. CASE t = s
      <4>1. k + 1 \in 1..Len(q) /\ p[k] = q[k + 1]
        BY <1>6, <1>12, <2>2, <3>1
      <4> QED BY <1>2, <1>12, <3>1, <4>1 DEF SnapshotsAreGenuine
    <3>2. CASE t # s
      BY <1>12, <2>2, <3>2 DEF SnapshotsAreGenuine
    <3> QED BY <3>1, <3>2
  <2>3. ASSUME NEW x \in DOMAIN metadata'
        PROVE  Genuine(x, metadata'[x])
    BY <1>10, <1>11, <2>3 DEF SnapshotsAreGenuine
  <2> QED BY <1>9, <2>1, <2>2, <2>3 DEF SnapshotsAreGenuine, Genuine
<1>16. MetricsAreExact' /\ SocketsAreFresh' /\ WaitersHeardNobody' /\ OneSocketEach'
  BY <1>9 DEF MetricsAreExact, SocketsAreFresh, WaitersHeardNobody, HeardOf, OneSocketEach, Metrics
<1>17. ServerLearns'
  <2> SUFFICES ASSUME NEW x \in Nodes \ overlap, Linked(x)'
               PROVE  Learns(x)'
    BY <1>9 DEF ServerLearns
  <2>1. Linked(x) /\ Current(x) \in Sockets /\ far[Current(x)] = "open"
    BY <1>9, <1>13 DEF Linked, DiscoveryTypes
  <2>2. Learns(x)
    BY <2>1 DEF ServerLearns
  <2>3. CASE x = n
    <3>1. Current(x) = s
      <4>1. Owner(Current(x)) = Owner(s)
        BY <1>1, <2>3, CurrentParts
      <4> QED BY <1>1, <1>3, <2>1, <2>3, <4>1 DEF OneSocketEach
    <3>2. q[Len(q)] = local[x]
      BY <1>2, <1>3, <2>2, <3>1 DEF Learns
    <3>3. p = <<>> => metadata'[x] = local[x] /\ x \in DOMAIN metadata'
      <4>1. ASSUME p = <<>>
            PROVE  Len(q) = 1
        <5>1. Len(p) = 0
          BY <4>1
        <5> QED BY <1>6, <5>1
      <4> QED BY <1>6, <1>11, <2>3, <3>2, <4>1
    <3>4. p # <<>> => p[Len(p)] = local[x]
      <4>1. ASSUME p # <<>>
            PROVE  Len(p) \in 1..(Len(q) - 1) /\ Len(p) + 1 = Len(q)
        <5>1. Len(p) # 0 /\ Len(p) \in Nat
          BY <4>1, EmptySeq, LenProperties
        <5> QED BY <1>6, <5>1
      <4> QED BY <1>6, <3>2, <4>1
    <3> QED BY <1>9, <1>12, <1>13, <3>1, <3>3, <3>4 DEF Learns
  <2>4. CASE x # n
    <3>1. Current(x) # s
      BY <1>1, <2>4, CurrentParts
    <3>2. up'[Current(x)] = up[Current(x)]
      BY <1>12, <2>1, <3>1
    <3> QED BY <1>9, <1>11, <1>13, <2>2, <2>4, <3>2 DEF Learns
  <2> QED BY <2>3, <2>4
<1>18. ClientsFollow'
  <2> SUFFICES ASSUME NEW x \in Nodes, Heeds(x)', NEW y \in Nodes \ {x}
               PROVE  Follows(x, y)'
    BY DEF ClientsFollow
  <2>1. Heeds(x) /\ Current(x) \in Sockets
    BY <1>9, <1>13 DEF Heeds, DiscoveryTypes
  <2>2. Tells(down[Current(x)], y, HeardOf(x), members[x], metadata)
    BY <2>1 DEF ClientsFollow, Follows, HeardOf
  <2>3. CASE Current(x) = s
    <3>1. y # n
      BY <1>1, <2>3, CurrentParts
    <3>2. down'[s] = down[s]
      BY <1>9, BroadcastParts
    <3>3. /\ y \in DOMAIN metadata' <=> y \in DOMAIN metadata
          /\ y \in DOMAIN metadata => metadata'[y] = metadata[y]
      BY <1>11, <3>1
    <3>4. Tells(down[s], y, HeardOf(x), members[x], metadata')
      BY <2>2, <2>3, <3>3, TellsOthers
    <3> QED BY <1>9, <1>13, <2>3, <3>2, <3>4 DEF Follows, HeardOf
  <2>4. CASE Current(x) # s
    <3>1. down'[Current(x)] = Append(down[Current(x)], Hello(n, snapshot))
      BY <1>7, <1>9, <2>1, <2>4, BroadcastParts
    <3>2. down[Current(x)] \in Seq(Frames)
      BY <2>1 DEF DiscoveryTypes
    <3>3. Tells(down'[Current(x)], y, HeardOf(x), members[x], metadata')
      BY <1>9, <2>2, <3>1, <3>2, TellsHello
    <3> QED BY <1>9, <1>13, <3>3 DEF Follows, HeardOf
  <2> QED BY <2>3, <2>4
<1> QED BY <1>14, <1>15, <1>16, <1>17, <1>18

LEMMA ServerLosesKeeps ==
    ASSUME DiscoveryInv, NEW s \in Sockets, ServerLoses(s)
    PROVE  DiscoveryInv'
<1> USE DEF DiscoveryInv
<1>1. PICK n \in Nodes : n = Owner(s)
  BY SocketParts
<1>2. PICK f \in Frames : f = Offline(n)
  BY FrameTypes
<1>3. f.type = "offline"
  BY <1>2, FrameParts
<1>4. /\ far[s] = "open"
      /\ far' = [far EXCEPT ![s] = "closed"]
      /\ up' = [up EXCEPT ![s] = <<>>]
      /\ UNCHANGED <<overlap, local, client, directory, leftover, members>>
  BY DEF ServerLoses, OnlyServer, clientVars
<1>5. \/ metadata' = Delete(metadata, n) /\ metrics' = Metrics(metadata') /\ down' = Broadcast(f, s)
      \/ UNCHANGED <<metadata, metrics, down>>
  BY <1>1, <1>2 DEF ServerLoses
<1>6. /\ DOMAIN metadata' \subseteq DOMAIN metadata /\ DOMAIN metadata \ {n} \subseteq DOMAIN metadata'
      /\ \A x \in DOMAIN metadata' : metadata'[x] = metadata[x]
  BY <1>5 DEF Delete
<1>7. up'[s] = <<>> /\ \A t \in Sockets : t # s => up'[t] = up[t]
  BY <1>4 DEF DiscoveryTypes
<1>8. far'[s] = "closed" /\ \A t \in Sockets : t # s => far'[t] = far[t]
  BY <1>4 DEF DiscoveryTypes
<1>9. \A x \in Nodes : Current(x)' = Current(x)
  BY <1>4 DEF Current
<1>10. \A t \in Sockets : \A k \in 1..Len(down'[t]) : down'[t][k].type = "hello" =>
          k \in 1..Len(down[t]) /\ down'[t][k] = down[t][k]
  <2>1. CASE down' = down
    BY <2>1
  <2>2. CASE down' = Broadcast(f, s)
    BY <1>3, <2>2, BroadcastParts
  <2> QED BY <1>5, <2>1, <2>2
<1>11. DiscoveryTypes'
  <2>1. down' \in [Sockets -> Seq(Frames)]
    <3>1. CASE down' = down
      BY <3>1 DEF DiscoveryTypes
    <3>2. CASE down' = Broadcast(f, s)
      BY <3>2, BroadcastParts
    <3> QED BY <1>5, <3>1, <3>2
  <2>2. <<>> \in Seq(Snapshots)
    OBVIOUS
  <2>3. up' \in [Sockets -> Seq(Snapshots)] /\ far' \in [Sockets -> {"unused", "open", "closed"}]
    BY <1>4, <2>2 DEF DiscoveryTypes
  <2>4. DOMAIN metadata' \subseteq Nodes /\ \A x \in DOMAIN metadata' : metadata'[x] \in Snapshots
    BY <1>6 DEF DiscoveryTypes
  <2>5. \A x \in Nodes : client'[x].phase \in {"connecting", "open"} => Current(x)' \in Sockets
    BY <1>4, <1>9 DEF DiscoveryTypes
  <2> QED BY <1>4, <2>1, <2>3, <2>4, <2>5 DEF DiscoveryTypes
<1>12. SnapshotsAreGenuine'
  <2>1. ASSUME NEW t \in Sockets, NEW k \in 1..Len(down'[t]), down'[t][k].type = "hello"
        PROVE  Genuine(down'[t][k].node, down'[t][k].me)
    BY <1>10, <2>1 DEF SnapshotsAreGenuine
  <2>2. ASSUME NEW t \in Sockets, NEW k \in 1..Len(up'[t])
        PROVE  Genuine(Owner(t), up'[t][k])
    <3>1. Len(<<>>) = 0
      OBVIOUS
    <3>2. up'[t] = up[t]
      BY <1>7, <2>2, <3>1
    <3> QED BY <2>2, <3>2 DEF SnapshotsAreGenuine
  <2>3. ASSUME NEW x \in DOMAIN metadata'
        PROVE  Genuine(x, metadata'[x])
    BY <1>6, <2>3 DEF SnapshotsAreGenuine
  <2> QED BY <1>4, <2>1, <2>2, <2>3 DEF SnapshotsAreGenuine, Genuine
<1>13. MetricsAreExact'
  BY <1>5 DEF MetricsAreExact, Metrics
<1>14. WaitersHeardNobody'
  BY <1>4 DEF WaitersHeardNobody, HeardOf
<1>15. SocketsAreFresh'
  <2> SUFFICES ASSUME NEW t \in Sockets, t[2] > client[Owner(t)].sockets
               PROVE  far'[t] = "unused"
    BY <1>4 DEF SocketsAreFresh
  <2>1. far[t] = "unused"
    BY DEF SocketsAreFresh
  <2> QED BY <1>4, <1>8, <2>1
<1>16. OneSocketEach'
  BY <1>4, <1>8 DEF OneSocketEach
<1>17. \A x \in Nodes : client'[x].phase \in {"connecting", "open"} /\ far'[Current(x)'] = "open" =>
          Heeds(x) /\ Current(x) \in Sockets /\ Current(x) # s
  BY <1>4, <1>8, <1>9 DEF Heeds, DiscoveryTypes
<1>18. ServerLearns'
  <2> SUFFICES ASSUME NEW x \in Nodes \ overlap, Linked(x)'
               PROVE  Learns(x)'
    BY <1>4 DEF ServerLearns
  <2>1. Heeds(x) /\ Current(x) \in Sockets /\ Current(x) # s
    BY <1>17 DEF Linked
  <2>2. Linked(x)
    BY <1>4, <2>1 DEF Linked, Heeds
  <2>3. Learns(x)
    BY <2>2 DEF ServerLearns
  <2>4. x # n
    <3>1. ASSUME x = n
          PROVE  FALSE
      <4>1. Owner(Current(x)) = Owner(s)
        BY <1>1, <3>1, CurrentParts
      <4> QED BY <1>1, <1>4, <2>1, <3>1, <4>1 DEF OneSocketEach, Heeds
    <3> QED BY <3>1
  <2>5. up'[Current(x)] = up[Current(x)]
    BY <1>7, <2>1
  <2> QED BY <1>4, <1>6, <1>9, <2>3, <2>4, <2>5 DEF Learns
<1>19. ClientsFollow'
  <2> SUFFICES ASSUME NEW x \in Nodes, Heeds(x)', NEW y \in Nodes \ {x}
               PROVE  Follows(x, y)'
    BY DEF ClientsFollow
  <2>1. Heeds(x) /\ Current(x) \in Sockets /\ Current(x) # s
    BY <1>17 DEF Heeds
  <2>2. Tells(down[Current(x)], y, HeardOf(x), members[x], metadata)
    BY <2>1 DEF ClientsFollow, Follows, HeardOf
  <2>3. CASE UNCHANGED <<metadata, down>>
    BY <1>4, <1>9, <2>2, <2>3 DEF Follows, HeardOf
  <2>4. CASE metadata' = Delete(metadata, n) /\ down' = Broadcast(f, s)
    <3>1. down'[Current(x)] = Append(down[Current(x)], Offline(n))
      BY <1>2, <2>1, <2>4, BroadcastParts
    <3>2. down[Current(x)] \in Seq(Frames)
      BY <2>1 DEF DiscoveryTypes
    <3>3. Tells(down'[Current(x)], y, HeardOf(x), members[x], metadata')
      BY <2>2, <2>4, <3>1, <3>2, TellsOffline
    <3> QED BY <1>4, <1>9, <3>3 DEF Follows, HeardOf
  <2> QED BY <1>5, <2>3, <2>4
<1> QED BY <1>11, <1>12, <1>13, <1>14, <1>15, <1>16, <1>18, <1>19

LEMMA CrashKeeps ==
    ASSUME DiscoveryInv, Crash
    PROVE  DiscoveryInv'
<1> USE DEF DiscoveryInv
<1>1. /\ far' = [s \in Sockets |-> IF far[s] = "open" THEN "closed" ELSE far[s]]
      /\ up' = [s \in Sockets |-> <<>>]
      /\ metadata' = Nothing /\ metrics' = Nothing
      /\ UNCHANGED <<down, overlap, local, client, directory, leftover, members>>
  BY DEF Crash, OnlyServer, clientVars
<1>2. \A s \in Sockets : far'[s] # "open" /\ (far[s] = "unused" => far'[s] = "unused")
  BY <1>1 DEF DiscoveryTypes
<1>3. DOMAIN metadata' = {}
  BY <1>1 DEF Nothing
<1>4. \A x \in Nodes : Current(x)' = Current(x)
  BY <1>1 DEF Current
<1>5. \A x \in Nodes : client'[x].phase \in {"connecting", "open"} => far'[Current(x)'] # "open"
  BY <1>1, <1>2, <1>4 DEF DiscoveryTypes
<1>6. DiscoveryTypes'
  <2>1. <<>> \in Seq(Snapshots)
    OBVIOUS
  <2>2. up' \in [Sockets -> Seq(Snapshots)] /\ far' \in [Sockets -> {"unused", "open", "closed"}]
    BY <1>1, <2>1 DEF DiscoveryTypes
  <2>3. \A x \in Nodes : client'[x].phase \in {"connecting", "open"} => Current(x)' \in Sockets
    BY <1>1, <1>4 DEF DiscoveryTypes
  <2> QED BY <1>1, <1>3, <2>2, <2>3 DEF DiscoveryTypes
<1>7. SnapshotsAreGenuine'
  <2>1. Len(<<>>) = 0
    OBVIOUS
  <2>2. \A s \in Sockets : Len(up'[s]) = 0
    BY <1>1, <2>1
  <2> QED BY <1>1, <1>3, <2>2 DEF SnapshotsAreGenuine, Genuine
<1>8. MetricsAreExact'
  BY <1>1 DEF MetricsAreExact, Metrics, Nothing
<1>9. WaitersHeardNobody' /\ SocketsAreFresh' /\ OneSocketEach'
  BY <1>1, <1>2 DEF WaitersHeardNobody, HeardOf, SocketsAreFresh, OneSocketEach
<1>10. ServerLearns' /\ ClientsFollow'
  BY <1>5 DEF ServerLearns, Linked, ClientsFollow, Heeds
<1> QED BY <1>6, <1>7, <1>8, <1>9, <1>10

LEMMA DiscoveryStutters ==
    ASSUME DiscoveryInv,
           UNCHANGED <<local, client, directory, leftover, members, far, up, down, metadata, metrics, overlap>>
    PROVE  DiscoveryInv'
  BY DEF DiscoveryInv, DiscoveryTypes, SnapshotsAreGenuine, Genuine, MetricsAreExact,
     SocketsAreFresh, WaitersHeardNobody, HeardOf, OneSocketEach, ServerLearns, Learns, Linked,
     Current, ClientsFollow, Heeds, Follows

LEMMA DiscoveryStepKeeps ==
    ASSUME DiscoveryInv, DiscoveryStep
    PROVE  DiscoveryInv'
<1>1. ASSUME NEW n \in Nodes,
             \/ Connect(n) \/ Opened(n) \/ Refused(n) \/ CloseClient(n) \/ FrameRead(n)
             \/ \E how \in {"close", "error"} : Lost(n, how)
      PROVE  DiscoveryInv'
  BY <1>1, ConnectKeeps, OpenedKeeps, RefusedKeeps, LostKeeps, CloseClientKeeps, FrameReadKeeps
<1>2. ASSUME NEW s \in Sockets, Accept(s) \/ HelloRead(s) \/ ServerLoses(s)
      PROVE  DiscoveryInv'
  BY <1>2, AcceptKeeps, HelloReadKeeps, ServerLosesKeeps
<1>3. ASSUME Restart
      PROVE  DiscoveryInv'
  BY <1>3, DiscoveryStutters DEF Restart, OnlyServer, clientVars
<1> QED BY <1>1, <1>2, <1>3, CrashKeeps DEF DiscoveryStep

-----------------------------------------------------------------------------
(* What a process announces.                                               *)

Values == {"absent", "gone", "present"} \cup Endpoints

LEMMA SetMetadataParts ==
    ASSUME local \in [Nodes -> Snapshots], NEW n \in Nodes, NEW name \in Names,
           NEW values \in Seq(Values)
    PROVE  LET r == SetMetadata(n, name, values) IN
           /\ r \in Seq(Snapshots) /\ Len(r) = Len(values) /\ Len(r) \in Nat
           /\ \A k \in 1..Len(r) :
                /\ r[k].version = local[n].version + k
                /\ r[k].topics = local[n].topics
                /\ r[k].transporters[name] = values[k]
                /\ \A other \in Names : other # name =>
                     r[k].transporters[other] = local[n].transporters[other]
<1>1. PICK size \in Nat : size = Len(values)
  BY LenProperties
<1>2. PICK version \in Nat : version = local[n].version
  BY DEF Snapshots
<1>3. local[n] \in [version : Nat, topics : SUBSET Topics, transporters : [Names -> Values]]
  BY DEF Snapshots, Values
<1>4. PICK r : r = SetMetadata(n, name, values)
  OBVIOUS
<1>5. r = [k \in 1..size |->
             [RefreshTransporter(local[n], name, values[k]) EXCEPT !.version = version + k]]
  BY <1>1, <1>2, <1>4 DEF SetMetadata
<1>6. ASSUME NEW k \in 1..size
      PROVE  /\ r[k] \in Snapshots
             /\ r[k].version = version + k
             /\ r[k].topics = local[n].topics
             /\ r[k].transporters[name] = values[k]
             /\ \A other \in Names : other # name =>
                  r[k].transporters[other] = local[n].transporters[other]
  <2>1. PICK value \in Values : value = values[k]
    BY <1>1, ElementOfSeq
  <2>2. PICK map \in [Names -> Values] : map = [local[n].transporters EXCEPT ![name] = value]
    BY <1>3
  <2>3. map[name] = value /\ \A other \in Names : other # name =>
                                map[other] = local[n].transporters[other]
    BY <1>3, <2>2
  <2>4. PICK e : e = [local[n] EXCEPT !.version = @ + 1, !.transporters[name] = value]
    OBVIOUS
  <2>5. e = [local[n] EXCEPT !.version = version + 1, !.transporters = map]
    BY <1>2, <1>3, <2>2, <2>4
  <2>6. r[k] = [e EXCEPT !.version = version + k]
    BY <1>5, <2>1, <2>4 DEF RefreshTransporter
  <2>7. version + 1 \in Nat /\ version + k \in Nat
    OBVIOUS
  <2>8. e \in [version : Nat, topics : SUBSET Topics, transporters : [Names -> Values]]
        /\ e.topics = local[n].topics /\ e.transporters = map
    BY <1>3, <2>5, <2>7
  <2>9. r[k] \in [version : Nat, topics : SUBSET Topics, transporters : [Names -> Values]]
        /\ r[k].version = version + k /\ r[k].topics = local[n].topics /\ r[k].transporters = map
    BY <2>6, <2>7, <2>8
  <2> QED BY <2>1, <2>3, <2>9 DEF Snapshots, Values
<1>7. r \in [1..size -> Snapshots]
  BY <1>5, <1>6
<1>8. r \in Seq(Snapshots) /\ Len(r) = size
  BY <1>7
<1> QED BY <1>1, <1>2, <1>4, <1>6, <1>8

\* Metadata of a transporter are announced: of the RPC transporter, or of an event
\* transporter of the process itself.
LEMMA MetadataProper ==
    ASSUME local \in [Nodes -> Snapshots], NEW n \in Nodes, Own(n, local[n]),
           NEW name \in Names, NEW values \in Seq(Values),
           \A k \in 1..Len(values) : values[k] \in Instances /\ (\E i \in Instances : NameOf[i] = name)
                                     => HomeOf[values[k]] = n
    PROVE  Proper(n, SetMetadata(n, name, values))
<1>1. PICK r : r = SetMetadata(n, name, values)
  OBVIOUS
<1>2. PICK size \in Nat : size = Len(r)
  BY <1>1, SetMetadataParts
<1>3. PICK version \in Nat : version = local[n].version
  BY DEF Snapshots
<1>4. /\ r \in Seq(Snapshots) /\ Len(values) = size
      /\ \A k \in 1..size :
           /\ r[k].version = version + k
           /\ r[k].transporters[name] = values[k]
           /\ \A other \in Names : other # name =>
                r[k].transporters[other] = local[n].transporters[other]
  BY <1>1, <1>2, <1>3, SetMetadataParts
<1>5. ASSUME NEW k \in 1..size
      PROVE  Own(n, r[k])
  <2> SUFFICES ASSUME NEW i \in Instances, r[k].transporters[NameOf[i]] \in Instances
               PROVE  HomeOf[r[k].transporters[NameOf[i]]] = n
    BY DEF Own
  <2>1. NameOf[i] \in Names
    BY EventBusAssumption
  <2>2. CASE NameOf[i] = name
    BY <1>4, <2>2
  <2>3. CASE NameOf[i] # name
    <3>1. r[k].transporters[NameOf[i]] = local[n].transporters[NameOf[i]]
      BY <1>4, <2>1, <2>3
    <3> QED BY <3>1 DEF Own
  <2> QED BY <2>2, <2>3
<1>6. \A k \in 1..size : version <= version + k /\ version + k <= version + size /\ size \in 1..size
  OBVIOUS
<1>7. \A k \in 1..size : version <= r[k].version /\ r[k].version <= r[size].version
  BY <1>4, <1>6
<1> QED BY <1>1, <1>2, <1>3, <1>4, <1>5, <1>7 DEF Proper

LEMMA MetadataAnnounced ==
    ASSUME local \in [Nodes -> Snapshots], NEW n \in Nodes, NEW name \in Names,
           NEW values \in Seq(Values), Announce(n, SetMetadata(n, name, values))
    PROVE  /\ \A x \in Nodes : local'[x].topics = local[x].topics
           /\ \A x \in Nodes : \A other \in Names : x # n \/ other # name =>
                local'[x].transporters[other] = local[x].transporters[other]
           /\ values = <<>> => local' = local
           /\ values # <<>> => local'[n].transporters[name] = values[Len(values)]
<1>1. PICK r : r = SetMetadata(n, name, values)
  OBVIOUS
<1>2. PICK size \in Nat : size = Len(r)
  BY <1>1, SetMetadataParts
<1>3. /\ r \in Seq(Snapshots) /\ Len(values) = size
      /\ \A k \in 1..size :
           /\ r[k].topics = local[n].topics
           /\ r[k].transporters[name] = values[k]
           /\ \A other \in Names : other # name =>
                r[k].transporters[other] = local[n].transporters[other]
  BY <1>1, <1>2, SetMetadataParts
<1>4. local' = [local EXCEPT ![n] = IF r = <<>> THEN @ ELSE Last(r)]
  BY <1>1 DEF Announce
<1>5. (r = <<>> <=> size = 0) /\ (values = <<>> <=> size = 0)
  BY <1>2, <1>3, EmptySeq
<1>6. CASE size = 0
  <2>1. local' = local
    BY <1>4, <1>5, <1>6
  <2> QED BY <1>5, <1>6, <2>1
<1>7. CASE size # 0
  <2>1. size \in 1..size
    BY <1>7
  <2>2. local' = [local EXCEPT ![n] = r[size]]
    BY <1>2, <1>4, <1>5, <1>7 DEF Last
  <2>3. local'[n] = r[size] /\ \A x \in Nodes : x # n => local'[x] = local[x]
    BY <2>2
  <2> QED BY <1>3, <1>5, <1>7, <2>1, <2>3
<1> QED BY <1>6, <1>7

LEMMA TopicsProper ==
    ASSUME local \in [Nodes -> Snapshots], NEW n \in Nodes, Own(n, local[n]),
           NEW topics \in SUBSET Topics
    PROVE  /\ Proper(n, SetLocalTopics(n, topics))
           /\ Announce(n, SetLocalTopics(n, topics)) =>
                /\ local'[n].topics = topics
                /\ \A x \in Nodes : local'[x].transporters = local[x].transporters
                /\ \A x \in Nodes : x # n => local'[x] = local[x]
<1>1. PICK e : e = RefreshTopics(local[n], topics)
  OBVIOUS
<1>2. PICK version \in Nat : version = local[n].version
  BY DEF Snapshots
<1>3. version + 1 \in Nat /\ version <= version + 1 /\ version + 1 <= version + 1
  OBVIOUS
<1>4. e = [local[n] EXCEPT !.version = version + 1, !.topics = topics]
  BY <1>1, <1>2 DEF RefreshTopics
<1>5. /\ e \in Snapshots /\ e.version = version + 1 /\ e.topics = topics
      /\ e.transporters = local[n].transporters
  BY <1>3, <1>4 DEF Snapshots
<1>6. Own(n, e)
  BY <1>5 DEF Own
<1>7. CASE topics = local[n].topics
  <2>1. SetLocalTopics(n, topics) = <<>> /\ Len(<<>>) = 0 /\ <<>> \in Seq(Snapshots)
    BY <1>7 DEF SetLocalTopics
  <2>2. Proper(n, SetLocalTopics(n, topics))
    BY <2>1 DEF Proper
  <2>3. Announce(n, SetLocalTopics(n, topics)) => local' = local
    BY <2>1 DEF Announce
  <2> QED BY <1>7, <2>2, <2>3
<1>8. CASE topics # local[n].topics
  <2>1. PICK r : r = SetLocalTopics(n, topics)
    OBVIOUS
  <2>2. r = <<e>>
    BY <1>1, <1>8, <2>1 DEF SetLocalTopics
  <2>3. r \in Seq(Snapshots) /\ Len(r) = 1 /\ r[1] = e /\ r # <<>>
    BY <1>5, <2>2
  <2>4. \A k \in 1..1 : k = 1
    OBVIOUS
  <2>5. Proper(n, r)
    BY <1>2, <1>3, <1>5, <1>6, <2>3, <2>4 DEF Proper
  <2>6. ASSUME Announce(n, r)
        PROVE  /\ local'[n].topics = topics
               /\ \A x \in Nodes : local'[x].transporters = local[x].transporters
               /\ \A x \in Nodes : x # n => local'[x] = local[x]
    <3>1. local' = [local EXCEPT ![n] = e]
      BY <2>3, <2>6 DEF Announce, Last
    <3>2. local'[n] = e /\ \A x \in Nodes : x # n => local'[x] = local[x]
      BY <3>1
    <3> QED BY <1>5, <3>2
  <2> QED BY <2>1, <2>5, <2>6
<1> QED BY <1>7, <1>8

LEMMA RemoveAtFacts ==
    ASSUME NEW S, NEW s \in Seq(S), NEW j \in 1..Len(s)
    PROVE  /\ RemoveAt(s, j) \in Seq(S)
           /\ Len(RemoveAt(s, j)) = Len(s) - 1
           /\ \A i \in 1..(Len(s) - 1) : RemoveAt(s, j)[i] = IF i < j THEN s[i] ELSE s[i + 1]
<1> DEFINE front == SubSeq(s, 1, j - 1)
           back == SubSeq(s, j + 1, Len(s))
<1>1. Len(s) \in Nat /\ \A i \in 1..Len(s) : s[i] \in S
  BY LenProperties, ElementOfSeq
<1>2. /\ front \in Seq(S) /\ Len(front) = j - 1
      /\ \A i \in 1..(j - 1) : front[i] = s[i]
  <2>1. \A i \in 1..(j - 1) : s[i] \in S
    BY <1>1
  <2>2. /\ front \in Seq(S) /\ Len(front) = IF 1 <= j - 1 THEN (j - 1) - 1 + 1 ELSE 0
        /\ \A i \in 1..((j - 1) - 1 + 1) : front[i] = s[1 + i - 1]
    BY <1>1, <2>1, SubSeqProperties
  <2> HIDE DEF front
  <2> QED
    BY <1>1, <2>2
<1>3. /\ back \in Seq(S) /\ Len(back) = Len(s) - j
      /\ \A i \in 1..(Len(s) - j) : back[i] = s[j + i]
  <2>1. \A i \in (j + 1)..Len(s) : s[i] \in S
    BY <1>1
  <2>2. /\ back \in Seq(S)
        /\ Len(back) = IF j + 1 <= Len(s) THEN Len(s) - (j + 1) + 1 ELSE 0
        /\ \A i \in 1..(Len(s) - (j + 1) + 1) : back[i] = s[(j + 1) + i - 1]
    BY <1>1, <2>1, SubSeqProperties
  <2> HIDE DEF back
  <2> QED
    BY <1>1, <2>2
<1>4. RemoveAt(s, j) = front \o back
  BY DEF RemoveAt
<1> HIDE DEF front, back
<1>5. /\ front \o back \in Seq(S)
      /\ Len(front \o back) = Len(front) + Len(back)
      /\ \A i \in 1..(Len(front) + Len(back)) :
            (front \o back)[i] = IF i <= Len(front) THEN front[i] ELSE back[i - Len(front)]
  BY <1>2, <1>3, ConcatProperties
<1>6. Len(front) + Len(back) = Len(s) - 1
  BY <1>1, <1>2, <1>3
<1>7. ASSUME NEW i \in 1..(Len(s) - 1)
      PROVE  (front \o back)[i] = IF i < j THEN s[i] ELSE s[i + 1]
  <2>1. CASE i < j
    BY <1>1, <1>2, <1>5, <1>6, <2>1
  <2>2. CASE ~(i < j)
    <3>1. i - (j - 1) \in 1..(Len(s) - j) /\ j + (i - (j - 1)) = i + 1
      BY <1>1, <2>2
    <3>2. back[i - (j - 1)] = s[i + 1]
      BY <1>3, <3>1
    <3> QED
      BY <1>1, <1>2, <1>5, <1>6, <2>2, <3>2
  <2> QED
    BY <2>1, <2>2
<1> QED
  BY <1>1, <1>4, <1>5, <1>6, <1>7

-----------------------------------------------------------------------------
(* The buses.                                                              *)

LEMMA RegisteredParts ==
    ASSUME BusTypes, TransportersAreApart, NEW i \in Instances
    PROVE  /\ HomeOf[i] \in Nodes /\ NameOf[i] \in Names /\ i \in Values
           /\ NameOf[i] # RpcName
           /\ Registered(i) <=> \E k \in 1..Len(transporters[HomeOf[i]]) : transporters[HomeOf[i]][k] = i
           /\ \A j \in Instances : Registered(i) /\ Registered(j) /\ HomeOf[i] = HomeOf[j]
                                   /\ NameOf[i] = NameOf[j] => i = j
<1>1. HomeOf[i] \in Nodes /\ NameOf[i] \in Names /\ i \in Values /\ NameOf[i] # RpcName
  BY EventBusAssumption DEF Values
<1>2. \A j \in Instances : HomeOf[j] \in Nodes =>
         (Registered(j) <=> \E k \in 1..Len(transporters[HomeOf[j]]) : transporters[HomeOf[j]][k] = j)
  <2> SUFFICES ASSUME NEW j \in Instances, HomeOf[j] \in Nodes
               PROVE  Registered(j) <=> \E k \in 1..Len(transporters[HomeOf[j]]) : transporters[HomeOf[j]][k] = j
    OBVIOUS
  <2>1. PICK q \in Seq(Instances) : q = transporters[HomeOf[j]]
    BY DEF BusTypes
  <2>2. DOMAIN q = 1..Len(q)
    OBVIOUS
  <2>3. Registered(j) <=> \E k \in DOMAIN q : q[k] = j
    BY <2>1 DEF Registered, ToSet
  <2> QED BY <2>1, <2>2, <2>3
<1>3. \A j \in Instances : HomeOf[j] \in Nodes
  BY EventBusAssumption
<1>4. ASSUME NEW j \in Instances, Registered(i), Registered(j), HomeOf[i] = HomeOf[j],
             NameOf[i] = NameOf[j]
      PROVE  i = j
  BY <1>1, <1>2, <1>3, <1>4 DEF TransportersAreApart
<1> QED BY <1>1, <1>2, <1>4

\* What is announced of an RPC transporter leaves the event transporters alone.
LEMMA RpcAnnounced ==
    ASSUME DiscoveryInv, BusInv, NEW n \in Nodes, NEW values \in Seq(Values),
           Announce(n, SetMetadata(n, RpcName, values)),
           UNCHANGED <<transporters, references, listeners, serving>>
    PROVE  DiscoveryInv' /\ BusInv'
<1>1. local \in [Nodes -> Snapshots] /\ Own(n, local[n]) /\ RpcName \in Names
  BY LocalNodeAssumption DEF DiscoveryInv, DiscoveryTypes, SnapshotsAreGenuine
<1>2. ~ \E i \in Instances : NameOf[i] = RpcName
  BY EventBusAssumption
<1>3. Proper(n, SetMetadata(n, RpcName, values))
  BY <1>1, <1>2, MetadataProper
<1>4. DiscoveryInv'
  BY <1>3, AnnounceKeeps
<1>5. /\ \A x \in Nodes : local'[x].topics = local[x].topics
      /\ \A x \in Nodes : \A other \in Names : other # RpcName =>
           local'[x].transporters[other] = local[x].transporters[other]
  BY <1>1, MetadataAnnounced
<1>6. \A i \in Instances : local'[HomeOf[i]].transporters[NameOf[i]] = local[HomeOf[i]].transporters[NameOf[i]]
  <2>1. \A i \in Instances : HomeOf[i] \in Nodes /\ NameOf[i] \in Names /\ NameOf[i] # RpcName
    BY EventBusAssumption
  <2> QED BY <1>5, <2>1
<1>7. EndpointsAreAnnounced'
  <2>1. \A i \in Instances : Registered(i)' <=> Registered(i)
    BY DEF Registered
  <2>2. \A i \in Instances :
          local[HomeOf[i]].transporters[NameOf[i]] = i <=> Registered(i) /\ serving[i] # "starting"
    BY DEF BusInv, EndpointsAreAnnounced
  <2> QED BY <1>6, <2>1, <2>2 DEF EndpointsAreAnnounced
<1>8. TopicsAreAnnounced'
  BY <1>5 DEF BusInv, TopicsAreAnnounced
<1>9. BusTypes' /\ TransportersAreApart' /\ ReferencesAreExact'
  BY DEF BusInv, BusTypes, TransportersAreApart, ReferencesAreExact, Audience
<1> QED BY <1>4, <1>7, <1>8, <1>9 DEF BusInv

LEMMA LocalStepKeeps ==
    ASSUME DiscoveryInv, BusInv, LocalStep,
           UNCHANGED <<transporters, references, listeners, serving>>
    PROVE  DiscoveryInv' /\ BusInv'
<1>1. PICK n \in Nodes : RegisterRpc(n) \/ RpcEndpoints(n) \/ UnregisterRpc(n)
  BY DEF LocalStep
<1>2. RpcEndpoint \in Values /\ "gone" \in Values /\ "present" \in Values
  BY LocalNodeAssumption DEF Values
<1>3. CASE RegisterRpc(n)
  <2>1. PICK endpoints \in InitialEndpoints :
           Announce(n, SetMetadata(n, RpcName, Presence(n) \o endpoints))
    BY <1>3 DEF RegisterRpc
  <2>2. <<>> \in Seq(Values) /\ <<RpcEndpoint>> \in Seq(Values) /\ <<"present">> \in Seq(Values)
    BY <1>2
  <2>3. endpoints \in Seq(Values) /\ Presence(n) \in Seq(Values)
    BY <2>2 DEF InitialEndpoints, Presence
  <2>4. Presence(n) \o endpoints \in Seq(Values)
    BY <2>3, ConcatParts
  <2> QED BY <2>1, <2>4, RpcAnnounced
<1>4. CASE RpcEndpoints(n)
  <2>1. <<RpcEndpoint>> \in Seq(Values)
    BY <1>2
  <2> QED BY <1>4, <2>1, RpcAnnounced DEF RpcEndpoints
<1>5. CASE UnregisterRpc(n)
  <2>1. <<"gone">> \in Seq(Values)
    BY <1>2
  <2> QED BY <1>5, <2>1, RpcAnnounced DEF UnregisterRpc
<1> QED BY <1>1, <1>3, <1>4, <1>5

\* What is announced of an event transporter, which becomes value (none: is left alone).
LEMMA EventAnnounced ==
    ASSUME DiscoveryInv, BusInv, NEW i \in Instances, NEW values \in Seq(Values),
           \A k \in 1..Len(values) : values[k] = i \/ values[k] \notin Instances,
           Announce(HomeOf[i], SetMetadata(HomeOf[i], NameOf[i], values))
    PROVE  /\ DiscoveryInv'
           /\ \A x \in Nodes : local'[x].topics = local[x].topics
           /\ \A j \in Instances : HomeOf[j] # HomeOf[i] \/ NameOf[j] # NameOf[i] =>
                local'[HomeOf[j]].transporters[NameOf[j]] = local[HomeOf[j]].transporters[NameOf[j]]
           /\ values = <<>> => local' = local
           /\ values # <<>> => local'[HomeOf[i]].transporters[NameOf[i]] = values[Len(values)]
<1>1. PICK n \in Nodes : n = HomeOf[i]
  BY RegisteredParts DEF BusInv
<1>2. PICK name \in Names : name = NameOf[i]
  BY RegisteredParts DEF BusInv
<1>3. local \in [Nodes -> Snapshots] /\ Own(n, local[n])
  BY DEF DiscoveryInv, DiscoveryTypes, SnapshotsAreGenuine
<1>4. \A k \in 1..Len(values) : values[k] \in Instances => HomeOf[values[k]] = n
  BY <1>1
<1>5. Proper(n, SetMetadata(n, name, values))
  BY <1>3, <1>4, MetadataProper
<1>6. DiscoveryInv'
  BY <1>1, <1>2, <1>5, AnnounceKeeps
<1>7. /\ \A x \in Nodes : local'[x].topics = local[x].topics
      /\ \A x \in Nodes : \A other \in Names : x # n \/ other # name =>
           local'[x].transporters[other] = local[x].transporters[other]
      /\ values = <<>> => local' = local
      /\ values # <<>> => local'[n].transporters[name] = values[Len(values)]
  BY <1>1, <1>2, <1>3, MetadataAnnounced
<1>8. \A j \in Instances : HomeOf[j] \in Nodes /\ NameOf[j] \in Names
  BY EventBusAssumption
<1> QED BY <1>1, <1>2, <1>6, <1>7, <1>8

LEMMA RegisterKeeps ==
    ASSUME DiscoveryInv, BusInv, NEW i \in Instances, Register(i)
    PROVE  DiscoveryInv' /\ BusInv'
<1>1. PICK n \in Nodes : n = HomeOf[i]
  BY RegisteredParts DEF BusInv
<1>2. /\ \A j \in ToSet(transporters[n]) : NameOf[j] # NameOf[i]
      /\ transporters' = [transporters EXCEPT ![n] = Append(@, i)]
      /\ UNCHANGED <<references, listeners, serving>>
      /\ serving[i] # "closed"
  BY <1>1 DEF Register
<1>3. PICK values : values = IF serving[i] = "starting" THEN <<>> ELSE <<i, i>>
  OBVIOUS
<1>4. Announce(HomeOf[i], SetMetadata(HomeOf[i], NameOf[i], values))
  BY <1>3 DEF Register
<1>5. /\ values \in Seq(Values)
      /\ \A k \in 1..Len(values) : values[k] = i
      /\ serving[i] = "starting" => values = <<>>
      /\ serving[i] # "starting" => values # <<>> /\ values[Len(values)] = i
  <2>1. i \in Values
    BY RegisteredParts DEF BusInv
  <2>2. CASE serving[i] = "starting"
    <3>1. Len(<<>>) = 0 /\ <<>> \in Seq(Values)
      OBVIOUS
    <3> QED BY <1>3, <2>2, <3>1
  <2>3. CASE serving[i] # "starting"
    <3>1. values = <<i, i>>
      BY <1>3, <2>3
    <3>2. values \in Seq(Values) /\ Len(values) = 2 /\ values[1] = i /\ values[2] = i /\ values # <<>>
      BY <2>1, <3>1
    <3>3. \A k \in 1..2 : k = 1 \/ k = 2
      OBVIOUS
    <3> QED BY <2>3, <3>2, <3>3
  <2> QED BY <2>2, <2>3
<1>6. /\ DiscoveryInv'
      /\ \A x \in Nodes : local'[x].topics = local[x].topics
      /\ \A j \in Instances : HomeOf[j] # n \/ NameOf[j] # NameOf[i] =>
           local'[HomeOf[j]].transporters[NameOf[j]] = local[HomeOf[j]].transporters[NameOf[j]]
      /\ values = <<>> => local' = local
      /\ values # <<>> => local'[n].transporters[NameOf[i]] = i
  BY <1>1, <1>4, <1>5, EventAnnounced
<1>7. PICK s \in Seq(Instances) : s = transporters[n]
  BY DEF BusInv, BusTypes
<1>8. PICK r \in Seq(Instances) : r = Append(s, i)
  BY AppendParts
<1>9. PICK size \in Nat : size = Len(s)
  BY <1>7, AppendParts
<1>10. Len(r) = size + 1 /\ r[size + 1] = i /\ \A k \in 1..size : r[k] = s[k]
  BY <1>8, <1>9, AppendParts
<1>11. transporters' = [transporters EXCEPT ![n] = r]
  BY <1>2, <1>7, <1>8
<1>12. transporters'[n] = r /\ \A x \in Nodes : x # n => transporters'[x] = transporters[x]
  BY <1>11 DEF BusInv, BusTypes
<1>13. \A k \in 1..size : s[k] \in Instances /\ NameOf[s[k]] # NameOf[i]
  BY <1>2, <1>7, <1>9, ElementOfSeq DEF ToSet
<1>14. BusTypes'
  BY <1>2, <1>11 DEF BusInv, BusTypes
<1>15. \A k \in 1..(size + 1) : k = size + 1 \/ k \in 1..size
  OBVIOUS
<1>16. TransportersAreApart'
  <2> SUFFICES ASSUME NEW x \in Nodes, NEW k \in 1..Len(transporters'[x]),
                      NEW j \in 1..Len(transporters'[x])
               PROVE  /\ HomeOf[transporters'[x][k]] = x
                      /\ NameOf[transporters'[x][k]] = NameOf[transporters'[x][j]] => k = j
    BY DEF TransportersAreApart
  <2>1. CASE x # n
    BY <1>12, <2>1 DEF BusInv, TransportersAreApart
  <2>2. CASE x = n
    <3>1. /\ \A a \in 1..size : HomeOf[s[a]] = n
          /\ \A a, b \in 1..size : NameOf[s[a]] = NameOf[s[b]] => a = b
      BY <1>7, <1>9 DEF BusInv, TransportersAreApart
    <3>2. k \in 1..(size + 1) /\ j \in 1..(size + 1)
      BY <1>10, <1>12, <2>2
    <3> QED BY <1>1, <1>10, <1>12, <1>13, <1>15, <2>2, <3>1, <3>2
  <2> QED BY <2>1, <2>2
<1>17. \A j \in Instances : Registered(j)' <=> Registered(j) \/ j = i
  <2> SUFFICES ASSUME NEW j \in Instances
               PROVE  Registered(j)' <=> Registered(j) \/ j = i
    OBVIOUS
  <2>1. CASE HomeOf[j] = n
    <3>1. Registered(j)' <=> \E k \in 1..(size + 1) : r[k] = j
      BY <1>10, <1>12, <2>1 DEF Registered, ToSet
    <3>2. Registered(j) <=> \E k \in 1..size : s[k] = j
      BY <1>7, <1>9, <2>1 DEF Registered, ToSet
    <3>3. size + 1 \in 1..(size + 1) /\ \A k \in 1..size : k \in 1..(size + 1)
      OBVIOUS
    <3> QED BY <1>10, <1>15, <3>1, <3>2, <3>3
  <2>2. CASE HomeOf[j] # n
    <3>1. HomeOf[j] \in Nodes
      BY EventBusAssumption
    <3> QED BY <1>1, <1>12, <2>2, <3>1 DEF Registered
  <2> QED BY <2>1, <2>2
<1>18. \A j \in Instances : HomeOf[j] = n /\ NameOf[j] = NameOf[i] => ~Registered(j)
  BY <1>2, <1>7, <1>9, <1>13 DEF Registered, ToSet
<1>19. EndpointsAreAnnounced'
  <2> SUFFICES ASSUME NEW j \in Instances
               PROVE  local'[HomeOf[j]].transporters[NameOf[j]] = j
                        <=> Registered(j)' /\ serving[j] # "starting"
    BY <1>2 DEF EndpointsAreAnnounced
  <2>1. local[HomeOf[j]].transporters[NameOf[j]] = j <=> Registered(j) /\ serving[j] # "starting"
    BY DEF BusInv, EndpointsAreAnnounced
  <2>2. CASE HomeOf[j] # n \/ NameOf[j] # NameOf[i]
    BY <1>1, <1>6, <1>17, <2>1, <2>2
  <2>3. CASE HomeOf[j] = n /\ NameOf[j] = NameOf[i]
    <3>1. ~Registered(j)
      BY <1>18, <2>3
    <3>2. CASE values = <<>>
      <4>1. serving[i] = "starting" /\ local' = local
        BY <1>5, <1>6, <3>2
      <4> QED BY <1>17, <2>1, <3>1, <4>1
    <3>3. CASE values # <<>>
      <4>1. serving[i] # "starting" /\ local'[HomeOf[j]].transporters[NameOf[j]] = i
        BY <1>5, <1>6, <2>3, <3>3
      <4> QED BY <1>17, <3>1, <4>1
    <3> QED BY <3>2, <3>3
  <2> QED BY <2>2, <2>3
<1>20. ReferencesAreExact' /\ TopicsAreAnnounced'
  BY <1>2, <1>6 DEF BusInv, ReferencesAreExact, Audience, TopicsAreAnnounced
<1> QED BY <1>6, <1>14, <1>16, <1>19, <1>20 DEF BusInv

LEMMA UnregisterKeeps ==
    ASSUME DiscoveryInv, BusInv, NEW i \in Instances, Unregister(i)
    PROVE  DiscoveryInv' /\ BusInv'
<1>1. PICK n \in Nodes : n = HomeOf[i]
  BY RegisteredParts DEF BusInv
<1>2. PICK s \in Seq(Instances) : s = transporters[n]
  BY DEF BusInv, BusTypes
<1>3. PICK size \in Nat : size = Len(s)
  BY LenProperties
<1>4. PICK c \in 1..size : s[c] = i /\ transporters' = [transporters EXCEPT ![n] = RemoveAt(@, c)]
  <2>1. DOMAIN s = 1..size
    BY <1>3
  <2> QED BY <1>1, <1>2, <2>1 DEF Unregister
<1>5. PICK r \in Seq(Instances) : r = RemoveAt(s, c)
  BY <1>3, RemoveAtFacts
<1>6. /\ Len(r) = size - 1
      /\ \A k \in 1..(size - 1) : r[k] = IF k < c THEN s[k] ELSE s[k + 1]
  BY <1>3, <1>5, RemoveAtFacts
<1>7. transporters' = [transporters EXCEPT ![n] = r]
  BY <1>2, <1>4, <1>5
<1>8. transporters'[n] = r /\ \A x \in Nodes : x # n => transporters'[x] = transporters[x]
  BY <1>7 DEF BusInv, BusTypes
<1>9. UNCHANGED <<references, listeners, serving>>
  BY DEF Unregister
<1>10. PICK values : values = <<"gone">>
  OBVIOUS
<1>11. values \in Seq(Values) /\ Len(values) = 1 /\ values[1] = "gone" /\ values # <<>>
  <2>1. "gone" \in Values
    BY DEF Values
  <2> QED BY <1>10, <2>1
<1>12. "gone" \notin Instances
  BY EventBusAssumption
<1>13. \A k \in 1..Len(values) : values[k] = i \/ values[k] \notin Instances
  <2>1. \A k \in 1..1 : k = 1
    OBVIOUS
  <2> QED BY <1>11, <1>12, <2>1
<1>14. Announce(HomeOf[i], SetMetadata(HomeOf[i], NameOf[i], values))
  BY <1>10 DEF Unregister
<1>15. /\ DiscoveryInv'
       /\ \A x \in Nodes : local'[x].topics = local[x].topics
       /\ \A j \in Instances : HomeOf[j] # n \/ NameOf[j] # NameOf[i] =>
            local'[HomeOf[j]].transporters[NameOf[j]] = local[HomeOf[j]].transporters[NameOf[j]]
       /\ local'[n].transporters[NameOf[i]] = "gone"
  BY <1>1, <1>11, <1>13, <1>14, EventAnnounced
\* Where the transporters that stay are found.
<1>16. PICK at : at = [k \in 1..(size - 1) |-> IF k < c THEN k ELSE k + 1]
  OBVIOUS
<1>17. /\ \A k \in 1..(size - 1) : at[k] \in 1..size /\ at[k] # c /\ r[k] = s[at[k]]
       /\ \A k, j \in 1..(size - 1) : at[k] = at[j] => k = j
       /\ \A k \in 1..size : k # c => \E j \in 1..(size - 1) : at[j] = k
  <2>1. \A k \in 1..(size - 1) : at[k] = IF k < c THEN k ELSE k + 1
    BY <1>16
  <2>2. \A k \in 1..(size - 1) : at[k] \in 1..size /\ at[k] # c /\ r[k] = s[at[k]]
    BY <1>6, <2>1
  <2>3. \A k, j \in 1..(size - 1) : at[k] = at[j] => k = j
    BY <2>1
  <2>4. ASSUME NEW k \in 1..size, k # c
        PROVE  \E j \in 1..(size - 1) : at[j] = k
    <3>1. CASE k < c
      <4>1. k \in 1..(size - 1)
        BY <3>1
      <4> QED BY <2>1, <3>1, <4>1
    <3>2. CASE ~(k < c)
      <4>1. k - 1 \in 1..(size - 1) /\ ~(k - 1 < c) /\ (k - 1) + 1 = k
        BY <2>4, <3>2
      <4> QED BY <2>1, <4>1
    <3> QED BY <3>1, <3>2
  <2> QED BY <2>2, <2>3, <2>4
<1>18. /\ \A a \in 1..size : HomeOf[s[a]] = n
       /\ \A a, b \in 1..size : NameOf[s[a]] = NameOf[s[b]] => a = b
  BY <1>2, <1>3 DEF BusInv, TransportersAreApart
<1>19. TransportersAreApart'
  <2> SUFFICES ASSUME NEW x \in Nodes, NEW k \in 1..Len(transporters'[x]),
                      NEW j \in 1..Len(transporters'[x])
               PROVE  /\ HomeOf[transporters'[x][k]] = x
                      /\ NameOf[transporters'[x][k]] = NameOf[transporters'[x][j]] => k = j
    BY DEF TransportersAreApart
  <2>1. CASE x # n
    BY <1>8, <2>1 DEF BusInv, TransportersAreApart
  <2>2. CASE x = n
    <3>1. k \in 1..(size - 1) /\ j \in 1..(size - 1)
      BY <1>6, <1>8, <2>2
    <3>2. PICK a \in 1..size : a = at[k] /\ transporters'[x][k] = s[a]
      BY <1>8, <1>17, <2>2, <3>1
    <3>3. PICK b \in 1..size : b = at[j] /\ transporters'[x][j] = s[b]
      BY <1>8, <1>17, <2>2, <3>1
    <3>4. ASSUME NameOf[s[a]] = NameOf[s[b]]
          PROVE  k = j
      <4>1. a = b
        BY <1>18, <3>4
      <4>2. at[k] = at[j]
        BY <3>2, <3>3, <4>1
      <4> QED BY <1>17, <3>1, <4>2
    <3> QED BY <1>18, <2>2, <3>2, <3>3, <3>4
  <2> QED BY <2>1, <2>2
<1>20. \A j \in Instances : Registered(j)' <=> Registered(j) /\ j # i
  <2> SUFFICES ASSUME NEW j \in Instances
               PROVE  Registered(j)' <=> Registered(j) /\ j # i
    OBVIOUS
  <2>1. CASE HomeOf[j] = n
    <3>1. DOMAIN r = 1..(size - 1) /\ DOMAIN s = 1..size
      BY <1>3, <1>6
    <3>2. Registered(j)' <=> \E k \in 1..(size - 1) : r[k] = j
      BY <1>8, <2>1, <3>1 DEF Registered, ToSet
    <3>3. Registered(j) <=> \E k \in 1..size : s[k] = j
      BY <1>2, <2>1, <3>1 DEF Registered, ToSet
    <3>4. ASSUME Registered(j)'
          PROVE  Registered(j) /\ j # i
      <4>1. PICK k \in 1..(size - 1) : r[k] = j
        BY <3>2, <3>4
      <4>2. at[k] \in 1..size /\ at[k] # c /\ s[at[k]] = j
        BY <1>17, <4>1
      <4>3. j # i
        BY <1>4, <1>18, <4>2
      <4> QED BY <3>3, <4>2, <4>3
    <3>5. ASSUME Registered(j), j # i
          PROVE  Registered(j)'
      <4>1. PICK k \in 1..size : s[k] = j
        BY <3>3, <3>5
      <4>2. k # c
        BY <1>4, <3>5, <4>1
      <4>3. PICK b \in 1..(size - 1) : at[b] = k
        BY <1>17, <4>2
      <4> QED BY <1>17, <3>2, <4>1, <4>3
    <3> QED BY <3>4, <3>5
  <2>2. CASE HomeOf[j] # n
    <3>1. HomeOf[j] \in Nodes
      BY EventBusAssumption
    <3> QED BY <1>1, <1>8, <2>2, <3>1 DEF Registered
  <2> QED BY <2>1, <2>2
<1>21. EndpointsAreAnnounced'
  <2> SUFFICES ASSUME NEW j \in Instances
               PROVE  local'[HomeOf[j]].transporters[NameOf[j]] = j
                        <=> Registered(j)' /\ serving[j] # "starting"
    BY <1>9 DEF EndpointsAreAnnounced
  <2>1. local[HomeOf[j]].transporters[NameOf[j]] = j <=> Registered(j) /\ serving[j] # "starting"
    BY DEF BusInv, EndpointsAreAnnounced
  <2>2. CASE HomeOf[j] # n \/ NameOf[j] # NameOf[i]
    BY <1>1, <1>15, <1>20, <2>1, <2>2
  <2>3. CASE HomeOf[j] = n /\ NameOf[j] = NameOf[i]
    <3>1. Registered(i)
      BY <1>1, <1>2, <1>3, <1>4, RegisteredParts DEF BusInv
    <3>2. Registered(j) => j = i
      BY <1>1, <2>3, <3>1, RegisteredParts DEF BusInv
    <3>3. local'[HomeOf[j]].transporters[NameOf[j]] # j
      BY <1>12, <1>15, <2>3
    <3> QED BY <1>20, <3>2, <3>3
  <2> QED BY <2>2, <2>3
<1>22. BusTypes'
  BY <1>7, <1>9 DEF BusInv, BusTypes
<1>23. ReferencesAreExact' /\ TopicsAreAnnounced'
  BY <1>9, <1>15 DEF BusInv, ReferencesAreExact, Audience, TopicsAreAnnounced
<1> QED BY <1>15, <1>19, <1>21, <1>22, <1>23 DEF BusInv

LEMMA ListeningKeeps ==
    ASSUME DiscoveryInv, BusInv, NEW i \in Instances, Listening(i)
    PROVE  DiscoveryInv' /\ BusInv'
<1>1. /\ serving[i] = "starting"
      /\ serving' = [serving EXCEPT ![i] = "listening"]
      /\ UNCHANGED <<transporters, references, listeners>>
  BY DEF Listening, busVars
<1>2. PICK values : values = IF Registered(i) THEN <<i>> ELSE <<>>
  OBVIOUS
<1>3. /\ values \in Seq(Values)
      /\ \A k \in 1..Len(values) : values[k] = i
      /\ Registered(i) => values # <<>> /\ values[Len(values)] = i
      /\ ~Registered(i) => values = <<>>
  <2>1. i \in Values
    BY RegisteredParts DEF BusInv
  <2>2. CASE Registered(i)
    <3>1. values = <<i>>
      BY <1>2, <2>2
    <3>2. values \in Seq(Values) /\ Len(values) = 1 /\ values[1] = i /\ values # <<>>
      BY <2>1, <3>1
    <3>3. \A k \in 1..1 : k = 1
      OBVIOUS
    <3> QED BY <2>2, <3>2, <3>3
  <2>3. CASE ~Registered(i)
    <3>1. Len(<<>>) = 0 /\ <<>> \in Seq(Values)
      OBVIOUS
    <3> QED BY <1>2, <2>3, <3>1
  <2> QED BY <2>2, <2>3
<1>4. Announce(HomeOf[i], SetMetadata(HomeOf[i], NameOf[i], values))
  <2>1. CASE Registered(i)
    BY <1>2, <2>1 DEF Listening
  <2>2. CASE ~Registered(i)
    <3>1. Announce(HomeOf[i], <<>>)
      BY <2>2 DEF Listening
    <3>2. SetMetadata(HomeOf[i], NameOf[i], <<>>) = <<>>
      <4>1. Len(<<>>) = 0
        OBVIOUS
      <4>2. HomeOf[i] \in Nodes /\ NameOf[i] \in Names /\ local \in [Nodes -> Snapshots]
        BY RegisteredParts DEF BusInv, DiscoveryInv, DiscoveryTypes
      <4>3. values = <<>> /\ values \in Seq(Values)
        BY <1>3, <2>2
      <4>4. PICK r : r = SetMetadata(HomeOf[i], NameOf[i], values)
        OBVIOUS
      <4>5. r \in Seq(Snapshots) /\ Len(r) = Len(values)
        BY <4>2, <4>3, <4>4, SetMetadataParts
      <4>6. r = <<>>
        BY <4>1, <4>3, <4>5, EmptySeq
      <4> QED BY <4>3, <4>4, <4>6
    <3> QED BY <1>2, <2>2, <3>1, <3>2
  <2> QED BY <2>1, <2>2
<1>5. /\ DiscoveryInv'
      /\ \A x \in Nodes : local'[x].topics = local[x].topics
      /\ \A j \in Instances : HomeOf[j] # HomeOf[i] \/ NameOf[j] # NameOf[i] =>
           local'[HomeOf[j]].transporters[NameOf[j]] = local[HomeOf[j]].transporters[NameOf[j]]
      /\ values = <<>> => local' = local
      /\ values # <<>> => local'[HomeOf[i]].transporters[NameOf[i]] = i
  BY <1>3, <1>4, EventAnnounced
<1>6. serving'[i] = "listening" /\ \A j \in Instances : j # i => serving'[j] = serving[j]
  BY <1>1 DEF BusInv, BusTypes
<1>7. BusTypes'
  BY <1>1 DEF BusInv, BusTypes
<1>8. EndpointsAreAnnounced'
  <2> SUFFICES ASSUME NEW j \in Instances
               PROVE  local'[HomeOf[j]].transporters[NameOf[j]] = j
                        <=> Registered(j) /\ serving'[j] # "starting"
    BY <1>1 DEF EndpointsAreAnnounced, Registered
  <2>1. local[HomeOf[j]].transporters[NameOf[j]] = j <=> Registered(j) /\ serving[j] # "starting"
    BY DEF BusInv, EndpointsAreAnnounced
  <2>2. CASE ~Registered(i)
    <3>1. local' = local
      BY <1>3, <1>5, <2>2
    <3> QED BY <1>1, <1>6, <2>1, <2>2, <3>1
  <2>3. CASE Registered(i) /\ HomeOf[j] = HomeOf[i] /\ NameOf[j] = NameOf[i]
    <3>1. local'[HomeOf[j]].transporters[NameOf[j]] = i
      BY <1>3, <1>5, <2>3
    <3>2. Registered(j) => j = i
      BY <2>3, RegisteredParts DEF BusInv
    <3> QED BY <1>6, <2>3, <3>1, <3>2
  <2>4. CASE Registered(i) /\ ~(HomeOf[j] = HomeOf[i] /\ NameOf[j] = NameOf[i])
    BY <1>5, <1>6, <2>1, <2>4
  <2> QED BY <2>2, <2>3, <2>4
<1>9. TransportersAreApart' /\ ReferencesAreExact' /\ TopicsAreAnnounced'
  BY <1>1, <1>5 DEF BusInv, TransportersAreApart, ReferencesAreExact, Audience, TopicsAreAnnounced
<1> QED BY <1>5, <1>7, <1>8, <1>9 DEF BusInv

\* A change of the counts of process n, which it announces.
LEMMA CountsKeep ==
    ASSUME DiscoveryInv, BusInv, NEW n \in Nodes, NEW counts \in [Topics -> Nat],
           PublishTopics(n, counts), references' = [references EXCEPT ![n] = counts],
           listeners' \in [Links -> Nat], ReferencesAreExact',
           UNCHANGED <<transporters, serving>>
    PROVE  DiscoveryInv' /\ BusInv'
<1>1. local \in [Nodes -> Snapshots] /\ Own(n, local[n])
  BY DEF DiscoveryInv, DiscoveryTypes, SnapshotsAreGenuine
<1>2. PICK topics \in SUBSET Topics : topics = {t \in Topics : counts[t] > 0}
  OBVIOUS
<1>3. Announce(n, SetLocalTopics(n, topics))
  BY <1>2 DEF PublishTopics
<1>4. /\ Proper(n, SetLocalTopics(n, topics))
      /\ local'[n].topics = topics
      /\ \A x \in Nodes : local'[x].transporters = local[x].transporters
      /\ \A x \in Nodes : x # n => local'[x] = local[x]
  BY <1>1, <1>3, TopicsProper
<1>5. DiscoveryInv'
  BY <1>3, <1>4, AnnounceKeeps
<1>6. references'[n] = counts /\ \A x \in Nodes : x # n => references'[x] = references[x]
  BY DEF BusInv, BusTypes
<1>7. TopicsAreAnnounced'
  <2> SUFFICES ASSUME NEW x \in Nodes
               PROVE  local'[x].topics = {t \in Topics : references'[x][t] > 0}
    BY DEF TopicsAreAnnounced
  <2>1. CASE x = n
    BY <1>2, <1>4, <1>6, <2>1
  <2>2. CASE x # n
    BY <1>4, <1>6, <2>2 DEF BusInv, TopicsAreAnnounced
  <2> QED BY <2>1, <2>2
<1>8. EndpointsAreAnnounced'
  <2>1. \A i \in Instances : HomeOf[i] \in Nodes
    BY EventBusAssumption
  <2> QED BY <1>4, <2>1 DEF BusInv, EndpointsAreAnnounced, Registered
<1>9. BusTypes' /\ TransportersAreApart'
  BY DEF BusInv, BusTypes, TransportersAreApart
<1> QED BY <1>5, <1>7, <1>8, <1>9 DEF BusInv

LEMMA LinkParts ==
    ASSUME NEW l \in Links
    PROVE  HostOf[l] \in Nodes /\ TopicOf[l] \in Topics
  BY EventBusAssumption

LEMMA AudienceFinite ==
    ASSUME NEW n, NEW t
    PROVE  IsFiniteSet(Audience(n, t)) /\ Cardinality(Audience(n, t)) \in Nat
<1>1. Audience(n, t) \in SUBSET Links /\ IsFiniteSet(Links)
  BY EventBusAssumption DEF Audience
<1>2. IsFiniteSet(Audience(n, t))
  BY <1>1, FS_Subset
<1> QED BY <1>2, FS_CardinalityType

LEMMA SubscribeKeeps ==
    ASSUME DiscoveryInv, BusInv, NEW l \in Links, Subscribe(l)
    PROVE  DiscoveryInv' /\ BusInv'
<1>1. PICK n \in Nodes : n = HostOf[l]
  BY LinkParts
<1>2. PICK t \in Topics : t = TopicOf[l]
  BY LinkParts
<1>3. /\ listeners' = [listeners EXCEPT ![l] = @ + 1]
      /\ references' = IF listeners[l] = 0 THEN [references EXCEPT ![n][t] = @ + 1] ELSE references
      /\ PublishTopics(n, references'[n])
      /\ UNCHANGED <<transporters, serving>>
  BY <1>1, <1>2 DEF Subscribe
<1>4. PICK count \in Nat : count = references[n][t]
  BY DEF BusInv, BusTypes
<1>5. PICK counts : counts = IF listeners[l] = 0 THEN [references[n] EXCEPT ![t] = count + 1]
                             ELSE references[n]
  OBVIOUS
<1>6. count + 1 \in Nat
  OBVIOUS
<1>7. counts \in [Topics -> Nat]
  BY <1>5, <1>6 DEF BusInv, BusTypes
<1>8. references' = [references EXCEPT ![n] = counts]
  BY <1>3, <1>4, <1>5 DEF BusInv, BusTypes
<1>9. references'[n] = counts /\ \A x \in Nodes : x # n => references'[x] = references[x]
  BY <1>8 DEF BusInv, BusTypes
<1>10. PublishTopics(n, counts)
  BY <1>3, <1>9
<1>11. PICK before \in Nat : before = listeners[l]
  BY DEF BusInv, BusTypes
<1>12. before + 1 \in Nat /\ before + 1 > 0
  OBVIOUS
<1>13. listeners' = [listeners EXCEPT ![l] = before + 1]
  BY <1>3, <1>11
<1>14. listeners' \in [Links -> Nat] /\ listeners'[l] = before + 1
       /\ \A k \in Links : k # l => listeners'[k] = listeners[k]
  BY <1>12, <1>13 DEF BusInv, BusTypes
<1>15. \A x \in Nodes : \A u \in Topics :
          Audience(x, u)' = IF x = n /\ u = t THEN Audience(x, u) \cup {l} ELSE Audience(x, u)
  BY <1>1, <1>2, <1>12, <1>14 DEF Audience
<1>16. ReferencesAreExact'
  <2> SUFFICES ASSUME NEW x \in Nodes, NEW u \in Topics
               PROVE  references'[x][u] = Cardinality(Audience(x, u)')
    BY DEF ReferencesAreExact
  <2>1. references[x][u] = Cardinality(Audience(x, u))
    BY DEF BusInv, ReferencesAreExact
  <2>2. CASE x = n /\ u = t
    <3>1. IsFiniteSet(Audience(n, t))
      BY AudienceFinite
    <3>2. Cardinality(Audience(n, t) \cup {l}) =
            IF l \in Audience(n, t) THEN Cardinality(Audience(n, t)) ELSE Cardinality(Audience(n, t)) + 1
      BY <3>1, FS_AddElement
    <3>3. l \in Audience(n, t) <=> before # 0
      BY <1>1, <1>2, <1>11 DEF Audience
    <3>4. references'[n][t] = IF before = 0 THEN count + 1 ELSE count
      BY <1>4, <1>5, <1>9, <1>11 DEF BusInv, BusTypes
    <3> QED BY <1>4, <1>15, <2>1, <2>2, <3>2, <3>3, <3>4
  <2>3. CASE ~(x = n /\ u = t)
    <3>1. references'[x][u] = references[x][u]
      BY <1>5, <1>9, <2>3 DEF BusInv, BusTypes
    <3> QED BY <1>15, <2>1, <2>3, <3>1
  <2> QED BY <2>2, <2>3
<1> QED BY <1>3, <1>7, <1>8, <1>10, <1>14, <1>16, CountsKeep

LEMMA UnsubscribeKeeps ==
    ASSUME DiscoveryInv, BusInv, NEW l \in Links, Unsubscribe(l)
    PROVE  DiscoveryInv' /\ BusInv'
<1>1. PICK n \in Nodes : n = HostOf[l]
  BY LinkParts
<1>2. PICK t \in Topics : t = TopicOf[l]
  BY LinkParts
<1>3. /\ listeners[l] > 0
      /\ listeners' = [listeners EXCEPT ![l] = @ - 1]
      /\ references' = IF listeners[l] = 1
                       THEN [references EXCEPT ![n][t] = Released(@)] ELSE references
      /\ PublishTopics(n, references'[n])
      /\ UNCHANGED <<transporters, serving>>
  BY <1>1, <1>2 DEF Unsubscribe
<1>4. PICK count \in Nat : count = references[n][t]
  BY DEF BusInv, BusTypes
<1>5. PICK released \in Nat : released = Released(count)
  BY DEF Released
<1>6. PICK counts : counts = IF listeners[l] = 1 THEN [references[n] EXCEPT ![t] = released]
                             ELSE references[n]
  OBVIOUS
<1>7. counts \in [Topics -> Nat]
  BY <1>6 DEF BusInv, BusTypes
<1>8. references' = [references EXCEPT ![n] = counts]
  BY <1>3, <1>4, <1>5, <1>6 DEF BusInv, BusTypes
<1>9. references'[n] = counts /\ \A x \in Nodes : x # n => references'[x] = references[x]
  BY <1>8 DEF BusInv, BusTypes
<1>10. PublishTopics(n, counts)
  BY <1>3, <1>9
<1>11. PICK before \in Nat : before = listeners[l] /\ before > 0
  BY <1>3 DEF BusInv, BusTypes
<1>12. before - 1 \in Nat /\ (before - 1 > 0 <=> before # 1)
  BY <1>11
<1>13. listeners' = [listeners EXCEPT ![l] = before - 1]
  BY <1>3, <1>11
<1>14. listeners' \in [Links -> Nat] /\ listeners'[l] = before - 1
       /\ \A k \in Links : k # l => listeners'[k] = listeners[k]
  BY <1>12, <1>13 DEF BusInv, BusTypes
<1>15. \A x \in Nodes : \A u \in Topics :
          Audience(x, u)' = IF x = n /\ u = t /\ before = 1 THEN Audience(x, u) \ {l} ELSE Audience(x, u)
  BY <1>1, <1>2, <1>11, <1>12, <1>14 DEF Audience
<1>16. ReferencesAreExact'
  <2> SUFFICES ASSUME NEW x \in Nodes, NEW u \in Topics
               PROVE  references'[x][u] = Cardinality(Audience(x, u)')
    BY DEF ReferencesAreExact
  <2>1. references[x][u] = Cardinality(Audience(x, u))
    BY DEF BusInv, ReferencesAreExact
  <2>2. CASE x = n /\ u = t /\ before = 1
    <3>1. IsFiniteSet(Audience(n, t))
      BY AudienceFinite
    <3>2. l \in Audience(n, t)
      BY <1>1, <1>2, <1>11 DEF Audience
    <3>3. Cardinality(Audience(n, t) \ {l}) = Cardinality(Audience(n, t)) - 1
      BY <3>1, <3>2, FS_RemoveElement
    <3>4. Cardinality(Audience(n, t)) # 0
      BY <3>1, <3>2, FS_EmptySet
    <3>5. references'[n][t] = released
      BY <1>6, <1>9, <1>11, <2>2 DEF BusInv, BusTypes
    <3>6. count # 0 /\ Cardinality(Audience(n, t)) = count
      BY <1>4, <2>1, <2>2, <3>4
    <3>7. released = count - 1
      BY <1>5, <3>6 DEF Released
    <3> QED BY <1>15, <2>2, <3>3, <3>5, <3>6, <3>7
  <2>3. CASE ~(x = n /\ u = t /\ before = 1)
    <3>1. references'[x][u] = references[x][u]
      BY <1>6, <1>9, <1>11, <2>3 DEF BusInv, BusTypes
    <3> QED BY <1>15, <2>1, <2>3, <3>1
  <2> QED BY <2>2, <2>3
<1> QED BY <1>3, <1>7, <1>8, <1>10, <1>14, <1>16, CountsKeep

LEMMA BusStepKeeps ==
    ASSUME DiscoveryInv, BusInv, BusStep
    PROVE  DiscoveryInv' /\ BusInv'
  BY RegisterKeeps, UnregisterKeeps, ListeningKeeps, SubscribeKeeps, UnsubscribeKeeps DEF BusStep

\* The server of a transporter is closed that is not registered.
LEMMA CloseKeepsBus ==
    ASSUME BusInv, NEW i \in Instances, ClosePubsub(i),
           UNCHANGED <<local, transporters, references, listeners>>
    PROVE  BusInv'
<1>1. serving[i] = "listening" /\ ~Registered(i) /\ serving' = [serving EXCEPT ![i] = "closed"]
  BY DEF ClosePubsub
<1>2. serving'[i] = "closed" /\ \A j \in Instances : j # i => serving'[j] = serving[j]
  BY <1>1 DEF BusInv, BusTypes
<1>3. EndpointsAreAnnounced'
  BY <1>1, <1>2 DEF BusInv, EndpointsAreAnnounced, Registered
<1>4. BusTypes'
  BY <1>1 DEF BusInv, BusTypes
<1> QED
  BY <1>3, <1>4 DEF BusInv, TransportersAreApart, ReferencesAreExact, Audience, TopicsAreAnnounced

LEMMA BusStutters ==
    ASSUME BusInv, UNCHANGED <<local, transporters, references, listeners, serving>>
    PROVE  BusInv'
  BY DEF BusInv, BusTypes, TransportersAreApart, ReferencesAreExact, Audience,
     TopicsAreAnnounced, EndpointsAreAnnounced, Registered

-----------------------------------------------------------------------------
(* Publishing.                                                             *)

LEMMA SelectedParts ==
    ASSUME BusTypes, TransportersAreApart, NEW l \in Links
    PROVE  /\ Selected(l) \subseteq Instances
           /\ \A i \in Selected(l) : HomeOf[i] = HostOf[l]
           /\ RequestedBy[l] # "fanout" => \A i, j \in Selected(l) : i = j
<1>1. PICK n \in Nodes : n = HostOf[l]
  BY LinkParts
<1>2. PICK all \in Seq(Instances) : all = transporters[n]
  BY DEF BusTypes
<1>3. PICK size \in Nat : size = Len(all) /\ DOMAIN all = 1..size
  BY LenProperties
<1>4. /\ \A k \in 1..size : all[k] \in Instances /\ HomeOf[all[k]] = n
      /\ \A k, j \in 1..size : NameOf[all[k]] = NameOf[all[j]] => k = j
  BY <1>2, <1>3 DEF TransportersAreApart
<1>5. ToSet(all) = {all[k] : k \in 1..size}
  BY <1>3 DEF ToSet
<1>6. ToSet(all) \subseteq Instances /\ \A i \in ToSet(all) : HomeOf[i] = n
  BY <1>4, <1>5
<1>7. \A i, j \in ToSet(all) : NameOf[i] = NameOf[j] => i = j
  BY <1>4, <1>5
<1>8. CASE RequestedBy[l] = "fanout"
  <2>1. Selected(l) = ToSet(all)
    BY <1>1, <1>2, <1>8 DEF Selected
  <2> QED BY <1>1, <1>6, <1>8, <2>1
<1>9. CASE RequestedBy[l] = "single"
  <2>1. Selected(l) = IF all = <<>> THEN {} ELSE {Head(all)}
    BY <1>1, <1>2, <1>9 DEF Selected
  <2>2. all # <<>> => Head(all) \in ToSet(all)
    <3>1. all # <<>> => 1 \in 1..size /\ Head(all) = all[1]
      BY <1>3
    <3> QED BY <1>5, <3>1
  <2> QED BY <1>1, <1>6, <2>1, <2>2
<1>10. CASE RequestedBy[l] \notin {"fanout", "single"}
  <2>1. Selected(l) = {i \in ToSet(all) : NameOf[i] = RequestedBy[l]}
    BY <1>1, <1>2, <1>10 DEF Selected
  <2> QED BY <1>1, <1>6, <1>7, <2>1
<1> QED BY <1>8, <1>9, <1>10

LEMMA SessionParts ==
    /\ \A s \in Session : s # NoSession /\ s.to \in Instances
    /\ \A s \in Session \cup {NoSession} : s # NoSession => s \in Session
    /\ \A p \in [phase : PostPhases] : p.phase = "none" => p = NoPost
    /\ NoPost.phase = "none" /\ NoSession.phase = "none"
<1>1. \A s \in Session : s.phase # "none" /\ s.to \in Instances
  BY DEF Session
<1>2. NoSession.phase = "none" /\ NoPost.phase = "none"
  BY DEF NoSession, NoPost
<1>3. \A p \in [phase : PostPhases] : p.phase = "none" => p = NoPost
  BY DEF NoPost
<1> QED BY <1>1, <1>2, <1>3

\* Whether a value gets to a link depends on what its bus has.
LEMMA HearsStays ==
    ASSUME UNCHANGED <<transporters, listeners>>, NEW l, NEW i
    PROVE  Hears(l, i)' <=> Hears(l, i)
  BY DEF Hears, Selected

\* Requests that are answered or lost, and sessions that open or end.
LEMMA MovesOn ==
    ASSUME PubsubInv, UNCHANGED <<sender, heard, owed, transporters, listeners>>,
           sessions' \in [Instances -> [Nodes -> Session \cup {NoSession}]],
           posts' \in [Messages -> [Instances -> [Nodes -> [phase : PostPhases]]]],
           \A i \in Instances : \A x \in Nodes :
              sessions'[i][x] # NoSession =>
                 sessions[i][x] # NoSession /\ sessions'[i][x].to = sessions[i][x].to,
           \A m \in Messages : \A i \in Instances : \A x \in Nodes :
              LET old == posts[m][i][x].phase
                  new == posts'[m][i][x].phase
              IN /\ new = "none" <=> old = "none"
                 /\ new = "sent" => old = "sent"
                 /\ new \in {"sent", "heard"} => sessions'[i][x] # NoSession
                 /\ old \in {"sent", "failed", "ended", "closed"} =>
                      new = old \/ new \in {"failed", "ended", "closed"}
    PROVE  PubsubInv'
<1>0. \A m \in Messages : \A i \in Instances : \A x \in Nodes :
         /\ posts'[m][i][x].phase = "none" <=> posts[m][i][x].phase = "none"
         /\ posts'[m][i][x] \in [phase : PostPhases]
  OBVIOUS
<1>1. PubsubTypes'
  BY DEF PubsubInv, PubsubTypes
<1>2. SessionsLeadHome'
  BY DEF PubsubInv, SessionsLeadHome
<1>3. NothingBeforeSending'
  <2> SUFFICES ASSUME NEW m \in Messages, sender[m] = Unsent
               PROVE  /\ \A i \in Instances : \A x \in Nodes : posts'[m][i][x] = NoPost
                      /\ \A l \in Links : heard[m][l] = 0
                      /\ owed[m] = {}
    BY DEF NothingBeforeSending
  <2>1. /\ \A i \in Instances : \A x \in Nodes : posts[m][i][x] = NoPost
        /\ \A l \in Links : heard[m][l] = 0
        /\ owed[m] = {}
    BY DEF PubsubInv, NothingBeforeSending
  <2>2. ASSUME NEW i \in Instances, NEW x \in Nodes
        PROVE  posts'[m][i][x] = NoPost
    <3>1. posts[m][i][x].phase = "none"
      BY <2>1, SessionParts
    <3>2. posts'[m][i][x] \in [phase : PostPhases] /\ posts'[m][i][x].phase = "none"
      BY <1>0, <3>1
    <3> QED BY <3>2, SessionParts
  <2> QED BY <2>1, <2>2
<1>4. OwedAreServed'
  <2> SUFFICES ASSUME NEW m \in Messages, NEW l \in owed[m]
               PROVE  /\ listeners[l] > 0 /\ TopicOf[l] = TopicOf[sender[m].by]
                      /\ \E i \in Instances : \E x \in Nodes : Serves(m, i, x, l)'
    BY DEF OwedAreServed
  <2>1. /\ listeners[l] > 0 /\ TopicOf[l] = TopicOf[sender[m].by]
        /\ \E i \in Instances : \E x \in Nodes : Serves(m, i, x, l)
    BY DEF PubsubInv, OwedAreServed
  <2>2. PICK i \in Instances, x \in Nodes : Serves(m, i, x, l)
    BY <2>1
  <2>3. PICK old : old = posts[m][i][x].phase
    OBVIOUS
  <2>4. PICK new : new = posts'[m][i][x].phase
    OBVIOUS
  <2>5. /\ new = "none" <=> old = "none"
        /\ new \in {"sent", "heard"} => sessions'[i][x] # NoSession
        /\ old \in {"sent", "failed", "ended", "closed"} =>
             new = old \/ new \in {"failed", "ended", "closed"}
    BY <2>3, <2>4
  <2>6. /\ old # "none"
        /\ \/ heard[m][l] > 0
           \/ old \in {"failed", "ended", "closed"}
           \/ old = "sent" /\ Hears(l, sessions[i][x].to)
    BY <2>2, <2>3 DEF Serves
  <2>7. CASE heard[m][l] > 0
    BY <2>1, <2>4, <2>5, <2>6, <2>7 DEF Serves
  <2>8. CASE new \in {"failed", "ended", "closed"}
    BY <2>1, <2>4, <2>8 DEF Serves
  <2>9. CASE ~(heard[m][l] > 0) /\ new \notin {"failed", "ended", "closed"}
    <3>1. new = "sent" /\ Hears(l, sessions[i][x].to)
      BY <2>5, <2>6, <2>9
    <3>2. sessions'[i][x].to = sessions[i][x].to
      BY <2>5, <3>1
    <3>3. PICK j : j = sessions[i][x].to
      OBVIOUS
    <3>4. Hears(l, j)'
      BY <3>1, <3>3, HearsStays
    <3>5. Serves(m, i, x, l)'
      BY <2>4, <3>1, <3>2, <3>3, <3>4 DEF Serves
    <3> QED BY <2>1, <3>5
  <2> QED BY <2>7, <2>8, <2>9
<1>5. PostedOnce'
  <2> SUFFICES ASSUME NEW m \in Messages, sender[m] # Unsent, RequestedBy[sender[m].by] # "fanout"
               PROVE  /\ \A i, j \in Instances : \A x, y \in Nodes :
                           posts'[m][i][x].phase # "none" /\ posts'[m][j][y].phase # "none" => i = j
                      /\ \A l \in Links :
                           /\ heard[m][l] <= 1
                           /\ heard[m][l] = 1 => \A i \in Instances : posts'[m][i][HostOf[l]].phase # "sent"
    BY DEF PostedOnce
  <2>1. /\ \A i, j \in Instances : \A x, y \in Nodes :
             posts[m][i][x].phase # "none" /\ posts[m][j][y].phase # "none" => i = j
        /\ \A l \in Links :
             /\ heard[m][l] <= 1
             /\ heard[m][l] = 1 => \A i \in Instances : posts[m][i][HostOf[l]].phase # "sent"
    BY DEF PubsubInv, PostedOnce
  <2>2. ASSUME NEW i \in Instances, NEW j \in Instances, NEW x \in Nodes, NEW y \in Nodes,
               posts'[m][i][x].phase # "none", posts'[m][j][y].phase # "none"
        PROVE  i = j
    <3>1. posts[m][i][x].phase # "none"
      BY <1>0, <2>2
    <3>2. posts[m][j][y].phase # "none"
      BY <1>0, <2>2
    <3> QED BY <2>1, <3>1, <3>2
  <2>3. \A l \in Links : heard[m][l] = 1 =>
           \A i \in Instances : posts'[m][i][HostOf[l]].phase # "sent"
    BY <2>1, LinkParts
  <2> QED BY <2>1, <2>2, <2>3
<1> QED BY <1>1, <1>2, <1>3, <1>4, <1>5 DEF PubsubInv

LEMMA PubsubStutters ==
    ASSUME PubsubInv, UNCHANGED <<pubsubVars, transporters, listeners>>
    PROVE  PubsubInv'
<1>1. UNCHANGED <<sessions, posts, sender, heard, owed, transporters, listeners>>
  BY DEF pubsubVars
<1>2. PubsubTypes' /\ SessionsLeadHome' /\ NothingBeforeSending' /\ PostedOnce'
  BY <1>1 DEF PubsubInv, PubsubTypes, SessionsLeadHome, NothingBeforeSending, PostedOnce
<1>3. OwedAreServed'
  <2>1. ASSUME NEW m, NEW i, NEW x, NEW l
        PROVE  Serves(m, i, x, l)' <=> Serves(m, i, x, l)
    <3>1. PICK j : j = sessions[i][x].to
      OBVIOUS
    <3>2. Hears(l, j)' <=> Hears(l, j)
      BY <1>1, HearsStays
    <3> QED BY <1>1, <3>1, <3>2 DEF Serves
  <2> QED BY <1>1, <2>1 DEF PubsubInv, OwedAreServed
<1> QED BY <1>2, <1>3 DEF PubsubInv

\* A link that keeps listening, to the same transporters, keeps what it is owed.
LEMMA BusKeepsPubsub ==
    ASSUME PubsubInv, StillOwed, UNCHANGED <<sessions, posts, sender, heard>>
    PROVE  PubsubInv'
<1>1. \A m \in Messages : /\ owed'[m] \subseteq owed[m]
                          /\ \A l \in owed'[m] : listeners'[l] > 0 /\ Selected(l)' = Selected(l)
  BY DEF StillOwed
<1>2. PubsubTypes'
  <2>1. owed' \in [Messages -> SUBSET Links]
    <3>1. \A m \in Messages : owed[m] \in SUBSET Links
      BY DEF PubsubInv, PubsubTypes
    <3> QED BY <3>1 DEF StillOwed
  <2> QED BY <2>1 DEF PubsubInv, PubsubTypes
<1>3. SessionsLeadHome' /\ PostedOnce'
  BY DEF PubsubInv, SessionsLeadHome, PostedOnce
<1>4. NothingBeforeSending'
  BY <1>1 DEF PubsubInv, NothingBeforeSending
<1>5. OwedAreServed'
  <2> SUFFICES ASSUME NEW m \in Messages, NEW l \in owed'[m]
               PROVE  /\ listeners'[l] > 0 /\ TopicOf[l] = TopicOf[sender[m].by]
                      /\ \E i \in Instances : \E x \in Nodes : Serves(m, i, x, l)'
    BY DEF OwedAreServed
  <2>1. l \in owed[m] /\ listeners'[l] > 0 /\ Selected(l)' = Selected(l)
    BY <1>1
  <2>2. TopicOf[l] = TopicOf[sender[m].by]
    BY <2>1 DEF PubsubInv, OwedAreServed
  <2>3. PICK i \in Instances, x \in Nodes : Serves(m, i, x, l)
    BY <2>1 DEF PubsubInv, OwedAreServed
  <2>4. PICK j : j = sessions[i][x].to
    OBVIOUS
  <2>5. Hears(l, j) => Hears(l, j)'
    BY <2>1 DEF Hears
  <2>6. Serves(m, i, x, l)'
    BY <2>3, <2>4, <2>5 DEF Serves
  <2> QED BY <2>1, <2>2, <2>6
<1> QED BY <1>2, <1>3, <1>4, <1>5 DEF PubsubInv

LEMMA SessionOpensKeeps ==
    ASSUME PubsubInv, NEW i \in Instances, NEW x \in Nodes, SessionOpens(i, x),
           UNCHANGED <<transporters, listeners>>
    PROVE  PubsubInv'
<1>1. /\ sessions[i][x].phase = "connecting"
      /\ sessions' = [sessions EXCEPT ![i][x].phase = "open"]
      /\ UNCHANGED <<posts, sender, heard, owed>>
  BY DEF SessionOpens
<1>2. sessions[i][x] \in Session /\ sessions[i][x] # NoSession
  <2>1. sessions[i][x] \in Session \cup {NoSession}
    BY DEF PubsubInv, PubsubTypes
  <2>2. sessions[i][x] # NoSession
    BY <1>1, SessionParts
  <2> QED BY <2>1, <2>2, SessionParts
<1>3. PICK e : e = [sessions[i][x] EXCEPT !.phase = "open"]
  OBVIOUS
<1>4. e \in Session /\ e.to = sessions[i][x].to
  BY <1>2, <1>3 DEF Session
<1>5. sessions' = [sessions EXCEPT ![i] = [sessions[i] EXCEPT ![x] = e]]
  BY <1>1, <1>3 DEF PubsubInv, PubsubTypes
<1>6. sessions' \in [Instances -> [Nodes -> Session \cup {NoSession}]]
  BY <1>4, <1>5 DEF PubsubInv, PubsubTypes
<1>7. \A j \in Instances : \A y \in Nodes :
         sessions'[j][y] = IF j = i /\ y = x THEN e ELSE sessions[j][y]
  BY <1>5 DEF PubsubInv, PubsubTypes
<1>8. \A j \in Instances : \A y \in Nodes :
         sessions'[j][y] # NoSession =>
            sessions[j][y] # NoSession /\ sessions'[j][y].to = sessions[j][y].to
  BY <1>2, <1>4, <1>7
<1>9. \A j \in Instances : \A y \in Nodes : sessions[j][y] # NoSession => sessions'[j][y] # NoSession
  BY <1>4, <1>7, SessionParts
<1>10. \A m \in Messages : \A j \in Instances : \A y \in Nodes :
          posts[m][j][y].phase \in {"sent", "heard"} => sessions'[j][y] # NoSession
  BY <1>9 DEF PubsubInv, SessionsLeadHome
<1>11. posts' \in [Messages -> [Instances -> [Nodes -> [phase : PostPhases]]]]
  BY <1>1 DEF PubsubInv, PubsubTypes
<1> QED BY <1>1, <1>6, <1>8, <1>10, <1>11, MovesOn

LEMMA AnsweredKeeps ==
    ASSUME PubsubInv, NEW m \in Messages, NEW i \in Instances, NEW x \in Nodes, Answered(m, i, x),
           UNCHANGED <<transporters, listeners>>
    PROVE  PubsubInv'
<1>1. /\ posts[m][i][x].phase = "heard"
      /\ posts' = [posts EXCEPT ![m][i][x].phase = "done"]
      /\ UNCHANGED <<sessions, sender, heard, owed>>
  BY DEF Answered
<1>2. PICK e : e = [posts[m][i][x] EXCEPT !.phase = "done"]
  OBVIOUS
<1>3. e \in [phase : PostPhases] /\ e.phase = "done"
  <2>1. posts[m][i][x] \in [phase : PostPhases]
    BY DEF PubsubInv, PubsubTypes
  <2> QED BY <1>2, <2>1 DEF PostPhases
<1>4. posts' = [posts EXCEPT ![m][i][x] = e]
  BY <1>1, <1>2
<1>5. posts' \in [Messages -> [Instances -> [Nodes -> [phase : PostPhases]]]]
  BY <1>3, <1>4 DEF PubsubInv, PubsubTypes
<1>6. \A u \in Messages : \A j \in Instances : \A y \in Nodes :
         posts'[u][j][y] = IF u = m /\ j = i /\ y = x THEN e ELSE posts[u][j][y]
  BY <1>4 DEF PubsubInv, PubsubTypes
<1>7. \A u \in Messages : \A j \in Instances : \A y \in Nodes :
         posts'[u][j][y].phase = IF u = m /\ j = i /\ y = x THEN "done" ELSE posts[u][j][y].phase
  BY <1>3, <1>6
<1>8. sessions' \in [Instances -> [Nodes -> Session \cup {NoSession}]]
  BY <1>1 DEF PubsubInv, PubsubTypes
<1>9. \A u \in Messages : \A j \in Instances : \A y \in Nodes :
         posts[u][j][y].phase \in {"sent", "heard"} => sessions[j][y] # NoSession
  BY DEF PubsubInv, SessionsLeadHome
<1>10. \A j \in Instances : \A y \in Nodes :
          sessions'[j][y] # NoSession =>
             sessions[j][y] # NoSession /\ sessions'[j][y].to = sessions[j][y].to
  BY <1>1
<1>11. \A u \in Messages : \A j \in Instances : \A y \in Nodes :
          LET old == posts[u][j][y].phase
              new == posts'[u][j][y].phase
          IN /\ new = "none" <=> old = "none"
             /\ new = "sent" => old = "sent"
             /\ new \in {"sent", "heard"} => sessions'[j][y] # NoSession
             /\ old \in {"sent", "failed", "ended", "closed"} =>
                  new = old \/ new \in {"failed", "ended", "closed"}
  BY <1>1, <1>7, <1>9
<1> QED BY <1>1, <1>5, <1>8, <1>10, <1>11, MovesOn

LEMMA SessionEndsKeeps ==
    ASSUME PubsubInv, NEW i \in Instances, NEW x \in Nodes,
           NEW outcome \in {"failed", "ended", "closed"}, SessionEnds(i, x, outcome),
           UNCHANGED <<transporters, listeners>>
    PROVE  PubsubInv'
<1>1. /\ sessions' = [sessions EXCEPT ![i][x] = NoSession]
      /\ posts' = [m \in Messages |-> IF posts[m][i][x].phase \in {"sent", "heard"}
                      THEN [posts[m] EXCEPT ![i][x].phase = outcome] ELSE posts[m]]
      /\ UNCHANGED <<sender, heard, owed>>
  BY DEF SessionEnds
<1>2. sessions' \in [Instances -> [Nodes -> Session \cup {NoSession}]]
  BY <1>1 DEF PubsubInv, PubsubTypes
<1>3. \A j \in Instances : \A y \in Nodes :
         sessions'[j][y] = IF j = i /\ y = x THEN NoSession ELSE sessions[j][y]
  BY <1>1 DEF PubsubInv, PubsubTypes
<1>4. \A j \in Instances : \A y \in Nodes :
         sessions'[j][y] # NoSession =>
            sessions[j][y] # NoSession /\ sessions'[j][y].to = sessions[j][y].to
  BY <1>3
<1>5. ASSUME NEW m \in Messages
      PROVE  /\ posts'[m] \in [Instances -> [Nodes -> [phase : PostPhases]]]
             /\ \A j \in Instances : \A y \in Nodes :
                  posts'[m][j][y].phase =
                     IF j = i /\ y = x /\ posts[m][i][x].phase \in {"sent", "heard"}
                     THEN outcome ELSE posts[m][j][y].phase
  <2>1. posts[m] \in [Instances -> [Nodes -> [phase : PostPhases]]]
    BY DEF PubsubInv, PubsubTypes
  <2>2. CASE posts[m][i][x].phase \in {"sent", "heard"}
    <3>1. PICK e : e = [posts[m][i][x] EXCEPT !.phase = outcome]
      OBVIOUS
    <3>2. e \in [phase : PostPhases] /\ e.phase = outcome
      <4>1. posts[m][i][x] \in [phase : PostPhases]
        BY <2>1
      <4> QED BY <3>1, <4>1 DEF PostPhases
    <3>3. posts'[m] = [posts[m] EXCEPT ![i][x] = e]
      BY <1>1, <2>2, <3>1
    <3>4. posts'[m] \in [Instances -> [Nodes -> [phase : PostPhases]]]
      BY <2>1, <3>2, <3>3
    <3>5. \A j \in Instances : \A y \in Nodes :
             posts'[m][j][y] = IF j = i /\ y = x THEN e ELSE posts[m][j][y]
      BY <2>1, <3>3
    <3> QED BY <2>2, <3>2, <3>4, <3>5
  <2>3. CASE posts[m][i][x].phase \notin {"sent", "heard"}
    BY <1>1, <2>1, <2>3
  <2> QED BY <2>2, <2>3
<1>6. posts' \in [Messages -> [Instances -> [Nodes -> [phase : PostPhases]]]]
  <2>1. DOMAIN posts' = Messages /\ posts' = [m \in Messages |-> posts'[m]]
    BY <1>1
  <2> QED BY <1>5, <2>1
<1>7. \A m \in Messages : \A j \in Instances : \A y \in Nodes :
         posts[m][j][y].phase \in {"sent", "heard"} => sessions[j][y] # NoSession
  BY DEF PubsubInv, SessionsLeadHome
<1>8. ASSUME NEW m \in Messages, NEW j \in Instances, NEW y \in Nodes
      PROVE  LET old == posts[m][j][y].phase
                 new == posts'[m][j][y].phase
             IN /\ new = "none" <=> old = "none"
                /\ new = "sent" => old = "sent"
                /\ new \in {"sent", "heard"} => sessions'[j][y] # NoSession
                /\ old \in {"sent", "failed", "ended", "closed"} =>
                     new = old \/ new \in {"failed", "ended", "closed"}
  <2>1. PICK old : old = posts[m][j][y].phase
    OBVIOUS
  <2>2. PICK new : new = posts'[m][j][y].phase
    OBVIOUS
  <2>3. CASE j = i /\ y = x /\ old \in {"sent", "heard"}
    <3>1. new = outcome
      BY <1>5, <2>1, <2>2, <2>3
    <3> QED BY <2>1, <2>2, <2>3, <3>1
  <2>4. CASE j = i /\ y = x /\ old \notin {"sent", "heard"}
    <3>1. new = old
      BY <1>5, <2>1, <2>2, <2>4
    <3> QED BY <2>1, <2>2, <2>4, <3>1
  <2>5. CASE ~(j = i /\ y = x)
    <3>1. new = old /\ sessions'[j][y] = sessions[j][y]
      BY <1>3, <1>5, <2>1, <2>2, <2>5
    <3> QED BY <1>7, <2>1, <2>2, <3>1
  <2> QED BY <2>3, <2>4, <2>5
<1> QED BY <1>1, <1>2, <1>4, <1>6, <1>8, MovesOn

LEMMA ClosePubsubKeeps ==
    ASSUME PubsubInv, NEW i \in Instances, ClosePubsub(i), UNCHANGED <<transporters, listeners>>
    PROVE  PubsubInv'
<1>1. UNCHANGED <<posts, sender, heard, owed>>
  BY DEF ClosePubsub
<1>2. PICK kept : kept = [x \in Nodes |->
           IF \E m \in Messages : posts[m][i][x].phase \in {"sent", "heard"}
           THEN sessions[i][x] ELSE NoSession]
  OBVIOUS
<1>3. sessions' = [sessions EXCEPT ![i] = kept]
  BY <1>2 DEF ClosePubsub
<1>4. kept \in [Nodes -> Session \cup {NoSession}]
  BY <1>2 DEF PubsubInv, PubsubTypes
<1>5. sessions' \in [Instances -> [Nodes -> Session \cup {NoSession}]]
  BY <1>3, <1>4 DEF PubsubInv, PubsubTypes
<1>6. sessions'[i] = kept /\ \A j \in Instances : j # i => sessions'[j] = sessions[j]
  BY <1>3 DEF PubsubInv, PubsubTypes
<1>7. \A j \in Instances : \A y \in Nodes :
         sessions'[j][y] # NoSession => sessions'[j][y] = sessions[j][y]
  BY <1>2, <1>6
<1>8. \A m \in Messages : \A j \in Instances : \A y \in Nodes :
         posts[m][j][y].phase \in {"sent", "heard"} => sessions'[j][y] # NoSession
  <2> SUFFICES ASSUME NEW m \in Messages, NEW j \in Instances, NEW y \in Nodes,
                      posts[m][j][y].phase \in {"sent", "heard"}
               PROVE  sessions'[j][y] # NoSession
    OBVIOUS
  <2>1. sessions[j][y] # NoSession
    BY DEF PubsubInv, SessionsLeadHome
  <2>2. sessions'[j][y] = sessions[j][y]
    BY <1>2, <1>6
  <2> QED BY <2>1, <2>2
<1>9. posts' \in [Messages -> [Instances -> [Nodes -> [phase : PostPhases]]]]
  BY <1>1 DEF PubsubInv, PubsubTypes
<1>10. \A j \in Instances : \A y \in Nodes :
         sessions'[j][y] # NoSession =>
            sessions[j][y] # NoSession /\ sessions'[j][y].to = sessions[j][y].to
  BY <1>7
<1> QED BY <1>1, <1>5, <1>8, <1>9, <1>10, MovesOn

\* The server at the other end gives the event to its links.
LEMMA PostArrivesKeeps ==
    ASSUME BusInv, PubsubInv, NEW m \in Messages, NEW i \in Instances, NEW x \in Nodes,
           PostArrives(m, i, x), UNCHANGED <<transporters, listeners>>
    PROVE  PubsubInv'
<1>1. PICK t : t = TopicOf[sender[m].by]
  OBVIOUS
<1>2. PICK j : j = sessions[i][x].to
  OBVIOUS
<1>3. /\ posts[m][i][x].phase = "sent" /\ sessions[i][x].phase = "open"
      /\ posts' = [posts EXCEPT ![m][i][x].phase = "heard"]
      /\ heard' = [heard EXCEPT ![m] = [l \in Links |->
              IF TopicOf[l] = t /\ Hears(l, j) THEN @[l] + 1 ELSE @[l]]]
      /\ UNCHANGED <<sessions, sender, owed>>
  BY <1>1, <1>2 DEF PostArrives
<1>4. sessions[i][x] # NoSession /\ sessions[i][x] \in Session /\ j \in Instances /\ HomeOf[j] = x
  <2>1. sessions[i][x] # NoSession
    BY <1>3 DEF PubsubInv, SessionsLeadHome
  <2>2. sessions[i][x] \in Session
    BY <2>1, SessionParts DEF PubsubInv, PubsubTypes
  <2>3. HomeOf[j] = x
    BY <1>2, <2>1 DEF PubsubInv, SessionsLeadHome
  <2> QED BY <1>2, <2>1, <2>2, <2>3, SessionParts
\* The request.
<1>5. PICK e : e = [posts[m][i][x] EXCEPT !.phase = "heard"]
  OBVIOUS
<1>6. e \in [phase : PostPhases] /\ e.phase = "heard"
  <2>1. posts[m][i][x] \in [phase : PostPhases]
    BY DEF PubsubInv, PubsubTypes
  <2> QED BY <1>5, <2>1 DEF PostPhases
<1>7. posts' = [posts EXCEPT ![m][i][x] = e]
  BY <1>3, <1>5
<1>8. posts' \in [Messages -> [Instances -> [Nodes -> [phase : PostPhases]]]]
  BY <1>6, <1>7 DEF PubsubInv, PubsubTypes
<1>9. \A u \in Messages : \A k \in Instances : \A y \in Nodes :
         posts'[u][k][y] = IF u = m /\ k = i /\ y = x THEN e ELSE posts[u][k][y]
  BY <1>7 DEF PubsubInv, PubsubTypes
<1>10. \A u \in Messages : \A k \in Instances : \A y \in Nodes :
          posts'[u][k][y].phase = IF u = m /\ k = i /\ y = x THEN "heard" ELSE posts[u][k][y].phase
  BY <1>6, <1>9
\* Who has heard it.
<1>11. PICK now : now = [l \in Links |-> IF TopicOf[l] = t /\ Hears(l, j) THEN heard[m][l] + 1
                                         ELSE heard[m][l]]
  OBVIOUS
<1>12. heard' = [heard EXCEPT ![m] = now]
  BY <1>3, <1>11 DEF PubsubInv, PubsubTypes
<1>13. \A l \in Links : heard[m][l] \in Nat /\ heard[m][l] + 1 \in Nat
  BY DEF PubsubInv, PubsubTypes
<1>14. now \in [Links -> Nat]
  BY <1>11, <1>13
<1>15. heard' \in [Messages -> [Links -> Nat]]
  BY <1>12, <1>14 DEF PubsubInv, PubsubTypes
<1>16. heard'[m] = now /\ \A u \in Messages : u # m => heard'[u] = heard[u]
  BY <1>12 DEF PubsubInv, PubsubTypes
<1>17. \A l \in Links : heard'[m][l] = IF TopicOf[l] = t /\ Hears(l, j) THEN heard[m][l] + 1
                                       ELSE heard[m][l]
  BY <1>11, <1>16
<1>18. PubsubTypes'
  BY <1>3, <1>8, <1>15 DEF PubsubInv, PubsubTypes
<1>19. SessionsLeadHome'
  BY <1>3, <1>4, <1>10 DEF PubsubInv, SessionsLeadHome
<1>20. sender[m] # Unsent
  <2>1. posts[m][i][x] # NoPost
    BY <1>3, SessionParts
  <2> QED BY <2>1 DEF PubsubInv, NothingBeforeSending
<1>21. NothingBeforeSending'
  BY <1>3, <1>9, <1>16, <1>20 DEF PubsubInv, NothingBeforeSending
<1>22. OwedAreServed'
  <2> SUFFICES ASSUME NEW u \in Messages, NEW l \in owed[u]
               PROVE  /\ listeners[l] > 0 /\ TopicOf[l] = TopicOf[sender[u].by]
                      /\ \E k \in Instances : \E y \in Nodes : Serves(u, k, y, l)'
    BY <1>3 DEF OwedAreServed
  <2>1. l \in Links
    BY DEF PubsubInv, PubsubTypes
  <2>2. listeners[l] > 0 /\ TopicOf[l] = TopicOf[sender[u].by]
    BY DEF PubsubInv, OwedAreServed
  <2>3. PICK k \in Instances, y \in Nodes : Serves(u, k, y, l)
    BY DEF PubsubInv, OwedAreServed
  <2>4. CASE u = m /\ k = i /\ y = x
    <3>1. posts'[u][k][y].phase = "heard"
      BY <1>10, <2>4
    <3>2. PICK before \in Nat : before = heard[m][l]
      BY <1>13, <2>1
    <3>3. before > 0 \/ Hears(l, j)
      BY <1>2, <1>3, <2>3, <2>4, <3>2 DEF Serves
    <3>4. CASE TopicOf[l] = t /\ Hears(l, j)
      <4>1. heard'[u][l] = before + 1
        BY <1>17, <2>1, <2>4, <3>2, <3>4
      <4>2. before + 1 > 0
        OBVIOUS
      <4> QED BY <2>2, <3>1, <4>1, <4>2 DEF Serves
    <3>5. CASE ~(TopicOf[l] = t /\ Hears(l, j))
      <4>1. heard'[u][l] = before /\ before > 0
        BY <1>1, <1>17, <2>1, <2>2, <2>4, <3>2, <3>3, <3>5
      <4> QED BY <2>2, <3>1, <4>1 DEF Serves
    <3> QED BY <3>4, <3>5
  <2>5. CASE ~(u = m /\ k = i /\ y = x)
    <3>1. posts'[u][k][y].phase = posts[u][k][y].phase
      BY <1>10, <2>5
    <3>2. heard[u][l] > 0 => heard'[u][l] > 0
      <4>1. CASE u = m
        <5>1. PICK before \in Nat : before = heard[m][l]
          BY <1>13, <2>1
        <5>2. before > 0 => before + 1 > 0
          OBVIOUS
        <5> QED BY <1>17, <2>1, <4>1, <5>1, <5>2
      <4>2. CASE u # m
        BY <1>16, <4>2
      <4> QED BY <4>1, <4>2
    <3>3. PICK h : h = sessions[k][y].to
      OBVIOUS
    <3>4. Hears(l, h)' <=> Hears(l, h)
      BY HearsStays
    <3>5. Serves(u, k, y, l)'
      BY <1>3, <2>3, <3>1, <3>2, <3>3, <3>4 DEF Serves
    <3> QED BY <2>2, <3>5
  <2> QED BY <2>4, <2>5
<1>23. PostedOnce'
  <2> SUFFICES ASSUME NEW u \in Messages, sender[u] # Unsent, RequestedBy[sender[u].by] # "fanout"
               PROVE  /\ \A k, h \in Instances : \A y, z \in Nodes :
                           posts'[u][k][y].phase # "none" /\ posts'[u][h][z].phase # "none" => k = h
                      /\ \A l \in Links :
                           /\ heard'[u][l] <= 1
                           /\ heard'[u][l] = 1 => \A k \in Instances : posts'[u][k][HostOf[l]].phase # "sent"
    BY <1>3 DEF PostedOnce
  <2>1. /\ \A k, h \in Instances : \A y, z \in Nodes :
             posts[u][k][y].phase # "none" /\ posts[u][h][z].phase # "none" => k = h
        /\ \A l \in Links :
             /\ heard[u][l] <= 1
             /\ heard[u][l] = 1 => \A k \in Instances : posts[u][k][HostOf[l]].phase # "sent"
    BY DEF PubsubInv, PostedOnce
  <2>2. CASE u # m
    <3>1. heard'[u] = heard[u]
      BY <1>16, <2>2
    <3>2. \A k \in Instances : \A y \in Nodes : posts'[u][k][y] = posts[u][k][y]
      BY <1>9, <2>2
    <3>3. \A l \in Links : HostOf[l] \in Nodes
      BY LinkParts
    <3> QED BY <2>1, <3>1, <3>2, <3>3
  <2>3. CASE u = m
    <3>1. \A k \in Instances : \A y \in Nodes :
             posts'[m][k][y].phase # "none" => posts[m][k][y].phase # "none"
      BY <1>3, <1>10
    <3>2. ASSUME NEW k \in Instances, NEW h \in Instances, NEW y \in Nodes, NEW z \in Nodes,
                 posts'[m][k][y].phase # "none", posts'[m][h][z].phase # "none"
          PROVE  k = h
      <4>1. posts[m][k][y].phase # "none" /\ posts[m][h][z].phase # "none"
        BY <3>1, <3>2
      <4> QED BY <2>1, <2>3, <4>1
    <3>3. ASSUME NEW l \in Links
          PROVE  /\ heard'[m][l] <= 1
                 /\ heard'[m][l] = 1 => \A k \in Instances : posts'[m][k][HostOf[l]].phase # "sent"
      <4>1. PICK before \in Nat : before = heard[m][l]
        BY <1>13
      <4>2. /\ before <= 1
            /\ before = 1 => \A k \in Instances : posts[m][k][HostOf[l]].phase # "sent"
        BY <2>1, <2>3, <4>1
      <4>3. HostOf[l] \in Nodes
        BY LinkParts
      <4>4. CASE TopicOf[l] = t /\ Hears(l, j)
        <5>1. HostOf[l] = x
          BY <1>4, <4>4, SelectedParts DEF BusInv, Hears
        <5>2. before = 0
          BY <1>3, <4>2, <5>1
        <5>3. heard'[m][l] = before + 1 /\ before + 1 = 1
          <6>1. heard'[m][l] = before + 1
            BY <1>17, <4>1, <4>4
          <6> QED BY <5>2, <6>1
        <5>4. ASSUME NEW k \in Instances
              PROVE  posts'[m][k][x].phase # "sent"
          <6>1. CASE k = i
            BY <1>10, <6>1
          <6>2. CASE k # i
            <7>1. posts[m][k][x].phase = "none"
              BY <1>3, <2>1, <2>3, <6>2
            <7> QED BY <1>10, <6>2, <7>1
          <6> QED BY <6>1, <6>2
        <5> QED BY <5>1, <5>3, <5>4
      <4>5. CASE ~(TopicOf[l] = t /\ Hears(l, j))
        <5>1. heard'[m][l] = before
          BY <1>17, <4>1, <4>5
        <5> QED BY <1>10, <4>2, <4>3, <5>1
      <4> QED BY <4>4, <4>5
    <3> QED BY <2>3, <3>2, <3>3
  <2> QED BY <2>2, <2>3
<1> QED BY <1>18, <1>19, <1>21, <1>22, <1>23 DEF PubsubInv

\* Whom a publisher posts to, and over which session.
LEMMA TargetParts ==
    ASSUME DiscoveryInv, PubsubInv, NEW i \in Instances, NEW x \in Nodes, NEW t,
           x \in TargetsOf(i, t)
    PROVE  /\ SessionTo(i, x) \in Session
           /\ HomeOf[SessionTo(i, x).to] = x
           /\ sessions[i][x] # NoSession => SessionTo(i, x) = sessions[i][x]
<1>1. PICK n \in Nodes : n = HomeOf[i]
  BY EventBusAssumption
<1>2. PICK snapshot : snapshot = Known(n, x)
  OBVIOUS
<1>3. PICK j : j = snapshot.transporters[NameOf[i]]
  OBVIOUS
<1>4. x \in {n} \cup DOMAIN members[n] /\ j \in Instances
  BY <1>1, <1>2, <1>3 DEF TargetsOf
<1>5. Own(x, snapshot)
  <2>1. CASE x = n
    <3>1. snapshot = local[n]
      BY <1>2, <2>1 DEF Known
    <3> QED BY <2>1, <3>1 DEF DiscoveryInv, SnapshotsAreGenuine
  <2>2. CASE x # n
    <3>1. snapshot = members[n][x] /\ x \in DOMAIN members[n]
      BY <1>2, <1>4, <2>2 DEF Known
    <3> QED BY <3>1 DEF DiscoveryInv, SnapshotsAreGenuine, Genuine
  <2> QED BY <2>1, <2>2
<1>6. HomeOf[j] = x
  BY <1>3, <1>4, <1>5 DEF Own
<1>7. CASE sessions[i][x] = NoSession
  <2>1. SessionTo(i, x) = [phase |-> "connecting", to |-> j]
    BY <1>1, <1>2, <1>3, <1>7 DEF SessionTo
  <2> QED BY <1>4, <1>6, <1>7, <2>1 DEF Session
<1>8. CASE sessions[i][x] # NoSession
  <2>1. SessionTo(i, x) = sessions[i][x]
    BY <1>8 DEF SessionTo
  <2>2. sessions[i][x] \in Session
    BY <1>8, SessionParts DEF PubsubInv, PubsubTypes
  <2>3. HomeOf[sessions[i][x].to] = x
    BY <1>8 DEF PubsubInv, SessionsLeadHome
  <2> QED BY <2>1, <2>2, <2>3
<1> QED BY <1>7, <1>8

LEMMA PublishKeeps ==
    ASSUME DiscoveryInv, BusInv, PubsubInv, NEW l \in Links, NEW m \in Messages, Publish(l, m),
           UNCHANGED <<transporters, listeners>>
    PROVE  PubsubInv'
<1>1. PICK t : t = TopicOf[l]
  OBVIOUS
<1>2. PICK to : to = [i \in Instances |-> [x \in Nodes |-> i \in Selected(l) /\ x \in TargetsOf(i, t)]]
  OBVIOUS
<1>3. \A i \in Instances : \A x \in Nodes :
         to[i][x] <=> i \in Selected(l) /\ x \in TargetsOf(i, t)
  BY <1>2
<1>4. /\ sender[m] = Unsent
      /\ sender' = [sender EXCEPT ![m] = [phase |-> "sent", by |-> l]]
      /\ sessions' = [i \in Instances |-> [x \in Nodes |->
             IF i \in Selected(l) /\ x \in TargetsOf(i, t) THEN SessionTo(i, x) ELSE sessions[i][x]]]
      /\ posts' = [posts EXCEPT ![m] = [i \in Instances |-> [x \in Nodes |->
             IF i \in Selected(l) /\ x \in TargetsOf(i, t) THEN [phase |-> "sent"] ELSE NoPost]]]
      /\ owed' = [owed EXCEPT ![m] =
             {k \in Links : TopicOf[k] = t /\ \E i \in Selected(l) : \E x \in TargetsOf(i, t) :
                   Hears(k, sessions'[i][x].to)}]
      /\ UNCHANGED heard
  BY <1>1 DEF Publish
\* The sessions.
<1>5. \A i \in Instances : \A x \in Nodes :
         sessions'[i][x] = IF to[i][x] THEN SessionTo(i, x) ELSE sessions[i][x]
  BY <1>3, <1>4
<1>6. \A i \in Instances : \A x \in Nodes : to[i][x] =>
         /\ SessionTo(i, x) \in Session /\ HomeOf[SessionTo(i, x).to] = x
         /\ sessions[i][x] # NoSession => SessionTo(i, x) = sessions[i][x]
  BY <1>3, TargetParts
<1>7. \A i \in Instances : \A x \in Nodes :
         /\ sessions[i][x] # NoSession => sessions'[i][x] = sessions[i][x]
         /\ to[i][x] => sessions'[i][x] \in Session
         /\ sessions'[i][x] # NoSession => HomeOf[sessions'[i][x].to] = x
  <2> SUFFICES ASSUME NEW i \in Instances, NEW x \in Nodes
               PROVE  /\ sessions[i][x] # NoSession => sessions'[i][x] = sessions[i][x]
                      /\ to[i][x] => sessions'[i][x] \in Session
                      /\ sessions'[i][x] # NoSession => HomeOf[sessions'[i][x].to] = x
    OBVIOUS
  <2>1. CASE to[i][x]
    BY <1>5, <1>6, <2>1
  <2>2. CASE ~to[i][x]
    <3>1. sessions'[i][x] = sessions[i][x]
      BY <1>5, <2>2
    <3> QED BY <2>2, <3>1 DEF PubsubInv, SessionsLeadHome
  <2> QED BY <2>1, <2>2
<1>8. sessions' \in [Instances -> [Nodes -> Session \cup {NoSession}]]
  <2>1. \A i \in Instances : \A x \in Nodes : sessions'[i][x] \in Session \cup {NoSession}
    BY <1>5, <1>6 DEF PubsubInv, PubsubTypes
  <2>2. sessions' = [i \in Instances |-> [x \in Nodes |-> sessions'[i][x]]]
    BY <1>4
  <2> QED BY <2>1, <2>2
\* The requests.
<1>9. PICK sent : sent = [i \in Instances |-> [x \in Nodes |->
             IF i \in Selected(l) /\ x \in TargetsOf(i, t) THEN [phase |-> "sent"] ELSE NoPost]]
  OBVIOUS
<1>10. /\ sent \in [Instances -> [Nodes -> [phase : PostPhases]]]
       /\ \A i \in Instances : \A x \in Nodes :
            sent[i][x].phase = IF to[i][x] THEN "sent" ELSE "none"
  <2>1. NoPost \in [phase : PostPhases] /\ [phase |-> "sent"] \in [phase : PostPhases]
    BY DEF NoPost, PostPhases
  <2>2. sent \in [Instances -> [Nodes -> [phase : PostPhases]]]
    BY <1>9, <2>1
  <2>3. \A i \in Instances : \A x \in Nodes :
           sent[i][x] = IF to[i][x] THEN [phase |-> "sent"] ELSE NoPost
    BY <1>3, <1>9
  <2> QED BY <2>2, <2>3, SessionParts
<1>11. /\ posts' = [posts EXCEPT ![m] = sent]
       /\ posts'[m] = sent /\ \A u \in Messages : u # m => posts'[u] = posts[u]
       /\ posts' \in [Messages -> [Instances -> [Nodes -> [phase : PostPhases]]]]
  <2>1. posts' = [posts EXCEPT ![m] = sent]
    BY <1>4, <1>9
  <2> QED BY <1>10, <2>1 DEF PubsubInv, PubsubTypes
\* Who sends it, and to whom.
<1>12. PICK by : by = [phase |-> "sent", by |-> l]
  OBVIOUS
<1>13. /\ by \in [phase : {"sent"}, by : Links] /\ by.by = l
       /\ sender' = [sender EXCEPT ![m] = by]
  BY <1>4, <1>12
<1>14. /\ sender'[m] = by /\ \A u \in Messages : u # m => sender'[u] = sender[u]
       /\ sender' \in [Messages -> [phase : {"sent"}, by : Links] \cup {Unsent}]
  BY <1>13 DEF PubsubInv, PubsubTypes
<1>15. PICK those : those = {k \in Links : TopicOf[k] = t /\ \E i \in Selected(l) :
                                \E x \in TargetsOf(i, t) : Hears(k, sessions'[i][x].to)}
  OBVIOUS
<1>16. /\ those \in SUBSET Links
       /\ owed' = [owed EXCEPT ![m] = those]
  BY <1>4, <1>15
<1>17. /\ owed'[m] = those /\ \A u \in Messages : u # m => owed'[u] = owed[u]
       /\ owed' \in [Messages -> SUBSET Links]
  BY <1>16 DEF PubsubInv, PubsubTypes
<1>18. PubsubTypes'
  BY <1>4, <1>8, <1>11, <1>14, <1>17 DEF PubsubInv, PubsubTypes
<1>19. SessionsLeadHome'
  <2>1. ASSUME NEW i \in Instances, NEW x \in Nodes, NEW u \in Messages,
               posts'[u][i][x].phase \in {"sent", "heard"}
        PROVE  sessions'[i][x] # NoSession
    <3>1. CASE u = m
      <4>1. to[i][x]
        BY <1>10, <1>11, <2>1, <3>1
      <4> QED BY <1>7, <4>1, SessionParts
    <3>2. CASE u # m
      <4>1. sessions[i][x] # NoSession
        BY <1>11, <2>1, <3>2 DEF PubsubInv, SessionsLeadHome
      <4> QED BY <1>7, <4>1
    <3> QED BY <3>1, <3>2
  <2> QED BY <1>7, <2>1 DEF SessionsLeadHome
<1>20. NothingBeforeSending'
  <2>1. by # Unsent
    BY <1>12 DEF Unsent
  <2> QED BY <1>4, <1>11, <1>14, <1>17, <2>1 DEF PubsubInv, NothingBeforeSending
<1>21. Selected(l) \subseteq Instances /\ \A i, x : x \in TargetsOf(i, t) /\ i \in Instances => x \in Nodes
  <2>1. Selected(l) \subseteq Instances
    BY SelectedParts DEF BusInv
  <2>2. ASSUME NEW i \in Instances, NEW x, x \in TargetsOf(i, t)
        PROVE  x \in Nodes
    <3>1. HomeOf[i] \in Nodes
      BY EventBusAssumption
    <3>2. x = HomeOf[i] \/ x \in DOMAIN members[HomeOf[i]]
      BY <2>2 DEF TargetsOf
    <3> QED BY <3>1, <3>2 DEF DiscoveryInv, DiscoveryTypes
  <2> QED BY <2>1, <2>2
<1>22. OwedAreServed'
  <2> SUFFICES ASSUME NEW u \in Messages, NEW k \in owed'[u]
               PROVE  /\ listeners[k] > 0 /\ TopicOf[k] = TopicOf[sender'[u].by]
                      /\ \E i \in Instances : \E x \in Nodes : Serves(u, i, x, k)'
    BY DEF OwedAreServed
  <2>1. CASE u = m
    <3>0. PICK i \in Selected(l) : \E x \in TargetsOf(i, t) : Hears(k, sessions'[i][x].to)
      BY <1>15, <1>17, <2>1
    <3>1. PICK x \in TargetsOf(i, t) : Hears(k, sessions'[i][x].to)
      BY <3>0
    <3>2. TopicOf[k] = t
      BY <1>15, <1>17, <2>1
    <3>3. i \in Instances /\ x \in Nodes
      BY <1>21, <3>1
    <3>4. posts'[u][i][x].phase = "sent"
      BY <1>3, <1>10, <1>11, <2>1, <3>1, <3>3
    <3>5. PICK h : h = sessions'[i][x].to
      OBVIOUS
    <3>6. Hears(k, h) /\ Hears(k, h)'
      BY <3>1, <3>5, HearsStays
    <3>7. Serves(u, i, x, k)'
      BY <3>4, <3>5, <3>6 DEF Serves
    <3>8. listeners[k] > 0
      BY <3>6 DEF Hears
    <3>9. TopicOf[sender'[u].by] = t
      BY <1>1, <1>13, <1>14, <2>1
    <3> QED BY <3>2, <3>3, <3>7, <3>8, <3>9
  <2>2. CASE u # m
    <3>1. k \in owed[u] /\ sender'[u] = sender[u] /\ posts'[u] = posts[u]
      BY <1>11, <1>14, <1>17, <2>2
    <3>2. /\ listeners[k] > 0 /\ TopicOf[k] = TopicOf[sender[u].by]
          /\ \E i \in Instances : \E x \in Nodes : Serves(u, i, x, k)
      BY <3>1 DEF PubsubInv, OwedAreServed
    <3>3. PICK i \in Instances, x \in Nodes : Serves(u, i, x, k)
      BY <3>2
    <3>4. PICK h : h = sessions[i][x].to
      OBVIOUS
    <3>5. Hears(k, h)' <=> Hears(k, h)
      BY HearsStays
    <3>6. posts[u][i][x].phase = "sent" => sessions'[i][x] = sessions[i][x]
      BY <1>7 DEF PubsubInv, SessionsLeadHome
    <3>7. Serves(u, i, x, k)'
      BY <1>4, <3>1, <3>3, <3>4, <3>5, <3>6 DEF Serves
    <3> QED BY <3>1, <3>2, <3>7
  <2> QED BY <2>1, <2>2
<1>23. PostedOnce'
  <2> SUFFICES ASSUME NEW u \in Messages, sender'[u] # Unsent, RequestedBy[sender'[u].by] # "fanout"
               PROVE  /\ \A i, j \in Instances : \A x, y \in Nodes :
                           posts'[u][i][x].phase # "none" /\ posts'[u][j][y].phase # "none" => i = j
                      /\ \A k \in Links :
                           /\ heard[u][k] <= 1
                           /\ heard[u][k] = 1 => \A i \in Instances : posts'[u][i][HostOf[k]].phase # "sent"
    BY <1>4 DEF PostedOnce
  <2>1. CASE u = m
    <3>1. RequestedBy[l] # "fanout"
      BY <1>13, <1>14, <2>1
    <3>2. \A i, j \in Selected(l) : i = j
      BY <3>1, SelectedParts DEF BusInv
    <3>3. \A i \in Instances : \A x \in Nodes : posts'[m][i][x].phase # "none" => i \in Selected(l)
      BY <1>3, <1>10, <1>11
    <3>4. \A k \in Links : heard[m][k] = 0
      BY <1>4 DEF PubsubInv, NothingBeforeSending
    <3>5. \A k \in Links : heard[m][k] <= 1 /\ heard[m][k] # 1
      BY <3>4
    <3> QED BY <2>1, <3>2, <3>3, <3>5
  <2>2. CASE u # m
    <3>1. sender'[u] = sender[u] /\ posts'[u] = posts[u]
      BY <1>11, <1>14, <2>2
    <3> QED BY <3>1 DEF PubsubInv, PostedOnce
  <2> QED BY <2>1, <2>2
<1> QED BY <1>18, <1>19, <1>20, <1>22, <1>23 DEF PubsubInv

-----------------------------------------------------------------------------
(* The initial states.                                                     *)

LEMMA NewNodeParts ==
    /\ NewNode \in Snapshots /\ NewNode.topics = {}
    /\ \A name \in Names : NewNode.transporters[name] = "absent"
    /\ \A name \in Names, value \in Values :
         LET node == RefreshTransporter(NewNode, name, value) IN
         /\ node \in Snapshots /\ node.topics = {}
         /\ \A other \in Names : node.transporters[other] = IF other = name THEN value ELSE "absent"
<1>1. NewNode \in Snapshots /\ NewNode.topics = {}
      /\ \A name \in Names : NewNode.transporters[name] = "absent"
  BY DEF NewNode, Snapshots
<1>2. ASSUME NEW name \in Names, NEW value \in Values
      PROVE  LET node == RefreshTransporter(NewNode, name, value) IN
             /\ node \in Snapshots /\ node.topics = {}
             /\ \A other \in Names : node.transporters[other] = IF other = name THEN value ELSE "absent"
  <2>1. PICK node : node = RefreshTransporter(NewNode, name, value)
    OBVIOUS
  <2>2. PICK entries : entries = [other \in Names |-> IF other = name THEN value ELSE "absent"]
    OBVIOUS
  <2>3. /\ node \in [version : Nat, topics : SUBSET Topics, transporters : [Names -> Values]]
        /\ node.topics = {} /\ node.transporters = entries
    <3>1. PICK base : base = [other \in Names |-> "absent"]
      OBVIOUS
    <3>2. NewNode = [version |-> 0, topics |-> {}, transporters |-> base]
      BY <3>1 DEF NewNode
    <3>3. entries = [base EXCEPT ![name] = value]
      BY <2>2, <3>1
    <3>4. NewNode.version = 0 /\ NewNode.topics = {} /\ NewNode.transporters = base
      BY <3>2
    <3>5. NewNode \in [version : Nat, topics : SUBSET Topics, transporters : [Names -> Values]]
      BY <1>1 DEF Snapshots, Values
    <3>6. PICK e : e = [NewNode EXCEPT !.version = @ + 1, !.transporters[name] = value]
      OBVIOUS
    <3>7. e = [NewNode EXCEPT !.version = 0 + 1, !.transporters = entries]
      BY <3>3, <3>4, <3>5, <3>6
    <3>8. node = e
      BY <2>1, <3>6 DEF RefreshTransporter
    <3>9. entries \in [Names -> Values] /\ 0 + 1 \in Nat
      BY <2>2 DEF Values
    <3>10. /\ e \in [version : Nat, topics : SUBSET Topics, transporters : [Names -> Values]]
           /\ e.topics = {} /\ e.transporters = entries
      BY <3>4, <3>5, <3>7, <3>9
    <3> QED BY <3>8, <3>10
  <2>4. node \in Snapshots
    BY <2>3 DEF Snapshots, Values
  <2> QED BY <2>1, <2>2, <2>3, <2>4
<1> QED BY <1>1, <1>2

\* A process has no transporter in the beginning, or one that listens.
LEMMA FirstTransporters ==
    ASSUME BusInit, NEW n \in Nodes
    PROVE  \/ /\ EarlyAt(n) = {} /\ local[n] = NewNode /\ transporters[n] = <<>>
           \/ \E i \in Early :
                /\ HomeOf[i] = n /\ EarlyAt(n) = {i}
                /\ local[n] = RefreshTransporter(NewNode, NameOf[i], i)
                /\ transporters[n] = <<i>>
<1>1. PICK early : early = EarlyAt(n)
  OBVIOUS
<1>2. /\ local[n] = IF early = {} THEN NewNode
                    ELSE LET i == CHOOSE i \in early : TRUE IN
                         RefreshTransporter(NewNode, NameOf[i], i)
      /\ transporters[n] = SetToSeq(early)
  BY <1>1 DEF BusInit
<1>3. CASE early = {}
  <2>1. IsFiniteSet({}) /\ Cardinality({}) = 0
    BY FS_EmptySet
  <2>2. PICK q : q = SetToSeq({})
    OBVIOUS
  <2>3. q \in Seq({}) /\ Len(q) = 0
    BY <2>1, <2>2, SetToSeqLists
  <2>4. q = <<>>
    BY <2>3, EmptySeq
  <2> QED BY <1>1, <1>2, <1>3, <2>2, <2>4
<1>4. CASE early # {}
  <2>1. PICK i \in early : i = CHOOSE j \in early : TRUE
    BY <1>4
  <2>2. i \in Early /\ HomeOf[i] = n /\ i \in Instances
    BY <1>1, EventBusAssumption DEF EarlyAt
  <2>3. early = {i}
    BY <1>1, <2>2, EventBusAssumption DEF EarlyAt
  <2>4. local[n] = RefreshTransporter(NewNode, NameOf[i], i)
    BY <1>2, <1>4, <2>1
  <2>5. IsFiniteSet({i}) /\ Cardinality({i}) = 1
    BY FS_Singleton
  <2>6. PICK q : q = SetToSeq({i})
    OBVIOUS
  <2>7. q \in Seq({i}) /\ Len(q) = 1
    BY <2>5, <2>6, SetToSeqLists
  <2>8. q = <<i>>
    <3>1. q[1] = i
      BY <2>7
    <3> QED BY <2>7, <3>1
  <2> QED BY <1>1, <1>2, <2>2, <2>3, <2>4, <2>6, <2>8
<1> QED BY <1>3, <1>4

LEMMA BusStarts ==
    ASSUME BusInit
    PROVE  /\ BusInv
           /\ local \in [Nodes -> Snapshots] /\ \A x \in Nodes : Own(x, local[x])
<1>1. "absent" \notin Instances /\ Instances \subseteq Values
  BY EventBusAssumption DEF Values
<1>2. ASSUME NEW n \in Nodes
      PROVE  /\ local[n] \in Snapshots /\ local[n].topics = {} /\ Own(n, local[n])
             /\ transporters[n] \in Seq(Instances)
             /\ \A k, j \in 1..Len(transporters[n]) : HomeOf[transporters[n][k]] = n /\ k = j
             /\ \A i \in Instances : HomeOf[i] = n =>
                  /\ i \in ToSet(transporters[n]) <=> i \in Early
                  /\ local[n].transporters[NameOf[i]] = i <=> i \in Early
  <2>1. CASE EarlyAt(n) = {} /\ local[n] = NewNode /\ transporters[n] = <<>>
    <3>1. \A i \in Instances : local[n].transporters[NameOf[i]] = "absent"
      BY <2>1, NewNodeParts, EventBusAssumption
    <3>2. Own(n, local[n])
      BY <1>1, <3>1 DEF Own
    <3>3. ToSet(<<>>) = {} /\ <<>> \in Seq(Instances) /\ Len(<<>>) = 0 /\ 1..0 = {}
      BY DEF ToSet
    <3>4. \A i \in Instances : HomeOf[i] = n => i \notin Early
      BY <2>1 DEF EarlyAt
    <3> QED BY <1>1, <2>1, <3>1, <3>2, <3>3, <3>4, NewNodeParts
  <2>2. CASE \E i \in Early :
                /\ HomeOf[i] = n /\ EarlyAt(n) = {i}
                /\ local[n] = RefreshTransporter(NewNode, NameOf[i], i)
                /\ transporters[n] = <<i>>
    <3>1. PICK i \in Early :
                /\ HomeOf[i] = n /\ EarlyAt(n) = {i}
                /\ local[n] = RefreshTransporter(NewNode, NameOf[i], i)
                /\ transporters[n] = <<i>>
      BY <2>2
    <3>2. i \in Instances /\ i \in Values /\ NameOf[i] \in Names
      BY <1>1, EventBusAssumption
    <3>3. PICK node : node = RefreshTransporter(NewNode, NameOf[i], i)
      OBVIOUS
    <3>4. /\ node \in Snapshots /\ node.topics = {}
          /\ \A other \in Names : node.transporters[other] = IF other = NameOf[i] THEN i ELSE "absent"
      BY <3>2, <3>3, NewNodeParts
    <3>5. \A j \in Instances : NameOf[j] \in Names
      BY EventBusAssumption
    <3>6. \A j \in Instances :
             local[n].transporters[NameOf[j]] = IF NameOf[j] = NameOf[i] THEN i ELSE "absent"
      BY <3>1, <3>3, <3>4, <3>5
    <3>7. Own(n, local[n])
      BY <1>1, <3>1, <3>6 DEF Own
    <3>8. /\ <<i>> \in Seq(Instances) /\ Len(<<i>>) = 1 /\ <<i>>[1] = i
          /\ \A k \in 1..1 : k = 1
      BY <3>2
    <3>9. ToSet(<<i>>) = {i}
      BY <3>8 DEF ToSet
    <3>10. \A j \in Instances : HomeOf[j] = n => (j = i <=> j \in Early)
      BY <3>1 DEF EarlyAt
    <3>11. \A j \in Instances : HomeOf[j] = n => (local[n].transporters[NameOf[j]] = j <=> j = i)
      BY <1>1, <3>6
    <3>12. \A k, j \in 1..Len(transporters[n]) : HomeOf[transporters[n][k]] = n /\ k = j
      BY <3>1, <3>8
    <3> QED BY <3>1, <3>3, <3>4, <3>7, <3>8, <3>9, <3>10, <3>11, <3>12
  <2> QED BY <2>1, <2>2, FirstTransporters
<1>3. local \in [Nodes -> Snapshots]
  <2>1. local = [n \in Nodes |-> local[n]]
    BY DEF BusInit
  <2> QED BY <1>2, <2>1
<1>4. BusTypes
  <2>1. transporters \in [Nodes -> Seq(Instances)]
    <3>1. transporters = [n \in Nodes |-> transporters[n]]
      BY DEF BusInit
    <3> QED BY <1>2, <3>1
  <2> QED BY <2>1 DEF BusInit, BusTypes
<1>5. TransportersAreApart
  BY <1>2 DEF TransportersAreApart
<1>6. ReferencesAreExact
  <2> SUFFICES ASSUME NEW n \in Nodes, NEW t \in Topics
               PROVE  references[n][t] = Cardinality(Audience(n, t))
    BY DEF ReferencesAreExact
  <2>1. Audience(n, t) = {}
    BY DEF BusInit, Audience
  <2>2. Cardinality({}) = 0
    BY FS_EmptySet
  <2> QED BY <2>1, <2>2 DEF BusInit
<1>7. TopicsAreAnnounced
  <2>1. \A n \in Nodes : \A t \in Topics : ~(references[n][t] > 0)
    BY DEF BusInit
  <2> QED BY <1>2, <2>1 DEF TopicsAreAnnounced
<1>8. EndpointsAreAnnounced
  <2> SUFFICES ASSUME NEW i \in Instances
               PROVE  local[HomeOf[i]].transporters[NameOf[i]] = i <=> Registered(i) /\ serving[i] # "starting"
    BY DEF EndpointsAreAnnounced
  <2>1. HomeOf[i] \in Nodes
    BY EventBusAssumption
  <2>2. serving[i] # "starting" <=> i \in Early
    BY DEF BusInit
  <2> QED BY <1>2, <2>1, <2>2 DEF Registered
<1> QED BY <1>2, <1>3, <1>4, <1>5, <1>6, <1>7, <1>8 DEF BusInv

LEMMA DiscoveryStarts ==
    ASSUME DiscoveryInit, local \in [Nodes -> Snapshots], \A x \in Nodes : Own(x, local[x])
    PROVE  DiscoveryInv
<1>1. PICK others : others = [n \in Nodes |-> [i \in AtStart \ {n} |-> local[i]]]
  OBVIOUS
<1>2. \A n \in Nodes : others[n] = [i \in AtStart \ {n} |-> local[i]]
  BY <1>1
<1>3. /\ AtStart \subseteq Nodes
      /\ client = [n \in Nodes |-> IF n \in AtStart THEN [phase |-> "open", sockets |-> 1]
                                   ELSE [phase |-> "waiting", sockets |-> 0]]
      /\ directory = [n \in Nodes |-> IF n \in AtStart THEN others[n] ELSE Nothing]
      /\ leftover = [n \in Nodes |-> {}]
      /\ members = directory
      /\ far = [s \in Sockets |-> IF s \in AtStart \X {1} THEN "open" ELSE "unused"]
      /\ up = [s \in Sockets |-> <<>>]
      /\ down = [s \in Sockets |-> <<>>]
      /\ metadata = [n \in AtStart |-> local[n]]
      /\ metrics = Metrics(metadata)
      /\ overlap = {}
  BY <1>2, WsDiscoveryAssumption DEF DiscoveryInit
<1>4. \A n \in Nodes :
         /\ n \in AtStart => client[n] = [phase |-> "open", sockets |-> 1]
         /\ n \notin AtStart => client[n] = [phase |-> "waiting", sockets |-> 0]
  BY <1>3
<1>5. \A n \in Nodes : client[n].phase \in {"connecting", "open"} =>
         n \in AtStart /\ Current(n) = <<n, 1>> /\ Current(n) \in Sockets
  <2> SUFFICES ASSUME NEW n \in Nodes, client[n].phase \in {"connecting", "open"}
               PROVE  n \in AtStart /\ Current(n) = <<n, 1>> /\ Current(n) \in Sockets
    OBVIOUS
  <2>1. n \in AtStart
    BY <1>4
  <2>2. Current(n) = <<n, 1>>
    BY <1>4, <2>1 DEF Current
  <2>3. 1 \in 1..MaxSockets[n]
    BY <2>1, WsDiscoveryAssumption
  <2> QED BY <2>1, <2>2, <2>3, SocketMade
<1>6. <<>> \in Seq(Snapshots) /\ <<>> \in Seq(Frames) /\ Len(<<>>) = 0 /\ 1..0 = {}
  OBVIOUS
<1>7. \A s \in Sockets : up[s] = <<>> /\ down[s] = <<>>
  BY <1>3
<1>8. \A n \in Nodes : /\ members[n] = directory[n]
                       /\ HeardOf(n) = DOMAIN directory[n] /\ DOMAIN directory[n] \subseteq AtStart
                       /\ \A x \in DOMAIN directory[n] : directory[n][x] = local[x]
                       /\ n \in AtStart => DOMAIN directory[n] = AtStart \ {n}
                       /\ n \notin AtStart => DOMAIN directory[n] = {}
  BY <1>2, <1>3 DEF Nothing, HeardOf
<1>9. DOMAIN metadata = AtStart /\ \A x \in AtStart : metadata[x] = local[x]
  BY <1>3
<1>10. DiscoveryTypes
  <2>1. client \in [Nodes -> [phase : {"waiting", "connecting", "open", "closed", "stalled"},
                              sockets : Nat]]
    BY <1>3
  <2>2. far \in [Sockets -> {"unused", "open", "closed"}]
    BY <1>3
  <2>3. up \in [Sockets -> Seq(Snapshots)] /\ down \in [Sockets -> Seq(Frames)]
    BY <1>3, <1>6
  <2>4. DOMAIN directory = Nodes /\ DOMAIN leftover = Nodes /\ DOMAIN members = Nodes
    BY <1>3
  <2>5. \A n \in Nodes : DOMAIN members[n] \subseteq Nodes
    BY <1>3, <1>8
  <2>6. DOMAIN metadata \subseteq Nodes /\ \A x \in DOMAIN metadata : metadata[x] \in Snapshots
    BY <1>3, <1>9
  <2> QED BY <1>5, <2>1, <2>2, <2>3, <2>4, <2>5, <2>6 DEF DiscoveryTypes
<1>11. \A x \in Nodes : local[x] \in Snapshots /\ Genuine(x, local[x])
  <2>1. \A x \in Nodes : local[x].version \in Nat
    BY DEF Snapshots
  <2>2. \A x \in Nodes : local[x].version <= local[x].version
    BY <2>1
  <2> QED BY <2>2 DEF Genuine
<1>12. SnapshotsAreGenuine
  <2>1. \A x \in DOMAIN metadata : Genuine(x, metadata[x])
    BY <1>3, <1>9, <1>11
  <2>2. \A n \in Nodes : \A x \in DOMAIN members[n] :
           members[n][x] \in Snapshots /\ Genuine(x, members[n][x])
    BY <1>3, <1>8, <1>11
  <2>3. \A s \in Sockets : 1..Len(up[s]) = {} /\ 1..Len(down[s]) = {}
    BY <1>6, <1>7
  <2> QED BY <2>1, <2>2, <2>3 DEF SnapshotsAreGenuine
<1>13. SocketsAreFresh
  <2> SUFFICES ASSUME NEW s \in Sockets, s[2] > client[Owner(s)].sockets
               PROVE  far[s] = "unused"
    BY DEF SocketsAreFresh
  <2>1. ASSUME s \in AtStart \X {1}
        PROVE  FALSE
    <3>1. Owner(s) \in AtStart /\ s[2] = 1
      BY <2>1 DEF Owner
    <3>2. client[Owner(s)].sockets = 1
      BY <1>3, <1>4, <3>1
    <3> QED BY <3>1, <3>2
  <2> QED BY <1>3, <2>1
<1>14. WaitersHeardNobody
  BY <1>4, <1>8 DEF WaitersHeardNobody
<1>15. OneSocketEach
  <2> SUFFICES ASSUME NEW s \in Sockets, NEW t \in Sockets,
                      far[s] = "open", far[t] = "open", Owner(s) = Owner(t)
               PROVE  s = t
    BY DEF OneSocketEach
  <2>1. s \in AtStart \X {1} /\ t \in AtStart \X {1}
    BY <1>3
  <2>2. s = <<s[1], 1>> /\ t = <<t[1], 1>>
    BY <2>1
  <2> QED BY <2>2 DEF Owner
<1>16. ServerLearns
  <2> SUFFICES ASSUME NEW x \in Nodes, Linked(x)
               PROVE  Learns(x)
    BY DEF ServerLearns
  <2>1. x \in AtStart /\ Current(x) \in Sockets
    BY <1>5 DEF Linked
  <2> QED BY <1>7, <1>9, <2>1 DEF Learns
<1>17. ClientsFollow
  <2> SUFFICES ASSUME NEW n \in Nodes, Heeds(n), NEW x \in Nodes \ {n}
               PROVE  Follows(n, x)
    BY DEF ClientsFollow
  <2>1. n \in AtStart /\ Current(n) \in Sockets
    BY <1>5 DEF Heeds
  <2>2. down[Current(n)] = <<>>
    BY <1>7, <2>1
  <2>3. (x \in HeardOf(n) <=> x \in AtStart) /\ (x \in AtStart => x \in DOMAIN directory[n])
    BY <1>8, <2>1
  <2>4. x \in AtStart => x \in DOMAIN members[n] /\ members[n][x] = metadata[x]
    BY <1>8, <1>9, <2>3
  <2>5. PICK q : q = <<>> /\ 1..Len(q) = {}
    BY <1>6
  <2>6. Tells(q, x, HeardOf(n), members[n], metadata)
    BY <1>9, <2>3, <2>4, <2>5 DEF Tells
  <2> QED BY <2>2, <2>5, <2>6 DEF Follows
<1> QED BY <1>3, <1>10, <1>12, <1>13, <1>14, <1>15, <1>16, <1>17 DEF DiscoveryInv, MetricsAreExact

LEMMA PubsubStarts ==
    ASSUME PubsubInit
    PROVE  PubsubInv
<1>1. /\ posts = [m \in Messages |-> [i \in Instances |-> [x \in Nodes |-> NoPost]]]
      /\ sender = [m \in Messages |-> Unsent]
      /\ heard = [m \in Messages |-> [l \in Links |-> 0]]
      /\ owed = [m \in Messages |-> {}]
  BY DEF PubsubInit
<1>2. NoPost \in [phase : PostPhases]
  BY DEF NoPost, PostPhases
<1>3. \A i \in Instances : \A x \in Nodes :
         \/ sessions[i][x] = NoSession
         \/ \E j \in EarlyAt(x) : sessions[i][x] = [phase |-> "open", to |-> j]
  <2> SUFFICES ASSUME NEW i \in Instances, NEW x \in Nodes, ~(sessions[i][x] = NoSession)
               PROVE  \E j \in EarlyAt(x) : sessions[i][x] = [phase |-> "open", to |-> j]
    OBVIOUS
  <2>1. sessions[i][x] = IF \E j \in EarlyAt(x) : <<i, j>> \in Kept
                         THEN [phase |-> "open", to |-> CHOOSE j \in EarlyAt(x) : TRUE]
                         ELSE NoSession
    BY DEF PubsubInit
  <2>2. \E j \in EarlyAt(x) : TRUE
    BY <2>1
  <2>3. (CHOOSE j \in EarlyAt(x) : TRUE) \in EarlyAt(x)
    BY <2>2
  <2> QED BY <2>1, <2>3
<1>4. \A x \in Nodes : \A j \in EarlyAt(x) : j \in Instances /\ HomeOf[j] = x
  BY EventBusAssumption DEF EarlyAt
<1>5. sessions \in [Instances -> [Nodes -> Session \cup {NoSession}]]
  <2>1. \A x \in Nodes : \A j \in EarlyAt(x) : [phase |-> "open", to |-> j] \in Session
    BY <1>4 DEF Session
  <2>2. \A i \in Instances : \A x \in Nodes : sessions[i][x] \in Session \cup {NoSession}
    BY <1>3, <2>1
  <2>3. sessions = [i \in Instances |-> [x \in Nodes |-> sessions[i][x]]]
    BY DEF PubsubInit
  <2> QED BY <2>2, <2>3
<1>6. PubsubTypes
  BY <1>1, <1>2, <1>5 DEF PubsubTypes
<1>7. SessionsLeadHome
  <2>1. \A i \in Instances : \A x \in Nodes : sessions[i][x] # NoSession => HomeOf[sessions[i][x].to] = x
    <3> SUFFICES ASSUME NEW i \in Instances, NEW x \in Nodes, sessions[i][x] # NoSession
                 PROVE  HomeOf[sessions[i][x].to] = x
      OBVIOUS
    <3>1. PICK j \in EarlyAt(x) : sessions[i][x] = [phase |-> "open", to |-> j]
      BY <1>3
    <3>2. sessions[i][x].to = j
      BY <3>1
    <3> QED BY <1>4, <3>1, <3>2
  <2>2. \A m \in Messages : \A i \in Instances : \A x \in Nodes : posts[m][i][x].phase = "none"
    BY <1>1 DEF NoPost
  <2> QED BY <2>1, <2>2 DEF SessionsLeadHome
<1>8. NothingBeforeSending /\ OwedAreServed /\ PostedOnce
  BY <1>1 DEF NothingBeforeSending, OwedAreServed, PostedOnce
<1> QED BY <1>6, <1>7, <1>8 DEF PubsubInv

-----------------------------------------------------------------------------
(* The invariant holds.                                                    *)

LEMMA EventStarts ==
    ASSUME Init
    PROVE  EventInv
<1>1. BusInv /\ local \in [Nodes -> Snapshots] /\ \A x \in Nodes : Own(x, local[x])
  BY BusStarts DEF Init
<1>2. DiscoveryInv
  BY <1>1, DiscoveryStarts DEF Init
<1>3. PubsubInv
  BY PubsubStarts DEF Init
<1> QED BY <1>1, <1>2, <1>3 DEF EventInv

\* Discovery and publishing leave the snapshots to the processes.
LEMMA LocalIsTheirs == DiscoveryStep => UNCHANGED local
  BY DEF DiscoveryStep, Connect, Opened, Refused, Lost, CloseClient, FrameRead, Accept, HelloRead,
     ServerLoses, Crash, Restart, OnlyClient, OnlyServer

LEMMA PubsubStepKeeps ==
    ASSUME EventInv, PubsubStep, UNCHANGED <<transporters, listeners>>
    PROVE  PubsubInv'
<1>1. DiscoveryInv /\ BusInv /\ PubsubInv
  BY DEF EventInv
<1>2. \A l \in Publishers : l \in Links
  BY Http2PubsubAssumption
<1>3. CASE \E l \in Publishers, m \in Messages : Publish(l, m)
  BY <1>1, <1>2, <1>3, PublishKeeps
<1>4. CASE \E i \in Instances, x \in Nodes :
             \/ SessionOpens(i, x)
             \/ \E m \in Messages : PostArrives(m, i, x) \/ Answered(m, i, x)
             \/ \E outcome \in {"failed", "ended", "closed"} : SessionEnds(i, x, outcome)
  <2>1. PICK i \in Instances, x \in Nodes :
             \/ SessionOpens(i, x)
             \/ \E m \in Messages : PostArrives(m, i, x) \/ Answered(m, i, x)
             \/ \E outcome \in {"failed", "ended", "closed"} : SessionEnds(i, x, outcome)
    BY <1>4
  <2>2. CASE SessionOpens(i, x)
    BY <1>1, <2>2, SessionOpensKeeps
  <2>3. CASE \E m \in Messages : PostArrives(m, i, x)
    BY <1>1, <2>3, PostArrivesKeeps
  <2>4. CASE \E m \in Messages : Answered(m, i, x)
    BY <1>1, <2>4, AnsweredKeeps
  <2>5. CASE \E outcome \in {"failed", "ended", "closed"} : SessionEnds(i, x, outcome)
    BY <1>1, <2>5, SessionEndsKeeps
  <2> QED BY <2>1, <2>2, <2>3, <2>4, <2>5
<1> QED BY <1>3, <1>4 DEF PubsubStep

LEMMA EventKeeps ==
    ASSUME EventInv, [Next]_vars
    PROVE  EventInv'
<1>1. DiscoveryInv /\ BusInv /\ PubsubInv
  BY DEF EventInv
<1>2. CASE DiscoveryStep /\ OnlyDiscovery
  <2>1. UNCHANGED <<local, transporters, references, listeners, serving, pubsubVars>>
    BY <1>2, LocalIsTheirs DEF OnlyDiscovery, busVars
  <2>2. DiscoveryInv'
    BY <1>1, <1>2, DiscoveryStepKeeps
  <2>3. BusInv'
    BY <1>1, <2>1, BusStutters
  <2>4. PubsubInv'
    BY <1>1, <2>1, PubsubStutters
  <2> QED BY <2>2, <2>3, <2>4 DEF EventInv
<1>3. CASE LocalStep /\ UNCHANGED <<busVars, serving, pubsubVars>>
  <2>1. UNCHANGED <<transporters, references, listeners, serving, pubsubVars>>
    BY <1>3 DEF busVars
  <2>2. DiscoveryInv' /\ BusInv'
    BY <1>1, <1>3, <2>1, LocalStepKeeps
  <2>3. PubsubInv'
    BY <1>1, <2>1, PubsubStutters
  <2> QED BY <2>2, <2>3 DEF EventInv
<1>4. CASE BusStep /\ StillOwed /\ UNCHANGED <<sessions, posts, sender, heard>>
  <2>1. DiscoveryInv' /\ BusInv'
    BY <1>1, <1>4, BusStepKeeps
  <2>2. PubsubInv'
    BY <1>1, <1>4, BusKeepsPubsub
  <2> QED BY <2>1, <2>2 DEF EventInv
<1>5. CASE PubsubStep /\ UNCHANGED <<local, rpc, discoveryVars, busVars, serving>>
  <2>1. UNCHANGED <<local, discoveryVars, transporters, references, listeners, serving>>
    BY <1>5 DEF busVars
  <2>2. DiscoveryInv'
    BY <1>1, <2>1, DiscoveryStutters DEF discoveryVars, clientVars, serverVars
  <2>3. BusInv'
    BY <1>1, <2>1, BusStutters
  <2>4. PubsubInv'
    BY <1>5, <2>1, PubsubStepKeeps
  <2> QED BY <2>2, <2>3, <2>4 DEF EventInv
<1>6. CASE (\E i \in Instances : ClosePubsub(i)) /\ UNCHANGED <<local, rpc, discoveryVars, busVars>>
  <2>1. UNCHANGED <<local, discoveryVars, transporters, references, listeners>>
    BY <1>6 DEF busVars
  <2>2. DiscoveryInv'
    BY <1>1, <2>1, DiscoveryStutters DEF discoveryVars, clientVars, serverVars
  <2>3. BusInv'
    BY <1>1, <1>6, <2>1, CloseKeepsBus
  <2>4. PubsubInv'
    BY <1>1, <1>6, <2>1, ClosePubsubKeeps
  <2> QED BY <2>2, <2>3, <2>4 DEF EventInv
<1>7. CASE UNCHANGED vars
  <2>1. UNCHANGED <<local, discoveryVars, transporters, references, listeners, serving, pubsubVars>>
    BY <1>7 DEF vars, busVars
  <2>2. DiscoveryInv'
    BY <1>1, <2>1, DiscoveryStutters DEF discoveryVars, clientVars, serverVars
  <2>3. BusInv'
    BY <1>1, <2>1, BusStutters
  <2>4. PubsubInv'
    BY <1>1, <2>1, PubsubStutters
  <2> QED BY <2>2, <2>3, <2>4 DEF EventInv
<1> QED BY <1>2, <1>3, <1>4, <1>5, <1>6, <1>7 DEF Next

LEMMA Safety == Spec => []EventInv
  BY EventStarts, EventKeeps, PTL DEF Spec

-----------------------------------------------------------------------------
(* What a process has that has read everything.                            *)

\* The client knows whom the server knows; of these its Topology has the snapshot the
\* server has, or a newer one of the same node.
LEMMA ToldKnows ==
    ASSUME DiscoveryInv, NEW n \in Nodes, NEW x \in Nodes \ {n}, Told(n)
    PROVE  /\ x \in HeardOf(n) <=> x \in DOMAIN metadata
           /\ x \in DOMAIN metadata =>
                /\ x \in DOMAIN members[n]
                /\ members[n][x] = metadata[x] \/ members[n][x].version > metadata[x].version
<1>1. Heeds(n) /\ down[Current(n)] = <<>>
  BY DEF Told, Linked, Heeds
<1>2. Tells(down[Current(n)], x, HeardOf(n), members[n], metadata)
  BY <1>1 DEF DiscoveryInv, ClientsFollow, Follows, HeardOf
<1>3. Silent(down[Current(n)], x)
  <2>1. PICK q : q = <<>> /\ 1..Len(q) = {}
    OBVIOUS
  <2>2. Silent(q, x)
    BY <2>1 DEF Silent
  <2> QED BY <1>1, <2>1, <2>2
<1> QED BY <1>2, <1>3 DEF Tells

LEMMA InvVerify ==
    ASSUME EventInv
    PROVE  VerifyTellsTheTruth
<1> SUFFICES ASSUME NEW n \in Nodes, NEW x \in Nodes \ {n}, Told(n)
             PROVE  /\ Reported(x) /\ x \notin overlap => Verify(n, x) = "alive"
                    /\ x \in DOMAIN metrics => Verify(n, x) = "alive"
                    /\ x \notin DOMAIN metrics /\ x \notin leftover[n] => Verify(n, x) = "dead"
  BY DEF VerifyTellsTheTruth
<1>1. x \in HeardOf(n) <=> x \in DOMAIN metadata
  BY ToldKnows DEF EventInv
<1>2. DOMAIN metrics = DOMAIN metadata
  BY DEF EventInv, DiscoveryInv, MetricsAreExact, Metrics
<1>3. client[n].phase = "open"
  BY DEF Told, Linked
<1>4. Reported(x) /\ x \notin overlap => x \in DOMAIN metadata
  BY DEF EventInv, DiscoveryInv, ServerLearns, Learns, Reported
<1> QED BY <1>1, <1>2, <1>3, <1>4 DEF Verify, HeardOf

LEMMA InvListeners ==
    ASSUME EventInv
    PROVE  PublishersKnowListeners
<1> SUFFICES ASSUME NEW n \in Nodes, NEW x \in Nodes \ {n}, Told(n), Reported(x), x \notin overlap
             PROVE  /\ x \in DOMAIN members[n]
                    /\ members[n][x] = local[x]
                    /\ local[x].topics =
                         {TopicOf[l] : l \in {k \in Links : HostOf[k] = x /\ listeners[k] > 0}}
                    /\ \A i \in Instances : HomeOf[i] = x =>
                         (local[x].transporters[NameOf[i]] = i <=> Registered(i) /\ serving[i] # "starting")
  BY DEF PublishersKnowListeners
<1>1. DiscoveryInv /\ BusInv
  BY DEF EventInv
<1>2. x \in DOMAIN metadata /\ metadata[x] = local[x]
  BY <1>1 DEF DiscoveryInv, ServerLearns, Learns, Reported
<1>3. x \in DOMAIN members[n]
      /\ (members[n][x] = local[x] \/ members[n][x].version > local[x].version)
  BY <1>1, <1>2, ToldKnows
<1>4. members[n][x] = local[x]
  <2>1. members[n][x] \in Snapshots /\ members[n][x].version <= local[x].version
    BY <1>1, <1>3 DEF DiscoveryInv, SnapshotsAreGenuine, Genuine
  <2>2. local[x] \in Snapshots
    BY <1>1 DEF DiscoveryInv, DiscoveryTypes
  <2>3. PICK a \in Nat : a = members[n][x].version
    BY <2>1 DEF Snapshots
  <2>4. PICK b \in Nat : b = local[x].version
    BY <2>2 DEF Snapshots
  <2>5. a <= b
    BY <2>1, <2>3, <2>4
  <2>6. ~(a > b)
    BY <2>5
  <2> QED BY <1>3, <2>3, <2>4, <2>6
<1>5. local[x].topics = {TopicOf[l] : l \in {k \in Links : HostOf[k] = x /\ listeners[k] > 0}}
  <2>1. local[x].topics = {t \in Topics : references[x][t] > 0}
    BY <1>1 DEF BusInv, TopicsAreAnnounced
  <2>2. ASSUME NEW t \in Topics
        PROVE  references[x][t] > 0 <=> Audience(x, t) # {}
    <3>1. PICK audience : audience = Audience(x, t)
      OBVIOUS
    <3>2. IsFiniteSet(audience) /\ Cardinality(audience) \in Nat
      BY <3>1, AudienceFinite
    <3>3. Cardinality(audience) = 0 <=> audience = {}
      BY <3>2, FS_EmptySet
    <3>4. references[x][t] = Cardinality(audience)
      BY <1>1, <3>1 DEF BusInv, ReferencesAreExact
    <3>5. PICK size \in Nat : size = Cardinality(audience)
      BY <3>2
    <3>6. size > 0 <=> size # 0
      OBVIOUS
    <3> QED BY <3>1, <3>3, <3>4, <3>5, <3>6
  <2>3. \A t \in Topics : Audience(x, t) # {} <=>
           \E l \in Links : HostOf[l] = x /\ listeners[l] > 0 /\ TopicOf[l] = t
    BY DEF Audience
  <2>4. \A l \in Links : TopicOf[l] \in Topics
    BY LinkParts
  <2> QED BY <2>1, <2>2, <2>3, <2>4
<1>6. \A i \in Instances : HomeOf[i] = x =>
         (local[x].transporters[NameOf[i]] = i <=> Registered(i) /\ serving[i] # "starting")
  BY <1>1 DEF BusInv, EndpointsAreAnnounced
<1> QED BY <1>3, <1>4, <1>5, <1>6

LEMMA InvDelivered ==
    ASSUME EventInv
    PROVE  ResolvedMeansDelivered
<1> SUFFICES ASSUME NEW m \in Messages, sender[m] # Unsent
             PROVE  /\ Outcome(m) = "resolved" /\ "ended" \notin Phases(m) =>
                         \A l \in owed[m] : heard[m][l] > 0
                    /\ RequestedBy[sender[m].by] # "fanout" => \A l \in Links : heard[m][l] <= 1
  BY DEF ResolvedMeansDelivered
<1>1. PubsubInv
  BY DEF EventInv
<1>2. ASSUME Outcome(m) = "resolved", "ended" \notin Phases(m), NEW l \in owed[m]
      PROVE  heard[m][l] > 0
  <2>1. Phases(m) \subseteq {"done"}
    BY <1>2 DEF Outcome
  <2>2. PICK i \in Instances, x \in Nodes : Serves(m, i, x, l)
    BY <1>1 DEF PubsubInv, OwedAreServed
  <2>3. posts[m][i][x].phase \in Phases(m)
    BY <2>2 DEF Serves, Phases
  <2>4. posts[m][i][x].phase = "done"
    BY <2>1, <2>3
  <2> QED BY <2>2, <2>4 DEF Serves
<1>3. RequestedBy[sender[m].by] # "fanout" => \A l \in Links : heard[m][l] <= 1
  BY <1>1 DEF PubsubInv, PostedOnce
<1> QED BY <1>2, <1>3

-----------------------------------------------------------------------------
(* The theorems.                                                           *)

\* A client that has read everything calls alive whoever the server has in its metrics,
\* among them each process that has reported and never had two sockets there; and it calls
\* dead whoever is not, but for the nodes that an error of its socket left in #nodes and of
\* which nothing came since (WebsocketDiscoveryClient.ts:103-107, 130-138, 199-204,
\* WebsocketDiscoveryServer.ts:147-171).
THEOREM VerdictsAreTheServers == Spec => []VerifyTellsTheTruth
<1>1. EventInv => VerifyTellsTheTruth
  BY InvVerify
<1> QED BY <1>1, Safety, PTL

\* Whoever has read everything knows of each process that has reported everything, and of
\* which the server never had two sockets, its last snapshot: the topics that have
\* listeners there, neither more nor fewer, and where its transporters listen
\* (EventBus.ts #acquireTopic and #releaseTopic, WebsocketDiscoveryServer.ts:100-128).
THEOREM ListenersAreKnown == Spec => []PublishersKnowListeners
<1>1. EventInv => PublishersKnowListeners
  BY InvListeners
<1> QED BY <1>1, Safety, PTL

\* An event whose publish() resolved has reached every link that listened, and still does,
\* at the other end of the sessions it was posted over, unless a session ended without an
\* error, and reached none twice unless it was fanned out (Http2Pubsub.ts:70-107).
THEOREM DeliveredWhenResolved == Spec => []ResolvedMeansDelivered
<1>1. EventInv => ResolvedMeansDelivered
  BY InvDelivered
<1> QED BY <1>1, Safety, PTL

=============================================================================
