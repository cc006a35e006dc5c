---------------------------- MODULE WsMeshProofs ----------------------------
(***************************************************************************)
(* What holds of the nodes and relays of packages/ws for every value of    *)
(* the constants.  The relay's maps are updated frame by frame: that they  *)
(* agree is an invariant of the sockets registered for the nodes, of the   *)
(* index of services and of the requests in flight together.               *)
(***************************************************************************)
EXTENDS WsMesh, TLAPS, FiniteSetTheorems, SequenceTheorems

-----------------------------------------------------------------------------
(* Sockets and frames.                                                     *)

LEMMA SocketParts ==
    ASSUME NEW s \in Sockets
    PROVE  Owner(s) \in Nodes /\ RelayOf(s) \in Relays /\ s # NoSocket
<1>1. PICK n \in Nodes : s \in {n} \X Relays \X (1..MaxSockets[n])
  BY DEF Sockets
<1>2. s[1] = n /\ s[2] \in Relays
  BY <1>1
<1> QED BY <1>1, <1>2, WsLinkAssumption DEF Owner, RelayOf

LEMMA FrameTypes ==
    /\ \A n \in Nodes, services \in SUBSET Services : Hello(n, services) \in Frames
    /\ \A n \in Nodes : Offline(n) \in Frames
    /\ \A r \in Requests, v \in Services, d \in Nodes \cup {NoNode} : Request(r, v, d) \in Frames
    /\ \A r \in Requests, n \in Nodes \cup {NoNode}, d \in Nodes \cup {NoNode}, end \in Ends :
          Response(r, n, d, end) \in Frames
    /\ \A r \in Requests : Cancel(r) \in Frames
    /\ \A topics \in SUBSET Topics : Subscribe(topics) \in Frames
    /\ \A t \in Topics : Unsubscribe(t) \in Frames /\ Publish(t) \in Frames
<1>1. \A n \in Nodes, services \in SUBSET Services : Hello(n, services) \in Frames
  BY DEF Hello, Frames
<1>2. \A n \in Nodes : Offline(n) \in Frames
  BY DEF Offline, Frames
<1>3. \A r \in Requests, v \in Services, d \in Nodes \cup {NoNode} : Request(r, v, d) \in Frames
  BY DEF Request, Frames
<1>4. \A r \in Requests, n \in Nodes \cup {NoNode}, d \in Nodes \cup {NoNode}, end \in Ends :
         Response(r, n, d, end) \in Frames
  BY DEF Response, Frames
<1>5. \A r \in Requests : Cancel(r) \in Frames
  BY DEF Cancel, Frames
<1>6. \A topics \in SUBSET Topics : Subscribe(topics) \in Frames
  BY DEF Subscribe, Frames
<1>7. \A t \in Topics : Unsubscribe(t) \in Frames /\ Publish(t) \in Frames
  BY DEF Unsubscribe, Publish, Frames
<1> QED BY <1>1, <1>2, <1>3, <1>4, <1>5, <1>6, <1>7

LEMMA FrameParts ==
    ASSUME NEW f \in Frames
    PROVE  /\ f.type = "hello" => f.node \in Nodes /\ f.services \in SUBSET Services
           /\ f.type = "offline" => f.node \in Nodes
           /\ f.type = "request" => /\ f.request \in Requests /\ f.service \in Services
                                    /\ f.destination \in Nodes \cup {NoNode}
           /\ f.type = "response" => /\ f.request \in Requests /\ f.end \in Ends
                                     /\ f.sender \in Nodes \cup {NoNode}
                                     /\ f.destination \in Nodes \cup {NoNode}
           /\ f.type = "cancel" => f.request \in Requests
           /\ f.type = "subscribe" => f.topics \in SUBSET Topics
           /\ f.type = "unsubscribe" => f.topic \in Topics
           /\ f.type = "publish" => f.topic \in Topics
  BY DEF Frames

\* A sequence that lists a finite set.
LEMMA SetToSeqType ==
    ASSUME NEW S, IsFiniteSet(S)
    PROVE  SetToSeq(S) \in Seq(S)
<1>1. Cardinality(S) \in Nat /\ ExistsBijection(1..Cardinality(S), S)
  BY FS_CardinalityType
<1>2. \E f \in [1..Cardinality(S) -> S] : IsInjective(f)
  BY <1>1 DEF ExistsBijection, Bijection, Injection
<1>3. SetToSeq(S) \in [1..Cardinality(S) -> S]
  BY <1>2 DEF SetToSeq
<1> QED BY <1>1, <1>3

-----------------------------------------------------------------------------
(* The index of services.                                                  *)

Has(set, n) == \E j \in DOMAIN set : set[j] = n

\* The sequence has the members of the set.
LEMMA SetToSeqLists ==
    ASSUME NEW S, IsFiniteSet(S)
    PROVE  \A f : Has(SetToSeq(S), f) <=> f \in S
<1>1. PICK c : c = Cardinality(S)
  OBVIOUS
<1>2. c \in Nat /\ ExistsBijection(1..c, S)
  BY <1>1, FS_CardinalityType
<1>3. \E list \in [1..c -> S] : IsInjective(list)
  BY <1>2 DEF ExistsBijection, Bijection, Injection
<1>4. PICK list : list = SetToSeq(S)
  OBVIOUS
<1>5. list \in [1..c -> S] /\ IsInjective(list)
  BY <1>1, <1>3, <1>4 DEF SetToSeq
<1>6. list \in Injection(1..c, S)
  BY <1>5 DEF Injection
<1>7. Cardinality(1..c) = c
  <2>1. 0 \in Int /\ 1 \in Int /\ c \in Int
    BY <1>2
  <2>2. Cardinality(1..c) = IF 1 > c THEN 0 ELSE c - 1 + 1
    BY <2>1, FS_Interval
  <2> QED BY <1>2, <2>2
<1>8. list \in Surjection(1..c, S)
  BY <1>1, <1>6, <1>7, FS_Injection
<1>9. \A f \in S : \E j \in 1..c : list[j] = f
  BY <1>8 DEF Surjection
<1> QED BY <1>4, <1>5, <1>9 DEF Has

\* A Set stays a Set, and loses the one node.
LEMMA WithoutSound ==
    ASSUME NEW set \in Seq(Nodes), IsInjective(set), NEW n
    PROVE  /\ Without(set, n) \in Seq(Nodes) /\ IsInjective(Without(set, n))
           /\ \A x : Has(Without(set, n), x) <=> Has(set, x) /\ x # n
<1>1. PICK m \in Nat : m = Len(set) /\ DOMAIN set = 1..m /\ \A j \in 1..m : set[j] \in Nodes
  OBVIOUS
<1>2. CASE ~Has(set, n)
  BY <1>2 DEF Without, Has
<1>3. CASE Has(set, n)
  <2>1. PICK at : at = CHOOSE j \in DOMAIN set : set[j] = n
    OBVIOUS
  <2>2. at \in 1..m /\ set[at] = n /\ m - 1 \in Nat
    BY <1>1, <1>3, <2>1 DEF Has
  <2>3. PICK rest : rest = [j \in 1..(m - 1) |-> IF j < at THEN set[j] ELSE set[j + 1]]
    OBVIOUS
  <2>4. Without(set, n) = rest
    BY <1>1, <1>3, <2>1, <2>3 DEF Without, Has
  <2>5. /\ DOMAIN rest = 1..(m - 1)
        /\ \A j \in 1..(m - 1) : rest[j] = IF j < at THEN set[j] ELSE set[j + 1]
    BY <2>3
  <2>6. \A j \in 1..(m - 1) : j \in 1..m /\ j + 1 \in 1..m
    BY <2>2
  <2>7. rest \in Seq(Nodes)
    <3>1. \A j \in 1..(m - 1) : rest[j] \in Nodes
      BY <1>1, <2>5, <2>6
    <3>2. rest \in [1..(m - 1) -> Nodes]
      BY <2>3, <2>5, <3>1
    <3> QED BY <2>2, <3>2
  <2>8. \A i, j \in 1..m : set[i] = set[j] => i = j
    BY <1>1 DEF IsInjective
  <2>9. IsInjective(rest)
    <3> SUFFICES ASSUME NEW i \in 1..(m - 1), NEW j \in 1..(m - 1), rest[i] = rest[j] PROVE i = j
      BY <2>5 DEF IsInjective
    <3>1. CASE i < at /\ j < at
      BY <2>5, <2>6, <2>8, <3>1
    <3>2. CASE ~(i < at) /\ ~(j < at)
      <4>1. i + 1 = j + 1
        BY <2>5, <2>6, <2>8, <3>2
      <4> QED BY <4>1
    <3>3. CASE i < at /\ ~(j < at)
      <4>1. i = j + 1
        BY <2>5, <2>6, <2>8, <3>3
      <4> QED BY <2>2, <3>3, <4>1
    <3>4. CASE ~(i < at) /\ j < at
      <4>1. i + 1 = j
        BY <2>5, <2>6, <2>8, <3>4
      <4> QED BY <2>2, <3>4, <4>1
    <3> QED BY <3>1, <3>2, <3>3, <3>4
  <2>10. ASSUME NEW x, Has(rest, x) PROVE Has(set, x) /\ x # n
    <3>1. PICK j \in 1..(m - 1) : rest[j] = x
      BY <2>5, <2>10 DEF Has
    <3>2. CASE j < at
      <4>1. j \in 1..m /\ set[j] = x /\ j # at
        BY <2>2, <2>5, <2>6, <3>1, <3>2
      <4> QED BY <1>1, <2>2, <2>8, <4>1 DEF Has
    <3>3. CASE ~(j < at)
      <4>1. j + 1 \in 1..m /\ set[j + 1] = x /\ j + 1 # at
        BY <2>2, <2>5, <2>6, <3>1, <3>3
      <4> QED BY <1>1, <2>2, <2>8, <4>1 DEF Has
    <3> QED BY <3>2, <3>3
  <2>11. ASSUME NEW x, Has(set, x), x # n PROVE Has(rest, x)
    <3>1. PICK j \in 1..m : set[j] = x
      BY <1>1, <2>11 DEF Has
    <3>2. CASE j < at
      <4>1. j \in 1..(m - 1) /\ rest[j] = x
        BY <2>2, <2>5, <3>1, <3>2
      <4> QED BY <2>5, <4>1 DEF Has
    <3>3. CASE ~(j < at)
      <4>1. j # at
        BY <2>2, <2>11, <3>1
      <4>2. PICK i \in 1..(m - 1) : i = j - 1 /\ ~(i < at) /\ i + 1 = j
        BY <2>2, <3>3, <4>1
      <4>3. rest[i] = x
        BY <2>5, <3>1, <4>2
      <4> QED BY <2>5, <4>3 DEF Has
    <3> QED BY <3>2, <3>3
  <2> QED BY <2>4, <2>7, <2>9, <2>10, <2>11
<1> QED BY <1>2, <1>3

\* A Set gets a node at its end.
LEMMA AddedSound ==
    ASSUME NEW set \in Seq(Nodes), IsInjective(set), NEW n \in Nodes, ~Has(set, n)
    PROVE  /\ Append(set, n) \in Seq(Nodes) /\ IsInjective(Append(set, n))
           /\ \A x : Has(Append(set, n), x) <=> Has(set, x) \/ x = n
<1>1. PICK m \in Nat : m = Len(set) /\ DOMAIN set = 1..m
  OBVIOUS
<1>2. PICK longer \in Seq(Nodes) : longer = Append(set, n)
  BY AppendProperties
<1>3. /\ DOMAIN longer = 1..(m + 1) /\ longer[m + 1] = n
      /\ \A j \in 1..m : longer[j] = set[j]
  BY <1>1, <1>2, AppendProperties
<1>4. \A j \in 1..(m + 1) : j \in 1..m \/ j = m + 1
  OBVIOUS
<1>5. IsInjective(longer)
  <2>1. \A i, j \in 1..m : set[i] = set[j] => i = j
    BY <1>1 DEF IsInjective
  <2>2. \A j \in 1..m : set[j] # n
    BY <1>1 DEF Has
  <2> QED BY <1>3, <1>4, <2>1, <2>2 DEF IsInjective
<1>6. \A x : Has(longer, x) <=> Has(set, x) \/ x = n
  <2>1. m + 1 \in 1..(m + 1) /\ \A j \in 1..m : j \in 1..(m + 1)
    OBVIOUS
  <2> QED BY <1>1, <1>3, <1>4, <2>1 DEF Has
<1> QED BY <1>2, <1>5, <1>6

-----------------------------------------------------------------------------
(* Picking from a set of numbers.                                          *)

Below(S, j) == {i \in S : i < j}

\* A finite set of numbers has a member with any number of smaller ones.
LEMMA RankExists ==
    ASSUME NEW S \in SUBSET Nat, IsFiniteSet(S), NEW q \in Nat, q < Cardinality(S)
    PROVE  \E j \in S : Cardinality(Below(S, j)) = q
<1>1. PICK c \in Nat : c = Cardinality(S)
  BY FS_CardinalityType
<1>2. ASSUME NEW j \in S
      PROVE  IsFiniteSet(Below(S, j)) /\ Cardinality(Below(S, j)) \in 0..(c - 1)
  <2>1. IsFiniteSet(S \ {j}) /\ Cardinality(S \ {j}) = c - 1
    BY <1>1, FS_RemoveElement
  <2>2. Below(S, j) \in SUBSET (S \ {j})
    BY DEF Below
  <2>3. /\ IsFiniteSet(Below(S, j))
        /\ Cardinality(Below(S, j)) <= Cardinality(S \ {j})
    BY <2>1, <2>2, FS_Subset
  <2>4. Cardinality(Below(S, j)) \in Nat
    BY <2>3, FS_CardinalityType
  <2> QED BY <2>1, <2>3, <2>4
<1>3. ASSUME NEW i \in S, NEW j \in S, i < j
      PROVE  Cardinality(Below(S, i)) # Cardinality(Below(S, j))
  <2>1. Below(S, i) \in SUBSET Below(S, j)
    <3>1. i \in Nat /\ j \in Nat /\ \A x \in S : x \in Nat
      OBVIOUS
    <3>2. \A x \in S : x < i => x < j
      BY <1>3, <3>1
    <3> QED BY <3>2 DEF Below
  <2>2. i \in Below(S, j) /\ i \notin Below(S, i)
    BY <1>3 DEF Below
  <2>3. Cardinality(Below(S, j)) = Cardinality(Below(S, i)) => Below(S, j) = Below(S, i)
    BY <1>2, <2>1, FS_Subset
  <2> QED BY <2>2, <2>3
<1>4. PICK rank : rank = [j \in S |-> Cardinality(Below(S, j))]
  OBVIOUS
<1>5. rank \in [S -> 0..(c - 1)] /\ \A j \in S : rank[j] = Cardinality(Below(S, j))
  BY <1>2, <1>4
<1>6. \A i, j \in S : rank[i] = rank[j] => i = j
  <2> SUFFICES ASSUME NEW i \in S, NEW j \in S, rank[i] = rank[j], i # j PROVE FALSE
    OBVIOUS
  <2>1. i < j \/ j < i
    OBVIOUS
  <2> QED BY <1>3, <1>5, <2>1
<1>7. rank \in Injection(S, 0..(c - 1))
  BY <1>5, <1>6 DEF Injection, IsInjective
<1>8. IsFiniteSet(0..(c - 1)) /\ Cardinality(0..(c - 1)) = c
  BY FS_Interval
<1>9. rank \in Surjection(S, 0..(c - 1))
  BY <1>1, <1>7, <1>8, FS_Injection
<1>10. q \in 0..(c - 1)
  BY <1>1
<1> QED BY <1>5, <1>9, <1>10 DEF Surjection

LEMMA LeastExists ==
    ASSUME NEW S \in SUBSET Nat, IsFiniteSet(S), S # {}
    PROVE  Min(S) \in S
<1>1. Cardinality(S) \in Nat /\ Cardinality(S) # 0
  BY FS_CardinalityType, FS_EmptySet
<1>2. PICK j \in S : Cardinality(Below(S, j)) = 0
  BY <1>1, RankExists
<1>3. IsFiniteSet(Below(S, j))
  <2>1. Below(S, j) \in SUBSET S
    BY DEF Below
  <2> QED BY <2>1, FS_Subset
<1>4. Below(S, j) = {}
  BY <1>2, <1>3, FS_EmptySet
<1>5. \A i \in S : j <= i
  BY <1>4 DEF Below
<1> QED BY <1>5 DEF Min

-----------------------------------------------------------------------------
(* Frames that are sent.                                                   *)

Letters == [Sockets -> Seq(Frames)]

LEMMA LettersAreSent ==
    /\ Silence \in Letters
    /\ \A s : \A f \in Frames : To(s, f) \in Letters
    /\ \A first, second \in Letters : Also(first, second) \in Letters
    /\ \A s : \A f \in Frames : Broadcast(f, s) \in Letters
<1>1. <<>> \in Seq(Frames) /\ \A f \in Frames : <<f>> \in Seq(Frames)
  OBVIOUS
<1>2. \A a, b \in Seq(Frames) : a \o b \in Seq(Frames)
  BY ConcatProperties
<1>3. Silence \in Letters
  BY <1>1 DEF Silence, Letters
<1>4. \A s : \A f \in Frames : To(s, f) \in Letters
  BY <1>1 DEF To, Letters
<1>5. \A first, second \in Letters : Also(first, second) \in Letters
  BY <1>2 DEF Also, Letters
<1>6. \A s : \A f \in Frames : Broadcast(f, s) \in Letters
  BY <1>1 DEF Broadcast, Letters
<1> QED BY <1>3, <1>4, <1>5, <1>6

Metadata == [Sockets -> [node : Nodes \cup {NoNode}, services : SUBSET Services]]
Registry == [Relays -> [Nodes -> Sockets \cup {NoSocket}]]

\* The values of a function on a finite set.
LEMMA ImageFinite ==
    ASSUME NEW S, IsFiniteSet(S), NEW f, DOMAIN f = S
    PROVE  IsFiniteSet({f[x] : x \in S})
<1>1. PICK T : T = {f[x] : x \in S}
  OBVIOUS
<1>2. PICK g : g = [x \in S |-> f[x]]
  OBVIOUS
<1>3. g \in [S -> T] /\ \A t \in T : \E x \in S : g[x] = t
  BY <1>1, <1>2
<1>4. g \in Surjection(S, T)
  BY <1>3 DEF Surjection
<1> QED BY <1>1, <1>4, FS_Surjection

LEMMA SubSetToSeqType ==
    ASSUME NEW S, IsFiniteSet(S), NEW T, S \subseteq T
    PROVE  SetToSeq(S) \in Seq(T)
<1>1. SetToSeq(S) \in Seq(S)
  BY SetToSeqType
<1> QED BY <1>1

LEMMA DirectoryType ==
    ASSUME NEW registered \in Registry, NEW metadata \in Metadata, NEW t \in Sockets
    PROVE  Directory(t, registered, metadata) \in Seq(Frames)
<1> DEFINE hello(n) == Hello(n, metadata[registered[RelayOf(t)][n]].services)
<1>1. PICK others : others = {n \in Nodes : registered[RelayOf(t)][n] \notin {NoSocket, t}}
  OBVIOUS
<1>2. PICK S : S = {hello(n) : n \in others}
  OBVIOUS
<1>3. IsFiniteSet(others)
  BY <1>1, WsLinkAssumption, FS_Subset
<1>4. IsFiniteSet(S)
  <2>1. PICK f : f = [n \in others |-> hello(n)]
    OBVIOUS
  <2>2. S = {f[n] : n \in others} /\ DOMAIN f = others
    BY <1>2, <2>1
  <2> QED BY <1>3, <2>2, ImageFinite
<1>5. \A n \in others : hello(n) \in Frames
  <2> SUFFICES ASSUME NEW n \in others PROVE hello(n) \in Frames
    OBVIOUS
  <2>1. n \in Nodes /\ registered[RelayOf(t)][n] \in Sockets
    BY <1>1, SocketParts DEF Registry
  <2>2. metadata[registered[RelayOf(t)][n]].services \in SUBSET Services
    BY <2>1 DEF Metadata
  <2> QED BY <2>1, <2>2, FrameTypes
<1>6. S \subseteq Frames
  BY <1>2, <1>5
<1>7. Directory(t, registered, metadata) = SetToSeq(S)
  BY <1>1, <1>2 DEF Directory
<1> QED BY <1>4, <1>6, <1>7, SubSetToSeqType

LEMMA SyncType ==
    ASSUME NEW registered \in Registry, NEW metadata \in Metadata, NEW k
    PROVE  Sync(k, registered, metadata) \in Letters
  BY DirectoryType DEF Sync, Letters

LEMMA FarewellType ==
    ASSUME NEW k, NEW s
    PROVE  Farewell(k, s) \in Letters
<1> SUFFICES ASSUME NEW t \in Sockets PROVE Farewell(k, s)[t] \in Seq(Frames)
  BY DEF Farewell, Letters
<1>1. PICK callers : callers = {q \in Involved(k, s) : pending[k][q].caller = t /\ t # s}
  OBVIOUS
<1>2. PICK providers : providers = {q \in Involved(k, s) : pending[k][q].provider = t /\ t # s}
  OBVIOUS
<1>3. PICK S : S = {OfflineAnswer(r) : r \in callers} \cup {Cancel(r) : r \in providers}
  OBVIOUS
<1>4. callers \subseteq Requests /\ providers \subseteq Requests
  BY <1>1, <1>2 DEF Involved
<1>5. IsFiniteSet(callers) /\ IsFiniteSet(providers)
  BY <1>4, WsLinkAssumption, FS_Subset
<1>6. IsFiniteSet({OfflineAnswer(r) : r \in callers})
  <2>1. PICK f : f = [r \in callers |-> OfflineAnswer(r)]
    OBVIOUS
  <2>2. {OfflineAnswer(r) : r \in callers} = {f[r] : r \in callers} /\ DOMAIN f = callers
    BY <2>1
  <2> QED BY <1>5, <2>2, ImageFinite
<1>7. IsFiniteSet({Cancel(r) : r \in providers})
  <2>1. PICK f : f = [r \in providers |-> Cancel(r)]
    OBVIOUS
  <2>2. {Cancel(r) : r \in providers} = {f[r] : r \in providers} /\ DOMAIN f = providers
    BY <2>1
  <2> QED BY <1>5, <2>2, ImageFinite
<1>8. IsFiniteSet(S)
  BY <1>3, <1>6, <1>7, FS_Union
<1>9. S \subseteq Frames
  <2>1. \A r \in Requests : Response(r, NoNode, NoNode, "offline") \in Frames
    BY FrameTypes DEF Ends
  <2> QED BY <1>3, <1>4, <2>1, FrameTypes DEF OfflineAnswer
<1>10. Farewell(k, s)[t] = SetToSeq(S)
  BY <1>1, <1>2, <1>3 DEF Farewell
<1> QED BY <1>8, <1>9, <1>10, SubSetToSeqType

LEMMA WriteType ==
    ASSUME LinkTypeOK, NEW readyState, NEW frames \in Letters, Write(readyState, frames)
    PROVE  down' \in [Sockets -> Seq(Frames)]
<1>1. \A s \in Sockets : down[s] \in Seq(Frames) /\ frames[s] \in Seq(Frames)
  BY DEF LinkTypeOK, Letters
<1>2. \A s \in Sockets : down[s] \o frames[s] \in Seq(Frames)
  BY <1>1, ConcatProperties
<1> QED BY <1>1, <1>2 DEF Write

LEMMA ReadType ==
    ASSUME LinkTypeOK, NEW s \in Sockets, NEW type, Reads(s, type)
    PROVE  /\ Head(up[s]) \in Frames /\ Head(up[s]).type = type
           /\ remote[s] = "open" /\ up[s] # <<>>
           /\ up' \in [Sockets -> Seq(Frames)]
           /\ up'[s] = Tail(up[s]) /\ \A t \in Sockets \ {s} : up'[t] = up[t]
<1>1. up[s] \in Seq(Frames) /\ up[s] # <<>>
  BY DEF LinkTypeOK, Reads
<1>2. Head(up[s]) \in Frames /\ Tail(up[s]) \in Seq(Frames)
  BY <1>1, HeadTailProperties
<1>3. up' = [up EXCEPT ![s] = Tail(up[s])]
  BY DEF Reads
<1> QED BY <1>1, <1>2, <1>3 DEF Reads, LinkTypeOK

-----------------------------------------------------------------------------
(* Types.                                                                  *)

RelayTypes ==
    /\ me \in Metadata
    /\ nodes \in Registry
    /\ listeners \in [Relays -> [Topics -> SUBSET Nodes]]
    /\ index \in [Relays -> [Services -> Seq(Nodes)]]
    /\ \A k \in Relays, v \in Services : IsInjective(index[k][v])
    /\ rr \in [Relays -> [Services -> -1..(Cardinality(Nodes) - 1)]]
    /\ pending \in [Relays -> [Requests -> [caller : Sockets \cup {NoSocket},
                                             provider : Sockets \cup {NoSocket}]]]

NodeTypes ==
    /\ conn \in [Nodes -> [Relays -> [phase : {"off", "waiting", "connecting", "open"},
                                       socket : Sockets \cup {NoSocket}]]]
    /\ local \in [Nodes -> [services : SUBSET Services, speaks : Nat, closes : Nat]]
    /\ known \in [Nodes -> [Nodes -> [relay : Relays \cup {NoRelay},
                                       services : SUBSET Services]]]
    /\ reach \in [Nodes -> [Nodes -> {"none", "reachable", "unreachable"}]]
    /\ inflight \in [Requests -> Sockets \cup {NoSocket}]
    /\ call \in [Requests -> [phase : {"idle", "sending", "sent", "answered", "cancelled",
                                       "disconnected", "offline"},
                               destination : Nodes \cup {NoNode},
                               socket : Sockets \cup {NoSocket}, raced : BOOLEAN]]
    /\ serving \in [Requests -> [by : Nodes \cup {NoNode}, via : Sockets \cup {NoSocket},
                                  made : 0..MaxItems, mute : BOOLEAN]]
    /\ topic \in [Nodes -> [Topics -> {"none", "on", "lingering"}]]

LEMMA TypeParts == TypeOK <=> LinkTypeOK /\ RelayTypes /\ NodeTypes
  BY DEF TypeOK, RelayTypes, NodeTypes, Metadata, Registry

LEMMA IndexTypes ==
    ASSUME NEW ix \in [Services -> Seq(Nodes)], \A v \in Services : IsInjective(ix[v]),
           NEW n \in Nodes, NEW services \in SUBSET Services
    PROVE  /\ Unindexed(ix, n) \in [Services -> Seq(Nodes)]
           /\ Reindexed(ix, n, services) \in [Services -> Seq(Nodes)]
           /\ \A v \in Services :
                 /\ IsInjective(Unindexed(ix, n)[v])
                 /\ IsInjective(Reindexed(ix, n, services)[v])
                 /\ \A x : Has(Unindexed(ix, n)[v], x) <=> Has(ix[v], x) /\ x # n
                 /\ \A x : Has(Reindexed(ix, n, services)[v], x)
                              <=> IF x = n THEN v \in services ELSE Has(ix[v], x)
<1>1. \A v \in Services : /\ Without(ix[v], n) \in Seq(Nodes) /\ IsInjective(Without(ix[v], n))
                          /\ \A x : Has(Without(ix[v], n), x) <=> Has(ix[v], x) /\ x # n
  BY WithoutSound
<1>2. \A v \in Services :
         /\ Append(Without(ix[v], n), n) \in Seq(Nodes)
         /\ IsInjective(Append(Without(ix[v], n), n))
         /\ \A x : Has(Append(Without(ix[v], n), n), x) <=> Has(Without(ix[v], n), x) \/ x = n
  BY <1>1, AddedSound
<1> QED BY <1>1, <1>2 DEF Unindexed, Reindexed

\* The round robin stays within the providers, and picks one whose socket is open.
LEMMA PickedSound ==
    ASSUME RelayTypes, NEW k \in Relays, NEW v \in Services, Open(k, v) # {}
    PROVE  /\ NextIndex(k, v) \in 0..(Cardinality(Nodes) - 1)
           /\ Picked(k, v) \in Nodes /\ IsOpen(nodes[k][Picked(k, v)])
<1>1. PICK set \in Seq(Nodes) : set = index[k][v]
  BY DEF RelayTypes
<1>2. PICK m \in Nat : m = Len(set) /\ DOMAIN set = 1..m /\ \A j \in 1..m : set[j] \in Nodes
  OBVIOUS
<1>3. PICK S : S = Open(k, v)
  OBVIOUS
<1>4. S \subseteq 1..m /\ \A j \in S : IsOpen(nodes[k][set[j]])
  BY <1>1, <1>2, <1>3 DEF Open
<1>5. IsFiniteSet(1..m)
  BY FS_Interval
<1>6. IsFiniteSet(S) /\ S \in SUBSET Nat
  <2>1. S \in SUBSET (1..m) /\ \A j \in 1..m : j \in Nat
    BY <1>4
  <2>2. IsFiniteSet(S)
    BY <1>5, <2>1, FS_Subset
  <2> QED BY <2>1, <2>2
<1>7. PICK c \in Nat : c = Cardinality(S) /\ c > 0
  BY <1>3, <1>6, FS_CardinalityType, FS_EmptySet
<1>8. c <= Cardinality(Nodes) /\ Cardinality(Nodes) \in Nat
  <2>1. PICK f : f = [j \in S |-> set[j]]
    OBVIOUS
  <2>2. f \in [S -> Nodes] /\ \A j \in S : f[j] = set[j]
    BY <1>2, <1>4, <2>1
  <2>3. \A i, j \in 1..m : set[i] = set[j] => i = j
    BY <1>1, <1>2 DEF RelayTypes, IsInjective
  <2>4. f \in Injection(S, Nodes)
    BY <1>4, <2>2, <2>3 DEF Injection, IsInjective
  <2> QED BY <1>7, <2>4, WsLinkAssumption, FS_Injection, FS_CardinalityType
<1>9. PICK q : q = NextIndex(k, v)
  OBVIOUS
<1>10. q \in 0..(c - 1)
  <2>1. rr[k][v] \in Int
    BY <1>8 DEF RelayTypes
  <2>2. PICK a \in Int : a = rr[k][v] + 1
    BY <2>1
  <2>3. q = a % c
    BY <1>3, <1>7, <1>9, <2>2 DEF NextIndex
  <2> QED BY <1>7, <2>2, <2>3
<1>11. PICK j : j = CHOOSE x \in S : Cardinality({i \in S : i < x}) = q
  OBVIOUS
<1>12. j \in S
  <2>1. \E i \in S : Cardinality(Below(S, i)) = q
    BY <1>6, <1>7, <1>10, RankExists
  <2> QED BY <1>11, <2>1 DEF Below
<1>13. Picked(k, v) = set[j]
  BY <1>1, <1>3, <1>9, <1>11 DEF Picked
<1> QED BY <1>2, <1>4, <1>8, <1>9, <1>10, <1>12, <1>13

-----------------------------------------------------------------------------
(* The relay.                                                              *)

LiveAt(s, k) == s \in Sockets /\ RelayOf(s) = k /\ remote[s] = "open"

\* A node is registered with an open socket of the relay on which it said hello last.
Registered ==
    \A k \in Relays, n \in Nodes :
        nodes[k][n] # NoSocket => LiveAt(nodes[k][n], k) /\ me[nodes[k][n]].node = n

\* A request in flight has both its ends at the relay.
PendingSound ==
    \A k \in Relays, r \in Requests :
        pending[k][r] # NoEntry =>
            LiveAt(pending[k][r].caller, k) /\ LiveAt(pending[k][r].provider, k)

IndexSound ==
    \A k \in Relays, v \in Services, n \in Nodes :
        Has(index[k][v], n) <=> nodes[k][n] # NoSocket /\ v \in me[nodes[k][n]].services

RelayInv == RelayTypes /\ Registered /\ PendingSound /\ IndexSound

LEMMA ResetType ==
    ASSUME NEW robin \in [Services -> -1..(Cardinality(Nodes) - 1)], NEW ix
    PROVE  ResetEmpty(robin, ix) \in [Services -> -1..(Cardinality(Nodes) - 1)]
<1>1. Cardinality(Nodes) \in Nat
  BY WsLinkAssumption, FS_CardinalityType
<1>2. -1 \in -1..(Cardinality(Nodes) - 1)
  BY <1>1
<1> QED BY <1>2 DEF ResetEmpty

\* The maps stay as they are, and no socket is lost.
LEMMA MapsStay ==
    ASSUME RelayInv, UNCHANGED relayVars, \A s \in Sockets : remote[s] = "open" => remote'[s] = "open"
    PROVE  RelayInv'
  BY DEF RelayInv, relayVars, RelayTypes, Registered, PendingSound, IndexSound, LiveAt

LEMMA AcceptKeepsRelay ==
    ASSUME LinkTypeOK, RelayInv, NEW s \in Sockets, Accept(s)
    PROVE  LinkTypeOK' /\ RelayInv'
<1>1. /\ UNCHANGED <<client, up>> /\ UNCHANGED relayVars
      /\ remote' = [remote EXCEPT ![s] = "open"]
      /\ down' = [down EXCEPT ![s] = down[s] \o Directory(s, nodes, me)]
  BY DEF Accept, relayVars
<1>2. remote' \in [Sockets -> RemoteStates]
  BY <1>1 DEF LinkTypeOK, RemoteStates
<1>3. down' \in [Sockets -> Seq(Frames)]
  <2>1. Directory(s, nodes, me) \in Seq(Frames) /\ down[s] \in Seq(Frames)
    BY DirectoryType DEF RelayInv, RelayTypes, LinkTypeOK
  <2>2. down[s] \o Directory(s, nodes, me) \in Seq(Frames)
    BY <2>1, ConcatProperties
  <2> QED BY <1>1, <2>2 DEF LinkTypeOK
<1>4. \A t \in Sockets : remote[t] = "open" => remote'[t] = "open"
  BY <1>1 DEF LinkTypeOK
<1> QED BY <1>1, <1>2, <1>3, <1>4, MapsStay DEF LinkTypeOK

\* A frame is read, and only the requests in flight change: entries go, or one comes whose
\* ends are both open.
LEMMA PendingChanges ==
    ASSUME RelayInv, UNCHANGED <<remote, me, nodes, listeners, index>>,
           rr' \in [Relays -> [Services -> -1..(Cardinality(Nodes) - 1)]],
           NEW k \in Relays, NEW r \in Requests, NEW entry,
           pending' = pending \/ pending' = [pending EXCEPT ![k][r] = entry],
           \/ entry = NoEntry
           \/ \E a, b \in Sockets : /\ entry = [caller |-> a, provider |-> b]
                                    /\ LiveAt(a, k) /\ LiveAt(b, k)
    PROVE  RelayInv'
<1>1. entry \in [caller : Sockets \cup {NoSocket}, provider : Sockets \cup {NoSocket}]
  BY DEF NoEntry
<1>2. \A h \in Relays, q \in Requests : \/ pending'[h][q] = pending[h][q]
                                        \/ h = k /\ q = r /\ pending'[h][q] = entry
  BY DEF RelayInv, RelayTypes
<1>3. RelayTypes'
  <2>1. PICK E : E = [caller : Sockets \cup {NoSocket}, provider : Sockets \cup {NoSocket}]
    OBVIOUS
  <2>2. entry \in E /\ pending \in [Relays -> [Requests -> E]]
    BY <1>1, <2>1 DEF RelayInv, RelayTypes
  <2>3. [pending EXCEPT ![k][r] = entry] \in [Relays -> [Requests -> E]]
    BY <2>2
  <2>4. pending' \in [Relays -> [Requests -> E]]
    BY <2>2, <2>3
  <2> QED BY <2>1, <2>4 DEF RelayInv, RelayTypes
<1>4. Registered' /\ IndexSound'
  BY DEF RelayInv, Registered, IndexSound, LiveAt
<1>5. PendingSound'
  <2> SUFFICES ASSUME NEW h \in Relays, NEW q \in Requests, pending'[h][q] # NoEntry
               PROVE  LiveAt(pending'[h][q].caller, h) /\ LiveAt(pending'[h][q].provider, h)
    BY DEF PendingSound, LiveAt
  <2>1. CASE pending'[h][q] = pending[h][q]
    BY <2>1 DEF RelayInv, PendingSound
  <2>2. CASE h = k /\ q = r /\ pending'[h][q] = entry
    BY <2>2
  <2> QED BY <1>2, <2>1, <2>2
<1> QED BY <1>3, <1>4, <1>5 DEF RelayInv

LEMMA OnResponseKeepsRelay ==
    ASSUME LinkTypeOK, RelayInv, NEW s \in Sockets, OnResponse(s)
    PROVE  LinkTypeOK' /\ RelayInv'
<1>1. PICK f \in Frames : f = Head(up[s]) /\ f.type = "response"
  BY ReadType DEF OnResponse
<1>2. PICK letters \in Letters : Write(remote, letters)
  <2>1. PICK target : target = IF f.destination = NoNode THEN NoSocket
                               ELSE nodes[RelayOf(s)][f.destination]
    OBVIOUS
  <2>2. Deliver(IF IsOpen(target) THEN To(target, f) ELSE Silence)
    BY <1>1, <2>1 DEF OnResponse
  <2>3. (IF IsOpen(target) THEN To(target, f) ELSE Silence) \in Letters
    BY LettersAreSent
  <2> QED BY <2>2, <2>3 DEF Deliver
<1>3. LinkTypeOK'
  <2>1. down' \in [Sockets -> Seq(Frames)]
    BY <1>2, WriteType
  <2>2. up' \in [Sockets -> Seq(Frames)]
    BY ReadType DEF OnResponse
  <2> QED BY <2>1, <2>2 DEF OnResponse, LinkTypeOK
<1>4. RelayInv'
  <2>1. f.request \in Requests /\ RelayOf(s) \in Relays
    BY <1>1, FrameParts, SocketParts
  <2>2. pending' = pending \/ pending' = [pending EXCEPT ![RelayOf(s)][f.request] = NoEntry]
    BY <1>1 DEF OnResponse
  <2>3. /\ UNCHANGED <<remote, me, nodes, listeners, index>>
        /\ rr' \in [Relays -> [Services -> -1..(Cardinality(Nodes) - 1)]]
    BY DEF OnResponse, RelayInv, RelayTypes
  <2> QED BY <2>1, <2>2, <2>3, PendingChanges
<1> QED BY <1>3, <1>4

LEMMA OnCancelKeepsRelay ==
    ASSUME LinkTypeOK, RelayInv, NEW s \in Sockets, OnCancel(s)
    PROVE  LinkTypeOK' /\ RelayInv'
<1>1. PICK f \in Frames : f = Head(up[s]) /\ f.type = "cancel"
  BY ReadType DEF OnCancel
<1>2. PICK r \in Requests : r = f.request
  BY <1>1, FrameParts
<1>3. PICK letters \in Letters : Write(remote, letters)
  <2>1. Deliver(IF pending[RelayOf(s)][r] = NoEntry THEN Silence
                ELSE To(pending[RelayOf(s)][r].provider, Cancel(r)))
    BY <1>1, <1>2 DEF OnCancel
  <2>2. (IF pending[RelayOf(s)][r] = NoEntry THEN Silence
         ELSE To(pending[RelayOf(s)][r].provider, Cancel(r))) \in Letters
    BY LettersAreSent, FrameTypes
  <2> QED BY <2>1, <2>2 DEF Deliver
<1>4. LinkTypeOK'
  <2>1. down' \in [Sockets -> Seq(Frames)]
    BY <1>3, WriteType
  <2>2. up' \in [Sockets -> Seq(Frames)]
    BY ReadType DEF OnCancel
  <2> QED BY <2>1, <2>2 DEF OnCancel, LinkTypeOK
<1>5. RelayInv'
  <2>1. RelayOf(s) \in Relays
    BY SocketParts
  <2>2. pending' = [pending EXCEPT ![RelayOf(s)][r] = NoEntry]
    BY <1>1, <1>2 DEF OnCancel
  <2>3. /\ UNCHANGED <<remote, me, nodes, listeners, index>>
        /\ rr' \in [Relays -> [Services -> -1..(Cardinality(Nodes) - 1)]]
    BY DEF OnCancel, RelayInv, RelayTypes
  <2> QED BY <2>1, <2>2, <2>3, PendingChanges
<1> QED BY <1>4, <1>5

LEMMA OnRequestKeepsRelay ==
    ASSUME LinkTypeOK, RelayInv, NEW s \in Sockets, OnRequest(s)
    PROVE  LinkTypeOK' /\ RelayInv'
<1>1. PICK f \in Frames : f = Head(up[s]) /\ f.type = "request"
  BY ReadType DEF OnRequest
<1>2. PICK k \in Relays : k = RelayOf(s)
  BY SocketParts
<1>3. /\ f.request \in Requests /\ f.service \in Services
      /\ f.destination \in Nodes \cup {NoNode}
  BY <1>1, FrameParts
<1>4. PICK picks \in BOOLEAN : picks = (f.destination = NoNode /\ Open(k, f.service) # {})
  OBVIOUS
<1>5. PICK target : target = IF f.destination # NoNode THEN nodes[k][f.destination]
                             ELSE IF picks THEN nodes[k][Picked(k, f.service)]
                             ELSE NoSocket
  OBVIOUS
<1>6. /\ Reads(s, "request")
      /\ rr' = IF picks THEN [rr EXCEPT ![k][f.service] = NextIndex(k, f.service)] ELSE rr
      /\ IF IsOpen(target)
         THEN /\ pending' = [pending EXCEPT ![k][f.request] = [caller |-> s, provider |-> target]]
              /\ Deliver(To(target, f))
         ELSE /\ Deliver(To(s, OfflineAnswer(f.request)))
              /\ UNCHANGED pending
      /\ UNCHANGED <<client, remote, me, nodes, listeners, index>>
  BY <1>1, <1>2, <1>4, <1>5 DEF OnRequest
<1>7. target = NoSocket \/ LiveAt(target, k)
  <2>1. CASE f.destination # NoNode
    BY <1>3, <1>5, <2>1 DEF RelayInv, Registered
  <2>2. CASE f.destination = NoNode /\ picks
    <3>1. Picked(k, f.service) \in Nodes
      BY <1>3, <1>4, <2>2, PickedSound DEF RelayInv
    <3> QED BY <1>5, <2>2, <3>1 DEF RelayInv, Registered
  <2>3. CASE f.destination = NoNode /\ ~picks
    BY <1>5, <2>3
  <2> QED BY <2>1, <2>2, <2>3
<1>8. PICK letters \in Letters : Write(remote, letters)
  <2>1. To(target, f) \in Letters
    BY LettersAreSent
  <2>2. OfflineAnswer(f.request) \in Frames
    BY <1>3, FrameTypes DEF OfflineAnswer, Ends
  <2>3. To(s, OfflineAnswer(f.request)) \in Letters
    BY <2>2, LettersAreSent
  <2> QED BY <1>6, <2>1, <2>3 DEF Deliver
<1>9. LinkTypeOK'
  <2>1. down' \in [Sockets -> Seq(Frames)]
    BY <1>8, WriteType
  <2>2. up' \in [Sockets -> Seq(Frames)]
    BY <1>6, ReadType
  <2> QED BY <1>6, <2>1, <2>2 DEF LinkTypeOK
<1>10. rr' \in [Relays -> [Services -> -1..(Cardinality(Nodes) - 1)]]
  <2>1. PICK R : R = -1..(Cardinality(Nodes) - 1)
    OBVIOUS
  <2>2. rr \in [Relays -> [Services -> R]]
    BY <2>1 DEF RelayInv, RelayTypes
  <2>3. CASE picks
    <3>1. NextIndex(k, f.service) \in 0..(Cardinality(Nodes) - 1)
      BY <1>3, <1>4, <2>3, PickedSound DEF RelayInv
    <3>2. Cardinality(Nodes) \in Nat
      BY WsLinkAssumption, FS_CardinalityType
    <3>3. PICK q \in R : q = NextIndex(k, f.service)
      BY <2>1, <3>1, <3>2
    <3>4. [rr EXCEPT ![k][f.service] = q] \in [Relays -> [Services -> R]]
      BY <1>3, <2>2
    <3> QED BY <1>6, <2>1, <2>3, <3>3, <3>4
  <2> QED BY <1>6, <2>1, <2>2, <2>3
<1>11. RelayInv'
  <2>1. CASE IsOpen(target)
    <3>1. LiveAt(target, k) /\ LiveAt(s, k)
      BY <1>2, <1>6, <1>7, <2>1 DEF IsOpen, LiveAt, Reads
    <3>2. target \in Sockets
      BY <3>1 DEF LiveAt
    <3> QED BY <1>3, <1>6, <1>10, <2>1, <3>1, <3>2, PendingChanges
  <2>2. CASE ~IsOpen(target)
    BY <1>3, <1>6, <1>10, <2>2, PendingChanges
  <2> QED BY <2>1, <2>2
<1> QED BY <1>9, <1>11

\* The topics of the nodes concern none of the other maps.
LEMMA ListenersChange ==
    ASSUME RelayInv, UNCHANGED <<remote, me, nodes, index, rr, pending>>,
           listeners' \in [Relays -> [Topics -> SUBSET Nodes]]
    PROVE  RelayInv'
  BY DEF RelayInv, RelayTypes, Registered, PendingSound, IndexSound, LiveAt

LEMMA OnSubscribeKeepsRelay ==
    ASSUME LinkTypeOK, RelayInv, NEW s \in Sockets, OnSubscribe(s)
    PROVE  LinkTypeOK' /\ RelayInv'
<1>1. PICK k \in Relays : k = RelayOf(s)
  BY SocketParts
<1>2. PICK n : n = me[s].node /\ n \in Nodes \cup {NoNode}
  BY DEF RelayInv, RelayTypes, Metadata
<1>3. up' \in [Sockets -> Seq(Frames)]
  BY ReadType DEF OnSubscribe
<1>4. listeners' \in [Relays -> [Topics -> SUBSET Nodes]]
  <2>1. PICK mine : mine = [t \in Topics |-> Unlistened(listeners[k], n)[t]
                                              \cup {i \in {n} : t \in Head(up[s]).topics}]
    OBVIOUS
  <2>2. listeners' = IF n = NoNode THEN listeners ELSE [listeners EXCEPT ![k] = mine]
    BY <1>1, <1>2, <2>1 DEF OnSubscribe, SenderOf
  <2>3. n # NoNode => mine \in [Topics -> SUBSET Nodes]
    BY <1>2, <2>1 DEF Unlistened, RelayInv, RelayTypes
  <2> QED BY <2>2, <2>3 DEF RelayInv, RelayTypes
<1>5. UNCHANGED <<client, remote, down, me, nodes, index, rr, pending>>
  BY DEF OnSubscribe
<1> QED BY <1>3, <1>4, <1>5, ListenersChange DEF LinkTypeOK

LEMMA OnUnsubscribeKeepsRelay ==
    ASSUME LinkTypeOK, RelayInv, NEW s \in Sockets, OnUnsubscribe(s)
    PROVE  LinkTypeOK' /\ RelayInv'
<1>1. PICK k \in Relays : k = RelayOf(s)
  BY SocketParts
<1>2. PICK f \in Frames : f = Head(up[s]) /\ f.topic \in Topics
  BY ReadType, FrameParts DEF OnUnsubscribe
<1>3. up' \in [Sockets -> Seq(Frames)]
  BY ReadType DEF OnUnsubscribe
<1>4. listeners' \in [Relays -> [Topics -> SUBSET Nodes]]
  <2>1. PICK rest : rest = listeners[k][f.topic] \ {me[s].node}
    OBVIOUS
  <2>2. listeners' = listeners \/ listeners' = [listeners EXCEPT ![k][f.topic] = rest]
    BY <1>1, <1>2, <2>1 DEF OnUnsubscribe, SenderOf
  <2>3. listeners[k][f.topic] \in SUBSET Nodes
    BY <1>2 DEF RelayInv, RelayTypes
  <2>4. rest \in SUBSET Nodes
    BY <2>1, <2>3
  <2>5. [listeners EXCEPT ![k][f.topic] = rest] \in [Relays -> [Topics -> SUBSET Nodes]]
    BY <1>2, <2>4 DEF RelayInv, RelayTypes
  <2> QED BY <2>2, <2>5 DEF RelayInv, RelayTypes
<1>5. UNCHANGED <<client, remote, down, me, nodes, index, rr, pending>>
  BY DEF OnUnsubscribe
<1> QED BY <1>3, <1>4, <1>5, ListenersChange DEF LinkTypeOK

LEMMA OnPublishKeepsRelay ==
    ASSUME LinkTypeOK, RelayInv, NEW s \in Sockets, OnPublish(s)
    PROVE  LinkTypeOK' /\ RelayInv'
<1>1. PICK f \in Frames : f = Head(up[s])
  BY ReadType DEF OnPublish
<1>2. PICK letters \in Letters : Write(remote, letters)
  <2>1. PICK receivers : receivers = {nodes[RelayOf(s)][n] : n \in listeners[RelayOf(s)][f.topic]}
    OBVIOUS
  <2>2. PICK letters : letters = [t \in Sockets |-> IF me[s].node # NoNode /\ t \in receivers
                                                    THEN <<f>> ELSE <<>>]
    OBVIOUS
  <2>3. letters \in Letters
    <3>1. <<f>> \in Seq(Frames) /\ <<>> \in Seq(Frames)
      OBVIOUS
    <3> QED BY <2>2, <3>1 DEF Letters
  <2>4. Write(remote, letters)
    BY <1>1, <2>1, <2>2 DEF OnPublish, Deliver
  <2> QED BY <2>3, <2>4
<1>3. LinkTypeOK'
  <2>1. down' \in [Sockets -> Seq(Frames)]
    BY <1>2, WriteType
  <2>2. up' \in [Sockets -> Seq(Frames)]
    BY ReadType DEF OnPublish
  <2> QED BY <2>1, <2>2 DEF OnPublish, LinkTypeOK
<1> QED BY <1>3, MapsStay DEF OnPublish

LEMMA OnHelloKeepsRelay ==
    ASSUME LinkTypeOK, RelayInv, NEW s \in Sockets, OnHello(s)
    PROVE  LinkTypeOK' /\ RelayInv'
<1>1. PICK k \in Relays : k = RelayOf(s)
  BY SocketParts
<1>2. Reads(s, "hello") /\ remote[s] = "open"
  BY DEF OnHello, Reads
<1>3. PICK f \in Frames : f = Head(up[s]) /\ f.node \in Nodes /\ f.services \in SUBSET Services
  BY <1>2, ReadType, FrameParts
<1>4. PICK n \in Nodes : n = f.node
  BY <1>3
<1>5. PICK services \in SUBSET Services : services = f.services
  BY <1>3
<1>6. PICK was \in Nodes \cup {NoNode} : was = me[s].node
  BY DEF RelayInv, RelayTypes, Metadata
<1>7. PICK moved \in BOOLEAN : moved = (was \notin {NoNode, n})
  OBVIOUS
<1>8. moved => was \in Nodes /\ was # n
  BY <1>7
<1>9. PICK kept : kept = IF moved THEN [nodes EXCEPT ![k][was] = NoSocket] ELSE nodes
  OBVIOUS
<1>10. PICK registered : registered = [kept EXCEPT ![k][n] = s]
  OBVIOUS
<1>11. PICK metadata : metadata = [me EXCEPT ![s] = [node |-> n, services |-> services]]
  OBVIOUS
<1>12. PICK cleared : cleared = IF moved THEN Unindexed(index[k], was) ELSE index[k]
  OBVIOUS
<1>13. PICK left : left = IF moved THEN Broadcast(Offline(was), s) ELSE Silence
  OBVIOUS
<1>14. PICK synced : synced = IF ShouldSync(k, n, services) THEN Sync(k, registered, metadata)
                              ELSE Silence
  OBVIOUS
<1>15. /\ nodes' = registered
       /\ me' = metadata
       /\ listeners' = IF moved THEN [listeners EXCEPT ![k] = Unlistened(listeners[k], was)]
                       ELSE listeners
       /\ index' = [index EXCEPT ![k] = Reindexed(cleared, n, services)]
       /\ rr' = IF moved THEN [rr EXCEPT ![k] = ResetEmpty(rr[k], cleared)] ELSE rr
       /\ Deliver(Also(left, synced))
       /\ UNCHANGED <<client, remote, pending>>
  BY <1>1, <1>3, <1>4, <1>5, <1>6, <1>7, <1>9, <1>10, <1>11, <1>12, <1>13, <1>14 DEF OnHello
<1>16. kept \in Registry
  BY <1>8, <1>9 DEF RelayInv, RelayTypes, Registry
<1>17. registered \in Registry /\ metadata \in Metadata
  BY <1>10, <1>11, <1>16 DEF RelayInv, RelayTypes, Registry, Metadata
<1>18. LinkTypeOK'
  <2>1. left \in Letters /\ synced \in Letters
    BY <1>8, <1>13, <1>14, <1>17, LettersAreSent, FrameTypes, SyncType
  <2>2. Also(left, synced) \in Letters
    BY <2>1, LettersAreSent
  <2>3. down' \in [Sockets -> Seq(Frames)]
    BY <1>15, <2>2, WriteType DEF Deliver
  <2>4. up' \in [Sockets -> Seq(Frames)]
    BY <1>2, ReadType
  <2> QED BY <1>15, <2>3, <2>4 DEF LinkTypeOK
<1>19. PICK ix \in [Services -> Seq(Nodes)] :
          ix = index[k] /\ \A v \in Services : IsInjective(ix[v])
  BY DEF RelayInv, RelayTypes
<1>20. /\ cleared \in [Services -> Seq(Nodes)] /\ \A v \in Services : IsInjective(cleared[v])
       /\ \A v \in Services : \A x : Has(cleared[v], x) <=> Has(ix[v], x) /\ (moved => x # was)
  <2>1. CASE moved
    BY <1>8, <1>12, <1>19, <2>1, IndexTypes
  <2>2. CASE ~moved
    BY <1>12, <1>19, <2>2
  <2> QED BY <2>1, <2>2
<1>21. PICK renewed : renewed = Reindexed(cleared, n, services)
  OBVIOUS
<1>22. /\ renewed \in [Services -> Seq(Nodes)] /\ \A v \in Services : IsInjective(renewed[v])
       /\ \A v \in Services : \A x : Has(renewed[v], x) <=>
             IF x = n THEN v \in services ELSE Has(ix[v], x) /\ (moved => x # was)
  <2>1. /\ renewed \in [Services -> Seq(Nodes)] /\ \A v \in Services : IsInjective(renewed[v])
        /\ \A v \in Services : \A x : Has(renewed[v], x) <=>
              IF x = n THEN v \in services ELSE Has(cleared[v], x)
    BY <1>20, <1>21, IndexTypes
  <2> QED BY <1>20, <2>1
<1>23. RelayTypes'
  <2>1. index' \in [Relays -> [Services -> Seq(Nodes)]]
    BY <1>15, <1>21, <1>22 DEF RelayInv, RelayTypes
  <2>2. \A h \in Relays, v \in Services : IsInjective(index'[h][v])
    <3> SUFFICES ASSUME NEW h \in Relays, NEW v \in Services PROVE IsInjective(index'[h][v])
      OBVIOUS
    <3>1. h # k => index'[h][v] = index[h][v]
      BY <1>15 DEF RelayInv, RelayTypes
    <3>2. h = k => index'[h][v] = renewed[v]
      BY <1>15, <1>21 DEF RelayInv, RelayTypes
    <3> QED BY <1>22, <3>1, <3>2 DEF RelayInv, RelayTypes
  <2>3. rr' \in [Relays -> [Services -> -1..(Cardinality(Nodes) - 1)]]
    <3>1. rr[k] \in [Services -> -1..(Cardinality(Nodes) - 1)]
      BY DEF RelayInv, RelayTypes
    <3>2. PICK robin \in [Services -> -1..(Cardinality(Nodes) - 1)] :
             robin = ResetEmpty(rr[k], cleared)
      BY <3>1, ResetType
    <3> QED BY <1>15, <3>2 DEF RelayInv, RelayTypes
  <2>4. listeners' \in [Relays -> [Topics -> SUBSET Nodes]]
    <3>1. Unlistened(listeners[k], was) \in [Topics -> SUBSET Nodes]
      BY DEF Unlistened, RelayInv, RelayTypes
    <3> QED BY <1>15, <3>1 DEF RelayInv, RelayTypes
  <2> QED BY <1>15, <1>17, <2>1, <2>2, <2>3, <2>4 DEF RelayInv, RelayTypes
<1>24. \A h \in Relays, x \in Nodes :
          nodes'[h][x] = IF h = k /\ x = n THEN s
                         ELSE IF h = k /\ moved /\ x = was THEN NoSocket ELSE nodes[h][x]
  <2>1. nodes \in Registry /\ kept \in Registry
    BY <1>16 DEF RelayInv, RelayTypes
  <2>2. \A h \in Relays, x \in Nodes :
           kept[h][x] = IF h = k /\ moved /\ x = was THEN NoSocket ELSE nodes[h][x]
    BY <1>8, <1>9, <2>1 DEF Registry
  <2>3. \A h \in Relays, x \in Nodes :
           registered[h][x] = IF h = k /\ x = n THEN s ELSE kept[h][x]
    BY <1>10, <2>1 DEF Registry
  <2> QED BY <1>15, <2>2, <2>3
<1>25. me'[s] = [node |-> n, services |-> services] /\ \A t \in Sockets \ {s} : me'[t] = me[t]
  BY <1>11, <1>15 DEF RelayInv, RelayTypes, Metadata
<1>26. ASSUME NEW h \in Relays, NEW x \in Nodes, ~(h = k /\ x = n), nodes'[h][x] # NoSocket
       PROVE  /\ nodes'[h][x] = nodes[h][x] /\ LiveAt(nodes[h][x], h)
              /\ me[nodes[h][x]].node = x /\ me'[nodes[h][x]] = me[nodes[h][x]]
  <2>1. nodes'[h][x] = nodes[h][x] /\ ~(h = k /\ moved /\ x = was)
    BY <1>24, <1>26
  <2>2. LiveAt(nodes[h][x], h) /\ me[nodes[h][x]].node = x
    BY <1>26, <2>1 DEF RelayInv, Registered
  <2>3. nodes[h][x] # s
    BY <1>1, <1>6, <1>7, <1>26, <2>1, <2>2, WsLinkAssumption DEF LiveAt
  <2> QED BY <1>25, <2>1, <2>2, <2>3 DEF LiveAt
<1>27. Registered'
  <2> SUFFICES ASSUME NEW h \in Relays, NEW x \in Nodes, nodes'[h][x] # NoSocket
               PROVE  LiveAt(nodes[h][x], h)' /\ me'[nodes'[h][x]].node = x
    BY DEF Registered
  <2>1. CASE h = k /\ x = n
    BY <1>1, <1>2, <1>15, <1>24, <1>25, <2>1 DEF LiveAt
  <2>2. CASE ~(h = k /\ x = n)
    <3>1. /\ nodes'[h][x] = nodes[h][x] /\ LiveAt(nodes[h][x], h)
          /\ me[nodes[h][x]].node = x /\ me'[nodes[h][x]] = me[nodes[h][x]]
      BY <1>26, <2>2
    <3> QED BY <1>15, <3>1 DEF LiveAt
  <2> QED BY <2>1, <2>2
<1>28. PendingSound'
  BY <1>15 DEF RelayInv, PendingSound, LiveAt
<1>29. IndexSound'
  <2> SUFFICES ASSUME NEW h \in Relays, NEW v \in Services, NEW x \in Nodes
               PROVE  Has(index'[h][v], x)
                        <=> nodes'[h][x] # NoSocket /\ v \in me'[nodes'[h][x]].services
    BY DEF IndexSound, Has
  <2>1. Has(index[h][v], x) <=> nodes[h][x] # NoSocket /\ v \in me[nodes[h][x]].services
    BY DEF RelayInv, IndexSound
  <2>2. CASE h = k /\ x = n
    <3>1. nodes'[h][x] = s /\ s # NoSocket /\ me'[s].services = services
      BY <1>24, <1>25, <2>2, SocketParts
    <3>2. index'[h][v] = renewed[v]
      BY <1>15, <1>21, <2>2 DEF RelayInv, RelayTypes
    <3> QED BY <1>22, <2>2, <3>1, <3>2
  <2>3. CASE ~(h = k /\ x = n)
    <3>1. nodes'[h][x] # NoSocket =>
             nodes'[h][x] = nodes[h][x] /\ me'[nodes[h][x]] = me[nodes[h][x]]
      BY <1>26, <2>3
    <3>2. nodes'[h][x] = NoSocket => nodes[h][x] = NoSocket \/ (h = k /\ moved /\ x = was)
      BY <1>24, <2>3
    <3>3. h = k /\ moved /\ x = was => nodes'[h][x] = NoSocket
      BY <1>24, <2>3
    <3>4. CASE h # k
      <4>1. index'[h][v] = index[h][v]
        BY <1>15, <3>4 DEF RelayInv, RelayTypes
      <4> QED BY <2>1, <3>1, <3>2, <3>4, <4>1
    <3>5. CASE h = k
      <4>1. index'[h][v] = renewed[v] /\ ix[v] = index[h][v] /\ x # n
        BY <1>15, <1>19, <1>21, <2>3, <3>5 DEF RelayInv, RelayTypes
      <4>2. Has(renewed[v], x) <=> Has(ix[v], x) /\ (moved => x # was)
        BY <1>22, <4>1
      <4> QED BY <2>1, <3>1, <3>2, <3>3, <3>5, <4>1, <4>2
    <3> QED BY <3>4, <3>5
  <2> QED BY <2>2, <2>3
<1> QED BY <1>18, <1>23, <1>27, <1>28, <1>29 DEF RelayInv

\* What a close leaves of the requests in flight and of the metadata.
LEMMA ClosePending ==
    ASSUME RelayInv, NEW s \in Sockets, NEW k \in Relays, k = RelayOf(s), Close(s)
    PROVE  /\ \A h \in Relays \ {k}, r \in Requests : pending'[h][r] = pending[h][r]
           /\ \A r \in Requests : \/ r \in Involved(k, s) /\ pending'[k][r] = NoEntry
                                  \/ r \notin Involved(k, s) /\ pending'[k][r] = pending[k][r]
<1>1. PICK rest : rest = [r \in Requests |-> IF r \in Involved(k, s) THEN NoEntry
                                             ELSE pending[k][r]]
  OBVIOUS
<1>2. pending' = [pending EXCEPT ![k] = rest]
  BY <1>1 DEF Close
<1>3. PICK entries : pending \in [Relays -> entries]
  BY DEF RelayInv, RelayTypes
<1>4. pending'[k] = rest /\ \A h \in Relays \ {k} : pending'[h] = pending[h]
  BY <1>2, <1>3
<1>5. \A r \in Requests : \/ r \in Involved(k, s) /\ rest[r] = NoEntry
                          \/ r \notin Involved(k, s) /\ rest[r] = pending[k][r]
  BY <1>1
<1> QED BY <1>4, <1>5

LEMMA CloseEffect ==
    ASSUME LinkTypeOK, RelayInv, NEW s \in Sockets, NEW k \in Relays, k = RelayOf(s), Close(s)
    PROVE  /\ remote[s] = "open" /\ remote'[s] = "closed"
           /\ \A t \in Sockets \ {s} : remote'[t] = remote[t] /\ me'[t] = me[t]
           /\ me'[s] = Nobody
           /\ \A h \in Relays \ {k}, r \in Requests : pending'[h][r] = pending[h][r]
           /\ \A r \in Requests : \/ r \in Involved(k, s) /\ pending'[k][r] = NoEntry
                                  \/ r \notin Involved(k, s) /\ pending'[k][r] = pending[k][r]
           /\ pending' \in [Relays -> [Requests -> [caller : Sockets \cup {NoSocket},
                                                     provider : Sockets \cup {NoSocket}]]]
           /\ me' \in Metadata /\ remote' \in [Sockets -> RemoteStates]
<1>1. remote[s] = "open" /\ remote' = [remote EXCEPT ![s] = "closed"]
      /\ me' = [me EXCEPT ![s] = Nobody]
  BY DEF Close
<1>2. PICK rest : rest = [r \in Requests |-> IF r \in Involved(k, s) THEN NoEntry
                                             ELSE pending[k][r]]
  OBVIOUS
<1>3. pending' = [pending EXCEPT ![k] = rest]
  BY <1>2 DEF Close
<1>4. PICK E : E = [caller : Sockets \cup {NoSocket}, provider : Sockets \cup {NoSocket}]
  OBVIOUS
<1>5. pending \in [Relays -> [Requests -> E]] /\ NoEntry \in E
  BY <1>4 DEF RelayInv, RelayTypes, NoEntry
<1>6. rest \in [Requests -> E]
  BY <1>2, <1>5
<1>7. pending' \in [Relays -> [Requests -> E]] /\ pending'[k] = rest
      /\ \A h \in Relays \ {k} : pending'[h] = pending[h]
  BY <1>3, <1>5, <1>6
<1>8. me \in Metadata /\ Nobody \in [node : Nodes \cup {NoNode}, services : SUBSET Services]
  BY DEF RelayInv, RelayTypes, Nobody
<1>9. me' \in Metadata /\ me'[s] = Nobody /\ \A t \in Sockets \ {s} : me'[t] = me[t]
  BY <1>1, <1>8 DEF Metadata
<1>10. remote' \in [Sockets -> RemoteStates] /\ remote'[s] = "closed"
       /\ \A t \in Sockets \ {s} : remote'[t] = remote[t]
  BY <1>1 DEF LinkTypeOK, RemoteStates
<1> QED BY <1>1, <1>2, <1>4, <1>7, <1>9, <1>10

LEMMA CloseKeepsRelay ==
    ASSUME LinkTypeOK, RelayInv, NEW s \in Sockets, Close(s)
    PROVE  LinkTypeOK' /\ RelayInv'
<1>1. PICK k \in Relays : k = RelayOf(s)
  BY SocketParts
<1>2. PICK n \in Nodes \cup {NoNode} : n = me[s].node
  BY DEF RelayInv, RelayTypes, Metadata
<1>3. PICK registered : registered = [nodes EXCEPT ![k][n] = NoSocket]
  OBVIOUS
<1>4. PICK after : after = [remote EXCEPT ![s] = "closed"]
  OBVIOUS
<1>5. PICK rest : rest = Unindexed(index[k], n)
  OBVIOUS
<1>6. /\ up' = [up EXCEPT ![s] = <<>>]
      /\ IF n = NoNode
         THEN /\ Write(after, Farewell(k, s))
              /\ UNCHANGED <<nodes, listeners, index, rr>>
         ELSE /\ nodes' = registered
              /\ listeners' = [listeners EXCEPT ![k] = Unlistened(listeners[k], n)]
              /\ index' = [index EXCEPT ![k] = rest]
              /\ rr' = [rr EXCEPT ![k] = ResetEmpty(rr[k], rest)]
              /\ Write(after, Also(Farewell(k, s),
                                   Also(Broadcast(Offline(n), s), Sync(k, registered, me))))
      /\ UNCHANGED client
  BY <1>1, <1>2, <1>3, <1>4, <1>5 DEF Close
<1>7. n # NoNode => n \in Nodes
  OBVIOUS
<1>8. registered \in Registry
  BY <1>3, <1>7 DEF RelayInv, RelayTypes, Registry
<1>9. PICK letters \in Letters : Write(after, letters)
  <2>1. Farewell(k, s) \in Letters
    BY FarewellType
  <2>2. CASE n = NoNode
    BY <1>6, <2>1, <2>2
  <2>3. CASE n # NoNode
    <3>1. Broadcast(Offline(n), s) \in Letters /\ Sync(k, registered, me) \in Letters
      BY <1>7, <1>8, <2>3, LettersAreSent, FrameTypes, SyncType DEF RelayInv, RelayTypes
    <3>2. Also(Broadcast(Offline(n), s), Sync(k, registered, me)) \in Letters
      BY <3>1, LettersAreSent
    <3>3. Also(Farewell(k, s), Also(Broadcast(Offline(n), s), Sync(k, registered, me))) \in Letters
      BY <2>1, <3>2, LettersAreSent
    <3> QED BY <1>6, <2>3, <3>3
  <2> QED BY <2>2, <2>3
<1>10. LinkTypeOK'
  <2>1. down' \in [Sockets -> Seq(Frames)]
    BY <1>9, WriteType
  <2>2. up' \in [Sockets -> Seq(Frames)]
    <3>1. <<>> \in Seq(Frames)
      OBVIOUS
    <3> QED BY <1>6, <3>1 DEF LinkTypeOK
  <2> QED BY <1>1, <1>6, <2>1, <2>2, CloseEffect DEF LinkTypeOK
<1>11. PICK ix \in [Services -> Seq(Nodes)] :
          ix = index[k] /\ \A v \in Services : IsInjective(ix[v])
  BY DEF RelayInv, RelayTypes
<1>12. n # NoNode => /\ rest \in [Services -> Seq(Nodes)] /\ \A v \in Services : IsInjective(rest[v])
                     /\ \A v \in Services : \A x : Has(rest[v], x) <=> Has(ix[v], x) /\ x # n
  BY <1>5, <1>7, <1>11, IndexTypes
<1>13. RelayTypes'
  <2>1. index' \in [Relays -> [Services -> Seq(Nodes)]]
    BY <1>6, <1>12 DEF RelayInv, RelayTypes
  <2>2. \A h \in Relays, v \in Services : IsInjective(index'[h][v])
    <3> SUFFICES ASSUME NEW h \in Relays, NEW v \in Services PROVE IsInjective(index'[h][v])
      OBVIOUS
    <3>1. h # k \/ n = NoNode => index'[h][v] = index[h][v]
      BY <1>6 DEF RelayInv, RelayTypes
    <3>2. h = k /\ n # NoNode => index'[h][v] = rest[v]
      BY <1>6 DEF RelayInv, RelayTypes
    <3> QED BY <1>12, <3>1, <3>2 DEF RelayInv, RelayTypes
  <2>3. rr' \in [Relays -> [Services -> -1..(Cardinality(Nodes) - 1)]]
    <3>1. rr[k] \in [Services -> -1..(Cardinality(Nodes) - 1)]
      BY DEF RelayInv, RelayTypes
    <3>2. PICK robin \in [Services -> -1..(Cardinality(Nodes) - 1)] :
             robin = ResetEmpty(rr[k], rest)
      BY <3>1, ResetType
    <3> QED BY <1>6, <3>2 DEF RelayInv, RelayTypes
  <2>4. listeners' \in [Relays -> [Topics -> SUBSET Nodes]]
    <3>1. Unlistened(listeners[k], n) \in [Topics -> SUBSET Nodes]
      BY DEF Unlistened, RelayInv, RelayTypes
    <3> QED BY <1>6, <3>1 DEF RelayInv, RelayTypes
  <2>5. nodes' \in Registry
    BY <1>6, <1>8 DEF RelayInv, RelayTypes
  <2>6. me' \in Metadata
        /\ pending' \in [Relays -> [Requests -> [caller : Sockets \cup {NoSocket},
                                                  provider : Sockets \cup {NoSocket}]]]
    BY <1>1, CloseEffect
  <2> QED BY <2>1, <2>2, <2>3, <2>4, <2>5, <2>6 DEF RelayTypes
<1>14. \A h \in Relays, x \in Nodes :
          nodes'[h][x] = IF n # NoNode /\ h = k /\ x = n THEN NoSocket ELSE nodes[h][x]
  BY <1>3, <1>6, <1>7 DEF RelayInv, RelayTypes, Registry
<1>15. ASSUME NEW h \in Relays, NEW x \in Nodes, nodes'[h][x] # NoSocket
       PROVE  /\ nodes'[h][x] = nodes[h][x] /\ LiveAt(nodes[h][x], h)
              /\ me[nodes[h][x]].node = x /\ nodes[h][x] # s
  <2>1. nodes'[h][x] = nodes[h][x] /\ ~(n # NoNode /\ h = k /\ x = n)
    BY <1>14, <1>15
  <2>2. LiveAt(nodes[h][x], h) /\ me[nodes[h][x]].node = x
    BY <1>15, <2>1 DEF RelayInv, Registered
  <2>3. nodes[h][x] # s
    BY <1>1, <1>2, <2>1, <2>2, WsLinkAssumption DEF LiveAt
  <2> QED BY <2>1, <2>2, <2>3
<1>16. Registered'
  <2> SUFFICES ASSUME NEW h \in Relays, NEW x \in Nodes, nodes'[h][x] # NoSocket
               PROVE  LiveAt(nodes[h][x], h)' /\ me'[nodes'[h][x]].node = x
    BY DEF Registered
  <2>1. PICK t \in Sockets \ {s} : t = nodes[h][x] /\ nodes'[h][x] = t /\ RelayOf(t) = h
                                   /\ remote[t] = "open" /\ me[t].node = x
    BY <1>15 DEF LiveAt
  <2>2. remote'[t] = remote[t] /\ me'[t] = me[t]
    BY <1>1, CloseEffect
  <2> QED BY <2>1, <2>2 DEF LiveAt
<1>17. PendingSound'
  <2> SUFFICES ASSUME NEW h \in Relays, NEW r \in Requests, pending'[h][r] # NoEntry
               PROVE  LiveAt(pending[h][r].caller, h)' /\ LiveAt(pending[h][r].provider, h)'
    BY DEF PendingSound
  <2>1. pending'[h][r] = pending[h][r] /\ (h = k => r \notin Involved(k, s))
    <3>1. /\ \A g \in Relays \ {k}, q \in Requests : pending'[g][q] = pending[g][q]
          /\ \A q \in Requests : \/ q \in Involved(k, s) /\ pending'[k][q] = NoEntry
                                 \/ q \notin Involved(k, s) /\ pending'[k][q] = pending[k][q]
      BY <1>1, ClosePending
    <3>2. CASE h # k
      BY <3>1, <3>2
    <3>3. CASE h = k
      BY <3>1, <3>3
    <3> QED BY <3>2, <3>3
  <2>2. LiveAt(pending[h][r].caller, h) /\ LiveAt(pending[h][r].provider, h)
    BY <2>1 DEF RelayInv, PendingSound
  <2>3. pending[h][r].caller # s /\ pending[h][r].provider # s
    BY <1>1, <2>1, <2>2 DEF Involved, LiveAt
  <2>4. \A t \in Sockets \ {s} : remote'[t] = remote[t]
    BY <1>1, CloseEffect
  <2> QED BY <2>1, <2>2, <2>3, <2>4 DEF LiveAt
<1>18. IndexSound'
  <2> SUFFICES ASSUME NEW h \in Relays, NEW v \in Services, NEW x \in Nodes
               PROVE  Has(index'[h][v], x)
                        <=> nodes'[h][x] # NoSocket /\ v \in me'[nodes'[h][x]].services
    BY DEF IndexSound, Has
  <2>1. Has(index[h][v], x) <=> nodes[h][x] # NoSocket /\ v \in me[nodes[h][x]].services
    BY DEF RelayInv, IndexSound
  <2>2. nodes'[h][x] # NoSocket =>
           nodes'[h][x] = nodes[h][x] /\ me'[nodes[h][x]] = me[nodes[h][x]]
    BY <1>1, <1>15, CloseEffect DEF LiveAt
  <2>3. CASE n # NoNode /\ h = k
    <3>1. index'[h][v] = rest[v] /\ ix[v] = index[h][v]
      BY <1>6, <1>11, <2>3 DEF RelayInv, RelayTypes
    <3>2. Has(rest[v], x) <=> Has(ix[v], x) /\ x # n
      BY <1>12, <2>3
    <3>3. x # n => nodes'[h][x] = nodes[h][x]
      BY <1>14
    <3>4. x = n => nodes'[h][x] = NoSocket
      BY <1>14, <2>3
    <3> QED BY <2>1, <2>2, <3>1, <3>2, <3>3, <3>4
  <2>4. CASE ~(n # NoNode /\ h = k)
    <3>1. index'[h][v] = index[h][v] /\ nodes'[h][x] = nodes[h][x]
      BY <1>6, <1>14, <2>4 DEF RelayInv, RelayTypes
    <3> QED BY <2>1, <2>2, <3>1
  <2> QED BY <2>3, <2>4
<1> QED BY <1>10, <1>13, <1>16, <1>17, <1>18 DEF RelayInv

LEMMA CrashKeepsRelay ==
    ASSUME LinkTypeOK, RelayInv, NEW k \in Relays, Crash(k)
    PROVE  LinkTypeOK' /\ RelayInv'
<1>1. LinkTypeOK'
  <2>1. \A s \in Sockets : remote'[s] \in RemoteStates /\ up'[s] \in Seq(Frames)
    BY DEF Crash, LinkTypeOK, RemoteStates
  <2>2. DOMAIN remote' = Sockets /\ DOMAIN up' = Sockets
    BY DEF Crash
  <2>3. remote' = [s \in Sockets |-> remote'[s]] /\ up' = [s \in Sockets |-> up'[s]]
    BY DEF Crash
  <2> QED BY <2>1, <2>3 DEF Crash, LinkTypeOK
<1>2. \A s \in Sockets : RelayOf(s) # k => remote'[s] = remote[s] /\ me'[s] = me[s]
  BY DEF Crash
<1>4. RelayTypes'
  <2>1. me' \in Metadata
    BY DEF Crash, RelayInv, RelayTypes, Metadata, Nobody
  <2>2. nodes' \in Registry
    BY DEF Crash, RelayInv, RelayTypes, Registry
  <2>3. listeners' \in [Relays -> [Topics -> SUBSET Nodes]]
    BY DEF Crash, RelayInv, RelayTypes
  <2>4. index' \in [Relays -> [Services -> Seq(Nodes)]]
    BY DEF Crash, RelayInv, RelayTypes
  <2>5. \A h \in Relays, v \in Services : IsInjective(index'[h][v])
    <3>1. IsInjective(<<>>)
      BY DEF IsInjective
    <3>2. \A h \in Relays, v \in Services : index'[h][v] = index[h][v] \/ index'[h][v] = <<>>
      BY DEF Crash, RelayInv, RelayTypes
    <3> QED BY <3>1, <3>2 DEF RelayInv, RelayTypes
  <2>6. rr' \in [Relays -> [Services -> -1..(Cardinality(Nodes) - 1)]]
    <3>1. PICK robin : robin = [v \in Services |-> -1]
      OBVIOUS
    <3>2. -1 \in -1..(Cardinality(Nodes) - 1)
      BY WsLinkAssumption, FS_CardinalityType
    <3>3. robin \in [Services -> -1..(Cardinality(Nodes) - 1)]
      BY <3>1, <3>2
    <3>4. rr' = [rr EXCEPT ![k] = robin]
      BY <3>1 DEF Crash
    <3> QED BY <3>3, <3>4 DEF RelayInv, RelayTypes
  <2>7. pending' \in [Relays -> [Requests -> [caller : Sockets \cup {NoSocket},
                                               provider : Sockets \cup {NoSocket}]]]
    BY DEF Crash, RelayInv, RelayTypes, NoEntry
  <2> QED BY <2>1, <2>2, <2>3, <2>4, <2>5, <2>6, <2>7 DEF RelayTypes
<1>5. Registered'
  <2> SUFFICES ASSUME NEW h \in Relays, NEW x \in Nodes, nodes'[h][x] # NoSocket
               PROVE  LiveAt(nodes[h][x], h)' /\ me'[nodes'[h][x]].node = x
    BY DEF Registered
  <2>1. h # k /\ nodes'[h][x] = nodes[h][x]
    BY DEF Crash, RelayInv, RelayTypes, Registry
  <2>2. LiveAt(nodes[h][x], h) /\ me[nodes[h][x]].node = x
    BY <2>1 DEF RelayInv, Registered
  <2> QED BY <1>2, <2>1, <2>2 DEF LiveAt
<1>6. PendingSound'
  <2> SUFFICES ASSUME NEW h \in Relays, NEW r \in Requests, pending'[h][r] # NoEntry
               PROVE  LiveAt(pending[h][r].caller, h)' /\ LiveAt(pending[h][r].provider, h)'
    BY DEF PendingSound
  <2>1. h # k /\ pending'[h][r] = pending[h][r]
    BY DEF Crash, RelayInv, RelayTypes
  <2>2. LiveAt(pending[h][r].caller, h) /\ LiveAt(pending[h][r].provider, h)
    BY <2>1 DEF RelayInv, PendingSound
  <2> QED BY <1>2, <2>1, <2>2 DEF LiveAt
<1>7. IndexSound'
  <2> SUFFICES ASSUME NEW h \in Relays, NEW v \in Services, NEW x \in Nodes
               PROVE  Has(index'[h][v], x)
                        <=> nodes'[h][x] # NoSocket /\ v \in me'[nodes'[h][x]].services
    BY DEF IndexSound, Has
  <2>1. CASE h = k
    <3>1. nodes'[h][x] = NoSocket /\ index'[h][v] = <<>>
      BY <2>1 DEF Crash, RelayInv, RelayTypes, Registry
    <3> QED BY <3>1 DEF Has
  <2>2. CASE h # k
    <3>1. nodes'[h][x] = nodes[h][x] /\ index'[h][v] = index[h][v]
      BY <2>2 DEF Crash, RelayInv, RelayTypes, Registry
    <3>2. nodes[h][x] # NoSocket => LiveAt(nodes[h][x], h)
      BY DEF RelayInv, Registered
    <3>3. nodes[h][x] # NoSocket => me'[nodes[h][x]] = me[nodes[h][x]]
      BY <1>2, <2>2, <3>2 DEF LiveAt
    <3>4. Has(index[h][v], x) <=> nodes[h][x] # NoSocket /\ v \in me[nodes[h][x]].services
      BY DEF RelayInv, IndexSound
    <3> QED BY <3>1, <3>3, <3>4
  <2> QED BY <2>1, <2>2
<1> QED BY <1>1, <1>4, <1>5, <1>6, <1>7 DEF RelayInv

LEMMA RelayKeepsRelay ==
    ASSUME LinkTypeOK, RelayInv, RelayStep
    PROVE  LinkTypeOK' /\ RelayInv'
  BY AcceptKeepsRelay, CloseKeepsRelay, OnHelloKeepsRelay, OnResponseKeepsRelay,
     OnRequestKeepsRelay, OnCancelKeepsRelay, OnSubscribeKeepsRelay, OnUnsubscribeKeepsRelay,
     OnPublishKeepsRelay, CrashKeepsRelay DEF RelayStep, OnMessage

\* No step of a node touches what a relay keeps.
LEMMA NodeKeepsRelay ==
    ASSUME RelayInv, UNCHANGED <<remote, relayVars>>
    PROVE  RelayInv'
  BY MapsStay

LEMMA NodeLeavesRemote ==
    ASSUME NEW n \in Nodes, NodeStep(n)
    PROVE  UNCHANGED remote
  BY DEF NodeStep, Connect, Reconnect, Dial, Opened, Lost, CloseUrl, HelloArrives, OfflineArrives,
         ResponseArrives, RequestArrives, CancelArrives, PublishArrives, Announce, Send, Resolve,
         CancelCall, Reply, Listen, Unlisten, LingerEnds, PublishTo, linkVars

-----------------------------------------------------------------------------
(* The transporters of the nodes.                                          *)

Live == {"connecting", "open"}

\* The loop of a relay and its socket agree, and nothing is written before a socket is open.
ConnSound ==
    /\ \A n \in Nodes, k \in Relays :
          IF conn[n][k].phase \in Live
          THEN /\ conn[n][k].socket \in Sockets
               /\ Owner(conn[n][k].socket) = n /\ RelayOf(conn[n][k].socket) = k
               /\ client[conn[n][k].socket] = conn[n][k].phase
          ELSE conn[n][k].socket = NoSocket
    /\ \A s \in Sockets : client[s] \in Live => conn[Owner(s)][RelayOf(s)].socket = s
    /\ \A s \in Sockets : client[s] = "unused" => remote[s] = "unused"
    /\ \A s \in Sockets : client[s] \in {"unused", "connecting"} => up[s] = <<>>

NodeInv == NodeTypes /\ ConnSound

LEMMA OpenSocketsOpen ==
    ASSUME NodeInv, NEW n \in Nodes
    PROVE  /\ \A s \in OpenSockets(n) : /\ s \in Sockets /\ Owner(s) = n /\ client[s] = "open"
                                        /\ conn[n][RelayOf(s)].phase = "open"
                                        /\ conn[n][RelayOf(s)].socket = s
           /\ \A s \in Sockets : Owner(s) = n /\ client[s] = "open" => s \in OpenSockets(n)
<1>1. ASSUME NEW s \in OpenSockets(n)
      PROVE  /\ s \in Sockets /\ Owner(s) = n /\ client[s] = "open"
             /\ conn[n][RelayOf(s)].phase = "open" /\ conn[n][RelayOf(s)].socket = s
  <2>1. PICK k \in Relays : conn[n][k].phase = "open" /\ s = conn[n][k].socket
    BY DEF OpenSockets, Connected
  <2> QED BY <2>1 DEF NodeInv, ConnSound, Live
<1>2. ASSUME NEW s \in Sockets, Owner(s) = n, client[s] = "open" PROVE s \in OpenSockets(n)
  <2>1. PICK k \in Relays : k = RelayOf(s)
    BY SocketParts
  <2>2. conn[n][k].socket = s
    BY <1>2, <2>1 DEF NodeInv, ConnSound, Live
  <2>3. conn[n][k].phase \in Live
    BY <2>2, SocketParts DEF NodeInv, ConnSound
  <2>4. conn[n][k].phase = "open"
    BY <1>2, <2>2, <2>3 DEF NodeInv, ConnSound
  <2> QED BY <2>2, <2>4 DEF OpenSockets, Connected
<1> QED BY <1>1, <1>2

\* The sockets a frame may be sent on.
LEMMA RpcSocketsOpen ==
    ASSUME NodeInv, NEW n \in Nodes, NEW d \in Nodes \cup {NoNode}, NEW s \in RpcSockets(n, d)
    PROVE  s \in OpenSockets(n)
  BY DEF RpcSockets, OpenSockets

LEMMA SendAllType ==
    ASSUME LinkTypeOK, NodeInv, NEW n \in Nodes, NEW frames \in Seq(Frames), SendAll(n, frames)
    PROVE  /\ up' \in [Sockets -> Seq(Frames)]
           /\ \A s \in Sockets : up'[s] = IF Owner(s) = n /\ client[s] = "open" /\ remote[s] = "open"
                                          THEN up[s] \o frames ELSE up[s]
<1>1. \A s \in Sockets : up[s] \in Seq(Frames) /\ up[s] \o frames \in Seq(Frames)
  BY ConcatProperties DEF LinkTypeOK
<1>2. \A s \in Sockets : s \in OpenSockets(n) <=> Owner(s) = n /\ client[s] = "open"
  BY OpenSocketsOpen
<1> QED BY <1>1, <1>2 DEF SendAll

LEMMA SendOnType ==
    ASSUME LinkTypeOK, NEW s \in Sockets, NEW f \in Frames, SendOn(s, f)
    PROVE  /\ up' \in [Sockets -> Seq(Frames)]
           /\ up'[s] = IF client[s] = "open" /\ remote[s] = "open" THEN Append(up[s], f) ELSE up[s]
           /\ \A t \in Sockets \ {s} : up'[t] = up[t]
<1>1. Append(up[s], f) \in Seq(Frames)
  BY AppendProperties DEF LinkTypeOK
<1> QED BY <1>1 DEF SendOn, LinkTypeOK

\* A socket of the node has a frame to read.
LEMMA ReceivesType ==
    ASSUME LinkTypeOK, NodeInv, NEW n \in Nodes, NEW k \in Relays, NEW type, Receives(n, k, type)
    PROVE  /\ conn[n][k].socket \in Sockets /\ Owner(conn[n][k].socket) = n
           /\ RelayOf(conn[n][k].socket) = k /\ client[conn[n][k].socket] = "open"
           /\ down[conn[n][k].socket] # <<>>
           /\ Packet(n, k) = Head(down[conn[n][k].socket])
           /\ Packet(n, k) \in Frames /\ Packet(n, k).type = type
           /\ down' \in [Sockets -> Seq(Frames)]
           /\ down' = [down EXCEPT ![conn[n][k].socket] = Tail(down[conn[n][k].socket])]
<1>1. PICK s : s = conn[n][k].socket
  OBVIOUS
<1>2. /\ conn[n][k].phase = "open" /\ down[s] # <<>> /\ Head(down[s]).type = type
      /\ down' = [down EXCEPT ![s] = Tail(down[s])]
  BY <1>1 DEF Receives
<1>3. s \in Sockets /\ Owner(s) = n /\ RelayOf(s) = k /\ client[s] = "open"
  BY <1>1, <1>2 DEF NodeInv, ConnSound, Live
<1>4. down[s] \in Seq(Frames)
  BY <1>3 DEF LinkTypeOK
<1>5. Head(down[s]) \in Frames /\ Tail(down[s]) \in Seq(Frames)
  BY <1>2, <1>4, HeadTailProperties
<1>6. down' \in [Sockets -> Seq(Frames)]
  BY <1>2, <1>3, <1>5 DEF LinkTypeOK
<1> QED BY <1>1, <1>2, <1>3, <1>5, <1>6 DEF Packet

\* Connections stay as they are, and frames are sent on open sockets or lost at the relay.
LEMMA ConnStays ==
    ASSUME ConnSound, UNCHANGED <<conn, client>>,
           \A s \in Sockets : remote'[s] = remote[s] \/ client[s] # "unused",
           \A s \in Sockets : up'[s] = up[s] \/ client[s] \notin {"unused", "connecting"}
    PROVE  ConnSound'
<1>1. \A s \in Sockets : client'[s] = "unused" => remote'[s] = "unused"
  BY DEF ConnSound
<1>2. \A s \in Sockets : client'[s] \in {"unused", "connecting"} => up'[s] = <<>>
  BY DEF ConnSound
<1> QED BY <1>1, <1>2 DEF ConnSound

\* The socket of a loop changes with its phase.
LEMMA ConnMoves ==
    ASSUME NodeInv, LinkTypeOK, NEW n \in Nodes, NEW k \in Relays, NEW s \in Sockets,
           Owner(s) = n, RelayOf(s) = k, NEW phase, NEW state, NEW x,
           conn' = [conn EXCEPT ![n][k] = [phase |-> phase, socket |-> x]],
           client' = [client EXCEPT ![s] = state],
           phase \in Live => (x = s /\ state = phase),
           phase \notin Live => (x = NoSocket /\ state = "closed"),
           conn[n][k].socket \in {NoSocket, s},
           state = "connecting" => (up[s] = <<>> /\ client[s] # "open"),
           UNCHANGED remote,
           \A t \in Sockets : (up'[t] = up[t]) \/ (client[t] = "open") \/ (t = s /\ state = "open")
    PROVE  ConnSound'
<1>1. /\ conn'[n][k] = [phase |-> phase, socket |-> x]
      /\ \A m \in Nodes, h \in Relays : m # n \/ h # k => conn'[m][h] = conn[m][h]
  BY DEF NodeInv, NodeTypes
<1>2. client'[s] = state /\ \A t \in Sockets \ {s} : client'[t] = client[t]
  BY DEF LinkTypeOK
<1>3. ASSUME NEW m \in Nodes, NEW h \in Relays
      PROVE  IF conn'[m][h].phase \in Live
             THEN /\ conn'[m][h].socket \in Sockets
                  /\ Owner(conn'[m][h].socket) = m /\ RelayOf(conn'[m][h].socket) = h
                  /\ client'[conn'[m][h].socket] = conn'[m][h].phase
             ELSE conn'[m][h].socket = NoSocket
  <2>1. CASE m = n /\ h = k
    <3>1. CASE phase \in Live
      BY <1>1, <1>2, <2>1, <3>1
    <3>2. CASE phase \notin Live
      BY <1>1, <2>1, <3>2
    <3> QED BY <3>1, <3>2
  <2>2. CASE m # n \/ h # k
    <3>1. conn'[m][h] = conn[m][h]
      BY <1>1, <2>2
    <3>2. CASE conn[m][h].phase \in Live
      <4>1. PICK t \in Sockets : /\ t = conn[m][h].socket /\ Owner(t) = m /\ RelayOf(t) = h
                                 /\ client[t] = conn[m][h].phase
        BY <3>2 DEF NodeInv, ConnSound
      <4>2. t # s
        BY <2>2, <4>1
      <4> QED BY <1>2, <3>1, <3>2, <4>1, <4>2
    <3>3. CASE conn[m][h].phase \notin Live
      BY <3>1, <3>3 DEF NodeInv, ConnSound
    <3> QED BY <3>2, <3>3
  <2> QED BY <2>1, <2>2
<1>4. ASSUME NEW t \in Sockets, client'[t] \in Live PROVE conn'[Owner(t)][RelayOf(t)].socket = t
  <2>1. CASE t = s
    <3>1. phase \in Live
      BY <1>2, <1>4, <2>1 DEF Live
    <3>2. x = s
      BY <3>1 DEF Live
    <3> QED BY <1>1, <2>1, <3>2
  <2>2. CASE t # s
    <3>1. client[t] \in Live
      BY <1>2, <1>4, <2>2
    <3>2. conn[Owner(t)][RelayOf(t)].socket = t
      BY <3>1 DEF NodeInv, ConnSound
    <3>3. ~(Owner(t) = n /\ RelayOf(t) = k)
      BY <2>2, <3>2, SocketParts
    <3>4. Owner(t) \in Nodes /\ RelayOf(t) \in Relays
      BY SocketParts
    <3> QED BY <1>1, <3>2, <3>3, <3>4
  <2> QED BY <2>1, <2>2
<1>5. \A t \in Sockets : client'[t] = "unused" => remote'[t] = "unused"
  BY <1>2 DEF NodeInv, ConnSound, Live
<1>6. ASSUME NEW t \in Sockets, client'[t] \in {"unused", "connecting"} PROVE up'[t] = <<>>
  <2>1. CASE t = s
    <3>1. state = "connecting"
      BY <1>2, <1>6, <2>1 DEF Live
    <3> QED BY <2>1, <3>1
  <2>2. CASE t # s
    BY <1>2, <1>6, <2>2 DEF NodeInv, ConnSound
  <2> QED BY <2>1, <2>2
<1> QED BY <1>3, <1>4, <1>5, <1>6 DEF ConnSound

\* What a node announces.
LEMMA AnnouncementType ==
    ASSUME NodeInv, NEW n \in Nodes, NEW services \in SUBSET Services
    PROVE  Announcement(n, services) \in Seq(Frames)
<1>1. Listened(n) \in SUBSET Topics
  BY DEF Listened
<1>2. Hello(n, services) \in Frames /\ Subscribe(Listened(n)) \in Frames
  BY <1>1, FrameTypes
<1> QED BY <1>2, ConcatProperties DEF Announcement, LocalHello

LEMMA DialKeeps ==
    ASSUME LinkTypeOK, NodeInv, NEW n \in Nodes, NEW k \in Relays, conn[n][k].phase \notin Live,
           Dial(n, k)
    PROVE  LinkTypeOK' /\ NodeInv'
<1>1. PICK F : F = Fresh(n, k)
  OBVIOUS
<1>2. PICK j : j = Min(F)
  OBVIOUS
<1>3. PICK s : s = <<n, k, j>>
  OBVIOUS
<1>4. /\ F # {} /\ client' = [client EXCEPT ![s] = "connecting"]
      /\ conn' = [conn EXCEPT ![n][k] = [phase |-> "connecting", socket |-> s]]
      /\ UNCHANGED <<remote, up, down, local, known, reach, inflight, call, serving, topic>>
  BY <1>1, <1>2, <1>3 DEF Dial, CreateSocket, SetConnection
<1>5. F \subseteq Nat
  BY <1>1, WsLinkAssumption DEF Fresh
<1>6. j \in F
  <2>1. PICK m \in Nat : m = MaxSockets[n]
    BY WsLinkAssumption
  <2>2. F \in SUBSET (1..m)
    BY <1>1, <2>1 DEF Fresh
  <2>3. IsFiniteSet(1..m)
    BY FS_Interval
  <2>4. IsFiniteSet(F) /\ F \in SUBSET Nat
    BY <1>5, <2>2, <2>3, FS_Subset
  <2> QED BY <1>2, <1>4, <2>4, LeastExists
<1>7. j \in 1..MaxSockets[n] /\ client[s] = "unused"
  BY <1>1, <1>3, <1>6 DEF Fresh
<1>8. s \in Sockets /\ Owner(s) = n /\ RelayOf(s) = k
  BY <1>3, <1>7 DEF Sockets, Owner, RelayOf
<1>9. conn[n][k].socket = NoSocket /\ up[s] = <<>>
  BY <1>7, <1>8 DEF NodeInv, ConnSound
<1>10. ConnSound'
  BY <1>4, <1>7, <1>8, <1>9, ConnMoves DEF Live
<1>11. [phase |-> "connecting", socket |-> s]
          \in [phase : {"off", "waiting", "connecting", "open"}, socket : Sockets \cup {NoSocket}]
  BY <1>8
<1>12. NodeTypes'
  BY <1>4, <1>11 DEF NodeInv, NodeTypes
<1>13. LinkTypeOK'
  BY <1>4, <1>8 DEF LinkTypeOK, ClientStates
<1> QED BY <1>10, <1>12, <1>13 DEF NodeInv

LEMMA OpenedKeeps ==
    ASSUME LinkTypeOK, NodeInv, NEW n \in Nodes, NEW k \in Relays, Opened(n, k)
    PROVE  LinkTypeOK' /\ NodeInv'
<1>1. PICK s : s = conn[n][k].socket
  OBVIOUS
<1>2. PICK frames : frames = Announcement(n, local[n].services)
  OBVIOUS
<1>3. PICK open : open = OpenSockets(n) \cup {s}
  OBVIOUS
<1>4. /\ conn[n][k].phase = "connecting" /\ remote[s] # "unused"
      /\ client' = [client EXCEPT ![s] = "open"]
      /\ conn' = [conn EXCEPT ![n][k] = [phase |-> "open", socket |-> s]]
      /\ up' = [t \in Sockets |-> IF t \in open /\ remote[t] = "open"
                                  THEN up[t] \o frames ELSE up[t]]
      /\ UNCHANGED <<remote, down, local, known, reach, inflight, call, serving, topic>>
  BY <1>1, <1>2, <1>3 DEF Opened, SetConnection
<1>5. s \in Sockets /\ Owner(s) = n /\ RelayOf(s) = k /\ client[s] = "connecting"
  BY <1>1, <1>4 DEF NodeInv, ConnSound, Live
<1>6. frames \in Seq(Frames)
  BY <1>2, AnnouncementType DEF NodeInv, NodeTypes
<1>7. \A t \in Sockets : up[t] \in Seq(Frames) /\ up[t] \o frames \in Seq(Frames)
  BY <1>6, ConcatProperties DEF LinkTypeOK
<1>8. up' \in [Sockets -> Seq(Frames)]
  BY <1>4, <1>7
<1>9. \A t \in Sockets :
         (up'[t] = up[t]) \/ (client[t] = "open") \/ (t = s /\ "open" = "open")
  BY <1>3, <1>4, OpenSocketsOpen
<1>10. ConnSound'
  <2>1. conn[n][k].socket \in {NoSocket, s} /\ UNCHANGED remote
    BY <1>1, <1>4
  <2>2. "open" \in Live
    BY DEF Live
  <2> QED BY <1>4, <1>5, <1>9, <2>1, <2>2, ConnMoves
<1>11. [phase |-> "open", socket |-> s]
          \in [phase : {"off", "waiting", "connecting", "open"}, socket : Sockets \cup {NoSocket}]
  BY <1>5
<1>12. NodeTypes'
  BY <1>4, <1>11 DEF NodeInv, NodeTypes
<1>13. LinkTypeOK'
  BY <1>4, <1>5, <1>8 DEF LinkTypeOK, ClientStates
<1> QED BY <1>10, <1>12, <1>13 DEF NodeInv

CallRecords == [phase : {"idle", "sending", "sent", "answered", "cancelled",
                         "disconnected", "offline"},
                destination : Nodes \cup {NoNode},
                socket : Sockets \cup {NoSocket}, raced : BOOLEAN]

Phases == {"idle", "sending", "sent", "answered", "cancelled", "disconnected", "offline"}

LEMMA CallChanges ==
    ASSUME NodeTypes, NEW r \in Requests
    PROVE  /\ call \in [Requests -> CallRecords]
           /\ \A phase \in Phases : [call EXCEPT ![r].phase = phase] \in [Requests -> CallRecords]
           /\ \A d \in Nodes \cup {NoNode} :
                 [call EXCEPT ![r].destination = d] \in [Requests -> CallRecords]
<1>1. call \in [Requests -> CallRecords]
  BY DEF NodeTypes, CallRecords
<1>2. PICK c \in CallRecords : c = call[r]
  BY <1>1
<1>3. /\ \A phase \in Phases : [c EXCEPT !.phase = phase] \in CallRecords
      /\ \A d \in Nodes \cup {NoNode} : [c EXCEPT !.destination = d] \in CallRecords
  BY DEF CallRecords, Phases
<1>4. ASSUME NEW e \in CallRecords PROVE [call EXCEPT ![r] = e] \in [Requests -> CallRecords]
  BY <1>1
<1>5. /\ \A phase \in Phases :
            [call EXCEPT ![r].phase = phase] = [call EXCEPT ![r] = [c EXCEPT !.phase = phase]]
      /\ \A d \in Nodes \cup {NoNode} :
            [call EXCEPT ![r].destination = d] = [call EXCEPT ![r] = [c EXCEPT !.destination = d]]
  BY <1>2
<1> QED BY <1>1, <1>3, <1>4, <1>5

\* What finalize() leaves of the calls.
LEMMA FinalizedTypes ==
    ASSUME LinkTypeOK, NodeInv, NEW s \in Sockets, Finalized(s)
    PROVE  /\ client' = [client EXCEPT ![s] = "closed"]
           /\ client' \in [Sockets -> ClientStates] /\ down' \in [Sockets -> Seq(Frames)]
           /\ inflight' \in [Requests -> Sockets \cup {NoSocket}]
           /\ call' \in [Requests -> CallRecords]
<1>1. client' = [client EXCEPT ![s] = "closed"] /\ down' = [down EXCEPT ![s] = <<>>]
  BY DEF Finalized, Disconnected
<1>2. client' \in [Sockets -> ClientStates] /\ down' \in [Sockets -> Seq(Frames)]
  BY <1>1, EmptySeq DEF LinkTypeOK, ClientStates
<1>3. inflight' \in [Requests -> Sockets \cup {NoSocket}]
  BY DEF Finalized, FailInflight, NodeInv, NodeTypes
<1>4. \A c \in CallRecords : /\ [c EXCEPT !.phase = "disconnected"] \in CallRecords
                             /\ [c EXCEPT !.raced = TRUE] \in CallRecords
  BY DEF CallRecords
<1>5. \A r \in Requests : call[r] \in CallRecords
  BY DEF NodeInv, NodeTypes, CallRecords
<1>6. call' = [r \in Requests |->
                  IF r \in Carried(s) /\ call[r].phase = "sent"
                  THEN [call[r] EXCEPT !.phase = "disconnected"]
                  ELSE IF call[r].phase = "sending" /\ call[r].socket = s
                  THEN [call[r] EXCEPT !.raced = TRUE]
                  ELSE call[r]]
  BY DEF Finalized, FailInflight
<1> QED BY <1>1, <1>2, <1>3, <1>4, <1>5, <1>6

LEMMA LostKeeps ==
    ASSUME LinkTypeOK, NodeInv, NEW n \in Nodes, NEW k \in Relays, Lost(n, k)
    PROVE  LinkTypeOK' /\ NodeInv'
<1>1. PICK s : s = conn[n][k].socket
  OBVIOUS
<1>2. /\ conn[n][k].phase \in Live /\ Finalized(s) /\ ReportUnreachable(n, k)
      /\ conn' = [conn EXCEPT ![n][k] = [phase |-> "waiting", socket |-> NoSocket]]
      /\ UNCHANGED <<remote, up, local, known, serving, topic>>
  BY <1>1 DEF Lost, SetConnection, Live
<1>3. s \in Sockets /\ Owner(s) = n /\ RelayOf(s) = k
  BY <1>1, <1>2 DEF NodeInv, ConnSound
<1>4. ConnSound'
  BY <1>1, <1>2, <1>3, FinalizedTypes, ConnMoves DEF Live
<1>5. [phase |-> "waiting", socket |-> NoSocket]
          \in [phase : {"off", "waiting", "connecting", "open"}, socket : Sockets \cup {NoSocket}]
  OBVIOUS
<1>6. conn' \in [Nodes -> [Relays -> [phase : {"off", "waiting", "connecting", "open"},
                                      socket : Sockets \cup {NoSocket}]]]
  BY <1>2, <1>5 DEF NodeInv, NodeTypes
<1>7. reach' \in [Nodes -> [Nodes -> {"none", "reachable", "unreachable"}]]
  BY <1>2 DEF ReportUnreachable, NodeInv, NodeTypes
<1>8. NodeTypes'
  BY <1>2, <1>3, <1>6, <1>7, FinalizedTypes DEF NodeInv, NodeTypes, CallRecords
<1>9. LinkTypeOK'
  BY <1>2, <1>3, FinalizedTypes DEF LinkTypeOK
<1> QED BY <1>4, <1>8, <1>9 DEF NodeInv

LEMMA CloseUrlKeeps ==
    ASSUME LinkTypeOK, NodeInv, NEW n \in Nodes, NEW k \in Relays, CloseUrl(n, k)
    PROVE  LinkTypeOK' /\ NodeInv'
<1>1. PICK s : s = conn[n][k].socket
  OBVIOUS
<1>2. /\ conn' = [conn EXCEPT ![n][k] = [phase |-> "off", socket |-> NoSocket]]
      /\ local' = [local EXCEPT ![n].closes = local[n].closes + 1]
      /\ UNCHANGED <<remote, up, known, reach, serving, topic>>
      /\ IF s = NoSocket THEN UNCHANGED <<client, down, inflight, call>> ELSE Finalized(s)
  BY <1>1 DEF CloseUrl, SetConnection
<1>3. [phase |-> "off", socket |-> NoSocket]
          \in [phase : {"off", "waiting", "connecting", "open"}, socket : Sockets \cup {NoSocket}]
  OBVIOUS
<1>4. conn' \in [Nodes -> [Relays -> [phase : {"off", "waiting", "connecting", "open"},
                                      socket : Sockets \cup {NoSocket}]]]
  BY <1>2, <1>3 DEF NodeInv, NodeTypes
<1>5. local' \in [Nodes -> [services : SUBSET Services, speaks : Nat, closes : Nat]]
  <2>1. PICK c \in Nat : c = local[n].closes + 1
    BY DEF NodeInv, NodeTypes
  <2>2. local \in [Nodes -> [services : SUBSET Services, speaks : Nat, closes : Nat]]
    BY DEF NodeInv, NodeTypes
  <2>3. PICK e : e = [local[n] EXCEPT !.closes = c]
    OBVIOUS
  <2>4. e \in [services : SUBSET Services, speaks : Nat, closes : Nat]
    BY <2>1, <2>2, <2>3
  <2>5. local' = [local EXCEPT ![n] = e]
    BY <1>2, <2>1, <2>3
  <2> QED BY <2>2, <2>4, <2>5
<1>6. CASE s = NoSocket
  <2>1. conn[n][k].phase \notin Live
    BY <1>1, <1>6, SocketParts DEF NodeInv, ConnSound
  <2>2. /\ conn'[n][k] = [phase |-> "off", socket |-> NoSocket]
        /\ \A m \in Nodes, h \in Relays : m # n \/ h # k => conn'[m][h] = conn[m][h]
    BY <1>2 DEF NodeInv, NodeTypes
  <2>3. UNCHANGED <<client, remote, up>>
    BY <1>2, <1>6
  <2>4. ASSUME NEW m \in Nodes, NEW h \in Relays
        PROVE  /\ conn'[m][h].socket = conn[m][h].socket
               /\ conn'[m][h].phase \in Live <=> conn[m][h].phase \in Live
               /\ conn[m][h].phase \in Live => conn'[m][h] = conn[m][h]
    <3>1. CASE m = n /\ h = k
      <4>1. conn'[n][k].socket = NoSocket /\ conn[n][k].socket = NoSocket
        BY <1>1, <1>6, <2>2
      <4>2. conn'[m][h].phase \notin Live /\ conn[m][h].phase \notin Live
        BY <2>1, <2>2, <3>1 DEF Live
      <4> QED BY <3>1, <4>1, <4>2
    <3>2. CASE m # n \/ h # k
      BY <2>2, <3>2
    <3> QED BY <3>1, <3>2
  <2>5. \A t \in Sockets : Owner(t) \in Nodes /\ RelayOf(t) \in Relays
    BY SocketParts
  <2>6. ConnSound'
    BY <2>3, <2>4, <2>5 DEF NodeInv, ConnSound
  <2> QED BY <1>2, <1>4, <1>5, <1>6, <2>6 DEF LinkTypeOK, NodeInv, NodeTypes
<1>7. CASE s # NoSocket
  <2>1. Finalized(s) /\ conn[n][k].phase \in Live
    BY <1>1, <1>2, <1>7 DEF NodeInv, ConnSound
  <2>2. s \in Sockets /\ Owner(s) = n /\ RelayOf(s) = k
    BY <1>1, <2>1 DEF NodeInv, ConnSound
  <2>3. ConnSound'
    BY <1>1, <1>2, <2>1, <2>2, FinalizedTypes, ConnMoves DEF Live
  <2>4. NodeTypes'
    BY <1>2, <1>4, <1>5, <2>1, <2>2, FinalizedTypes DEF NodeInv, NodeTypes, CallRecords
  <2>5. LinkTypeOK'
    BY <1>2, <2>1, <2>2, FinalizedTypes DEF LinkTypeOK
  <2> QED BY <2>3, <2>4, <2>5 DEF NodeInv
<1> QED BY <1>6, <1>7

LEMMA Spoke ==
    ASSUME NodeTypes, NEW n \in Nodes
    PROVE  /\ Spoken(n) \in [Nodes -> [services : SUBSET Services, speaks : Nat, closes : Nat]]
           /\ \A services \in SUBSET Services :
                 Remembered(n, services)
                    \in [Nodes -> [services : SUBSET Services, speaks : Nat, closes : Nat]]
<1>1. PICK c \in Nat : c = local[n].speaks + 1
  BY DEF NodeTypes
<1>2. Spoken(n) = [local EXCEPT ![n].speaks = c]
  BY <1>1 DEF Spoken
<1>3. Spoken(n) \in [Nodes -> [services : SUBSET Services, speaks : Nat, closes : Nat]]
  <2>1. local \in [Nodes -> [services : SUBSET Services, speaks : Nat, closes : Nat]]
    BY DEF NodeTypes
  <2>2. PICK e : e = [local[n] EXCEPT !.speaks = c]
    OBVIOUS
  <2>3. e \in [services : SUBSET Services, speaks : Nat, closes : Nat]
    BY <1>1, <2>1, <2>2
  <2>4. Spoken(n) = [local EXCEPT ![n] = e]
    BY <1>2, <2>2
  <2> QED BY <2>1, <2>3, <2>4
<1> QED BY <1>3 DEF Remembered

\* Frames a node sends to every relay leave its connections as they are.
LEMMA SpeakingKeeps ==
    ASSUME LinkTypeOK, NodeInv, NEW n \in Nodes, NEW frames \in Seq(Frames), SendAll(n, frames),
           UNCHANGED <<client, remote, down, conn>>
    PROVE  LinkTypeOK' /\ ConnSound'
<1>1. up' \in [Sockets -> Seq(Frames)]
  BY SendAllType
<1>2. \A s \in Sockets : up'[s] = up[s] \/ client[s] \notin {"unused", "connecting"}
  BY SendAllType
<1>3. ConnSound'
  BY <1>2, ConnStays DEF NodeInv
<1> QED BY <1>1, <1>3 DEF LinkTypeOK

LEMMA SendingKeeps ==
    ASSUME LinkTypeOK, NodeInv, NEW s \in Sockets, NEW f \in Frames, SendOn(s, f),
           UNCHANGED <<client, remote, down, conn>>
    PROVE  LinkTypeOK' /\ ConnSound'
<1>1. up' \in [Sockets -> Seq(Frames)]
  BY SendOnType
<1>2. \A t \in Sockets : up'[t] = up[t] \/ client[t] \notin {"unused", "connecting"}
  BY SendOnType
<1>3. ConnSound'
  BY <1>2, ConnStays DEF NodeInv
<1> QED BY <1>1, <1>3 DEF LinkTypeOK

\* So do frames it reads.
LEMMA ReadingKeeps ==
    ASSUME LinkTypeOK, NodeInv, NEW n \in Nodes, NEW k \in Relays, NEW type, Receives(n, k, type),
           UNCHANGED <<client, remote, up, conn>>
    PROVE  LinkTypeOK' /\ ConnSound'
<1>1. down' \in [Sockets -> Seq(Frames)]
  BY ReceivesType
<1>2. ConnSound'
  BY ConnStays DEF NodeInv
<1> QED BY <1>1, <1>2 DEF LinkTypeOK

LEMMA QuietKeeps ==
    ASSUME LinkTypeOK, NodeInv, UNCHANGED <<linkVars, conn>>
    PROVE  LinkTypeOK' /\ ConnSound'
<1>1. UNCHANGED <<client, remote, up, down, conn>>
  BY DEF linkVars
<1>2. ConnSound'
  BY <1>1, ConnStays DEF NodeInv
<1> QED BY <1>1, <1>2 DEF LinkTypeOK

LEMMA OneFrame ==
    ASSUME NEW f \in Frames
    PROVE  <<f>> \in Seq(Frames)
  OBVIOUS

LEMMA SpeakingUpKeeps ==
    ASSUME LinkTypeOK, NodeInv, NEW n \in Nodes,
           \/ \E services \in SUBSET Services : Announce(n, services)
           \/ \E t \in Topics : Listen(n, t) \/ Unlisten(n, t) \/ LingerEnds(n, t)
                                \/ PublishTo(n, t)
    PROVE  LinkTypeOK' /\ NodeInv'
<1>1. ASSUME NEW services \in SUBSET Services, Announce(n, services) PROVE LinkTypeOK' /\ NodeInv'
  <2>1. PICK frames \in Seq(Frames) : frames = Announcement(n, services)
    BY AnnouncementType
  <2>2. /\ SendAll(n, frames) /\ local' = Remembered(n, services)
        /\ UNCHANGED <<client, remote, down, conn, known, reach, inflight, call, serving, topic>>
    BY <1>1, <2>1 DEF Announce
  <2>3. LinkTypeOK' /\ ConnSound'
    BY <2>2, SpeakingKeeps
  <2>4. NodeTypes'
    BY <2>2, Spoke DEF NodeInv, NodeTypes
  <2> QED BY <2>3, <2>4 DEF NodeInv
<1>2. ASSUME NEW t \in Topics, Listen(n, t) PROVE LinkTypeOK' /\ NodeInv'
  <2>1. PICK frames \in Seq(Frames) : frames = <<Subscribe(Listened(n) \cup {t})>>
    <3>1. Listened(n) \cup {t} \in SUBSET Topics
      BY DEF Listened
    <3>2. Subscribe(Listened(n) \cup {t}) \in Frames
      BY <3>1, FrameTypes
    <3> QED BY <3>2, OneFrame
  <2>2. /\ SendAll(n, frames) \/ UNCHANGED up
        /\ local' = Spoken(n) /\ topic' = [topic EXCEPT ![n][t] = "on"]
        /\ UNCHANGED <<client, remote, down, conn, known, reach, inflight, call, serving>>
    BY <1>2, <2>1 DEF Listen
  <2>3. LinkTypeOK' /\ ConnSound'
    BY <2>2, SpeakingKeeps, QuietKeeps DEF linkVars
  <2>4. NodeTypes'
    BY <2>2, Spoke DEF NodeInv, NodeTypes
  <2> QED BY <2>3, <2>4 DEF NodeInv
<1>3. ASSUME NEW t \in Topics, Unlisten(n, t) PROVE LinkTypeOK' /\ NodeInv'
  <2>1. LinkTypeOK' /\ ConnSound'
    BY <1>3, QuietKeeps DEF Unlisten
  <2>2. NodeTypes'
    BY <1>3 DEF Unlisten, NodeInv, NodeTypes
  <2> QED BY <2>1, <2>2 DEF NodeInv
<1>4. ASSUME NEW t \in Topics, LingerEnds(n, t) PROVE LinkTypeOK' /\ NodeInv'
  <2>1. PICK frames \in Seq(Frames) : frames = <<Unsubscribe(t)>>
    <3>1. Unsubscribe(t) \in Frames
      BY FrameTypes
    <3> QED BY <3>1, OneFrame
  <2>2. /\ SendAll(n, frames) /\ topic' = [topic EXCEPT ![n][t] = "none"]
        /\ UNCHANGED <<client, remote, down, conn, local, known, reach, inflight, call, serving>>
    BY <1>4, <2>1 DEF LingerEnds
  <2>3. LinkTypeOK' /\ ConnSound'
    BY <2>2, SpeakingKeeps
  <2>4. NodeTypes'
    BY <2>2 DEF NodeInv, NodeTypes
  <2> QED BY <2>3, <2>4 DEF NodeInv
<1>5. ASSUME NEW t \in Topics, PublishTo(n, t) PROVE LinkTypeOK' /\ NodeInv'
  <2>1. PICK frames \in Seq(Frames) : frames = <<Publish(t)>>
    <3>1. Publish(t) \in Frames
      BY FrameTypes
    <3> QED BY <3>1, OneFrame
  <2>2. /\ SendAll(n, frames) /\ local' = Spoken(n)
        /\ UNCHANGED <<client, remote, down, conn, known, reach, inflight, call, serving, topic>>
    BY <1>5, <2>1 DEF PublishTo
  <2>3. LinkTypeOK' /\ ConnSound'
    BY <2>2, SpeakingKeeps
  <2>4. NodeTypes'
    BY <2>2, Spoke DEF NodeInv, NodeTypes
  <2> QED BY <2>3, <2>4 DEF NodeInv
<1> QED BY <1>1, <1>2, <1>3, <1>4, <1>5

LEMMA ReadingUpKeeps ==
    ASSUME LinkTypeOK, NodeInv, NEW n \in Nodes, NEW k \in Relays,
           \/ HelloArrives(n, k) \/ OfflineArrives(n, k) \/ ResponseArrives(n, k)
           \/ RequestArrives(n, k) \/ CancelArrives(n, k) \/ PublishArrives(n, k)
    PROVE  LinkTypeOK' /\ NodeInv'
<1>1. PICK f : f = Packet(n, k)
  OBVIOUS
<1>2. CASE HelloArrives(n, k)
  <2>1. Receives(n, k, "hello") /\ UNCHANGED <<client, remote, up, conn>>
    BY <1>2 DEF HelloArrives
  <2>2. f.node \in Nodes /\ f.services \in SUBSET Services
    BY <1>1, <2>1, ReceivesType, FrameParts
  <2>3. NodeTypes'
    <3>1. PICK i \in Nodes : i = f.node
      BY <2>2
    <3>2. PICK e : e = [relay |-> k, services |-> f.services]
      OBVIOUS
    <3>3. e \in [relay : Relays \cup {NoRelay}, services : SUBSET Services]
      BY <2>2, <3>2
    <3>4. /\ known' = known \/ known' = [known EXCEPT ![n][i] = e]
          /\ reach' = reach \/ reach' = [reach EXCEPT ![n][i] = "reachable"]
          /\ UNCHANGED <<conn, local, inflight, call, serving, topic>>
      BY <1>1, <1>2, <3>1, <3>2 DEF HelloArrives
    <3>5. /\ [known EXCEPT ![n][i] = e]
               \in [Nodes -> [Nodes -> [relay : Relays \cup {NoRelay}, services : SUBSET Services]]]
          /\ [reach EXCEPT ![n][i] = "reachable"]
               \in [Nodes -> [Nodes -> {"none", "reachable", "unreachable"}]]
      BY <3>3 DEF NodeInv, NodeTypes
    <3> QED BY <3>4, <3>5 DEF NodeInv, NodeTypes
  <2> QED BY <2>1, <2>3, ReadingKeeps DEF NodeInv
<1>3. CASE OfflineArrives(n, k)
  <2>1. Receives(n, k, "offline") /\ UNCHANGED <<client, remote, up, conn>>
    BY <1>3 DEF OfflineArrives
  <2>2. PICK i \in Nodes : i = f.node
    BY <1>1, <2>1, ReceivesType, FrameParts
  <2>3. /\ known' = known \/ known' = [known EXCEPT ![n][i] = Unknown]
        /\ reach' = reach \/ reach' = [reach EXCEPT ![n][i] = "none"]
        /\ UNCHANGED <<conn, local, inflight, serving, topic>>
        /\ call' = [r \in Requests |->
                  IF CallerOf[r] = n /\ call[r].phase = "sent" /\ call[r].destination = i
                  THEN [call[r] EXCEPT !.phase = "offline"] ELSE call[r]]
    BY <1>1, <1>3, <2>2 DEF OfflineArrives
  <2>4. \A c \in CallRecords : [c EXCEPT !.phase = "offline"] \in CallRecords
    BY DEF CallRecords
  <2>5. \A r \in Requests : call[r] \in CallRecords
    BY DEF NodeInv, NodeTypes, CallRecords
  <2>6. call' \in [Requests -> CallRecords]
    BY <2>3, <2>4, <2>5
  <2>7. Unknown \in [relay : Relays \cup {NoRelay}, services : SUBSET Services]
    BY DEF Unknown
  <2>8. /\ [known EXCEPT ![n][i] = Unknown]
             \in [Nodes -> [Nodes -> [relay : Relays \cup {NoRelay}, services : SUBSET Services]]]
        /\ [reach EXCEPT ![n][i] = "none"]
             \in [Nodes -> [Nodes -> {"none", "reachable", "unreachable"}]]
    BY <2>7 DEF NodeInv, NodeTypes
  <2>9. NodeTypes'
    BY <2>3, <2>6, <2>8 DEF NodeInv, NodeTypes, CallRecords
  <2> QED BY <2>1, <2>9, ReadingKeeps DEF NodeInv
<1>4. CASE ResponseArrives(n, k)
  <2>1. Receives(n, k, "response") /\ UNCHANGED <<client, remote, up, conn>>
    BY <1>4 DEF ResponseArrives
  <2>2. f.request \in Requests /\ f.sender \in Nodes \cup {NoNode}
    BY <1>1, <2>1, ReceivesType, FrameParts
  <2>3. PICK r \in Requests : r = f.request
    BY <2>2
  <2>4. PICK d \in Nodes \cup {NoNode} : d = f.sender
    BY <2>2
  <2>5. /\ inflight' = inflight \/ inflight' = [inflight EXCEPT ![r] = NoSocket]
        /\ \/ call' = call
           \/ call' = [call EXCEPT ![r].phase = "answered"]
           \/ call' = [call EXCEPT ![r].destination = d]
        /\ UNCHANGED <<conn, local, known, reach, serving, topic>>
    BY <1>1, <1>4, <2>3, <2>4 DEF ResponseArrives
  <2>6. /\ [call EXCEPT ![r].phase = "answered"] \in [Requests -> CallRecords]
        /\ [call EXCEPT ![r].destination = d] \in [Requests -> CallRecords]
        /\ call \in [Requests -> CallRecords]
        /\ [inflight EXCEPT ![r] = NoSocket] \in [Requests -> Sockets \cup {NoSocket}]
    BY CallChanges DEF NodeInv, NodeTypes, Phases
  <2>7. NodeTypes'
    BY <2>5, <2>6 DEF NodeInv, NodeTypes, CallRecords
  <2> QED BY <2>1, <2>7, ReadingKeeps DEF NodeInv
<1>5. CASE RequestArrives(n, k)
  <2>1. Receives(n, k, "request") /\ UNCHANGED <<client, remote, up, conn>>
    BY <1>5 DEF RequestArrives
  <2>2. PICK r \in Requests : r = f.request
    BY <1>1, <2>1, ReceivesType, FrameParts
  <2>3. PICK s \in Sockets : s = conn[n][k].socket
    BY <2>1, ReceivesType
  <2>4. PICK e : e = [by |-> n, via |-> s, made |-> 0, mute |-> FALSE]
    OBVIOUS
  <2>5. e \in [by : Nodes \cup {NoNode}, via : Sockets \cup {NoSocket},
               made : 0..MaxItems, mute : BOOLEAN]
    BY <2>4, WsTransporterAssumption
  <2>6. /\ serving' = [serving EXCEPT ![r] = e]
        /\ UNCHANGED <<conn, local, known, reach, inflight, call, topic>>
    BY <1>1, <1>5, <2>2, <2>3, <2>4 DEF RequestArrives
  <2>7. NodeTypes'
    BY <2>5, <2>6 DEF NodeInv, NodeTypes
  <2> QED BY <2>1, <2>7, ReadingKeeps DEF NodeInv
<1>6. CASE CancelArrives(n, k)
  <2>1. Receives(n, k, "cancel") /\ UNCHANGED <<client, remote, up, conn>>
    BY <1>6 DEF CancelArrives
  <2>2. PICK r \in Requests : r = f.request
    BY <1>1, <2>1, ReceivesType, FrameParts
  <2>3. Unserved \in [by : Nodes \cup {NoNode}, via : Sockets \cup {NoSocket},
                      made : 0..MaxItems, mute : BOOLEAN]
    BY WsTransporterAssumption DEF Unserved
  <2>4. /\ serving' = serving \/ serving' = [serving EXCEPT ![r] = Unserved]
        /\ UNCHANGED <<conn, local, known, reach, inflight, call, topic>>
    BY <1>1, <1>6, <2>2 DEF CancelArrives
  <2>5. [serving EXCEPT ![r] = Unserved]
           \in [Requests -> [by : Nodes \cup {NoNode}, via : Sockets \cup {NoSocket},
                             made : 0..MaxItems, mute : BOOLEAN]]
    BY <2>3 DEF NodeInv, NodeTypes
  <2>6. NodeTypes'
    BY <2>4, <2>5 DEF NodeInv, NodeTypes
  <2> QED BY <2>1, <2>6, ReadingKeeps DEF NodeInv
<1>7. CASE PublishArrives(n, k)
  <2>1. /\ Receives(n, k, "publish") /\ UNCHANGED <<client, remote, up, conn>>
        /\ UNCHANGED <<local, known, reach, inflight, call, serving, topic>>
    BY <1>7 DEF PublishArrives, nodeVars
  <2>2. NodeTypes'
    BY <2>1 DEF NodeInv, NodeTypes
  <2> QED BY <2>1, <2>2, ReadingKeeps DEF NodeInv
<1> QED BY <1>2, <1>3, <1>4, <1>5, <1>6, <1>7

LEMMA CallingKeeps ==
    ASSUME LinkTypeOK, NodeInv, NEW n \in Nodes, NEW r \in Requests,
           \/ \E v \in Services, d \in Nodes \cup {NoNode} : Send(n, r, v, d)
           \/ CallerOf[r] = n /\ Resolve(r)
           \/ CancelCall(n, r)
    PROVE  LinkTypeOK' /\ NodeInv'
<1>1. ASSUME NEW v \in Services, NEW d \in Nodes \cup {NoNode}, Send(n, r, v, d)
      PROVE  LinkTypeOK' /\ NodeInv'
  <2>1. PICK s \in RpcSockets(n, d) :
           /\ call' = [call EXCEPT ![r] = [phase |-> "sending", destination |-> d,
                                           socket |-> s, raced |-> FALSE]]
           /\ SendOn(s, Request(r, v, d))
    BY <1>1 DEF Send
  <2>2. s \in Sockets
    BY RpcSocketsOpen, OpenSocketsOpen
  <2>3. PICK f \in Frames : f = Request(r, v, d)
    BY FrameTypes
  <2>4. UNCHANGED <<client, remote, down, conn, local, known, reach, inflight, serving, topic>>
    BY <1>1 DEF Send
  <2>5. LinkTypeOK' /\ ConnSound'
    BY <2>1, <2>2, <2>3, <2>4, SendingKeeps
  <2>6. PICK e : e = [phase |-> "sending", destination |-> d, socket |-> s, raced |-> FALSE]
    OBVIOUS
  <2>7. e \in CallRecords
    BY <2>2, <2>6 DEF CallRecords
  <2>8. NodeTypes'
    BY <2>1, <2>4, <2>6, <2>7 DEF NodeInv, NodeTypes, CallRecords
  <2> QED BY <2>5, <2>8 DEF NodeInv
<1>2. CASE Resolve(r)
  <2>1. PICK s \in Sockets \cup {NoSocket} : s = call[r].socket
    BY DEF NodeInv, NodeTypes
  <2>2. /\ inflight' = [inflight EXCEPT ![r] = s] /\ call' = [call EXCEPT ![r].phase = "sent"]
        /\ UNCHANGED <<client, remote, up, down, conn, local, known, reach, serving, topic>>
    BY <1>2, <2>1 DEF Resolve
  <2>3. /\ [inflight EXCEPT ![r] = s] \in [Requests -> Sockets \cup {NoSocket}]
        /\ [call EXCEPT ![r].phase = "sent"] \in [Requests -> CallRecords]
    BY CallChanges DEF NodeInv, NodeTypes, Phases
  <2>4. NodeTypes'
    BY <2>2, <2>3 DEF NodeInv, NodeTypes, CallRecords
  <2> QED BY <2>2, <2>4, QuietKeeps DEF NodeInv, linkVars
<1>3. CASE CancelCall(n, r)
  <2>1. PICK s : s = call[r].socket
    OBVIOUS
  <2>2. /\ inflight' = [inflight EXCEPT ![r] = NoSocket]
        /\ call' = [call EXCEPT ![r].phase = "cancelled"]
        /\ SendOn(s, Cancel(r)) /\ call[r].phase = "sent"
        /\ UNCHANGED <<client, remote, down, conn, local, known, reach, serving, topic>>
    BY <1>3, <2>1 DEF CancelCall
  <2>3. NodeTypes'
    <3>1. /\ [inflight EXCEPT ![r] = NoSocket] \in [Requests -> Sockets \cup {NoSocket}]
          /\ [call EXCEPT ![r].phase = "cancelled"] \in [Requests -> CallRecords]
      BY CallChanges DEF NodeInv, NodeTypes, Phases
    <3> QED BY <2>2, <3>1 DEF NodeInv, NodeTypes, CallRecords
  <2>4. Cancel(r) \in Frames
    BY FrameTypes
  <2>5. CASE s \in Sockets
    BY <2>2, <2>3, <2>4, <2>5, SendingKeeps DEF NodeInv
  <2>6. CASE s \notin Sockets
    <3>1. up' = up
      BY <2>2, <2>6 DEF SendOn, LinkTypeOK
    <3> QED BY <2>2, <2>3, <3>1, QuietKeeps DEF NodeInv, linkVars
  <2> QED BY <2>5, <2>6
<1> QED BY <1>1, <1>2, <1>3

LEMMA ReplyKeeps ==
    ASSUME LinkTypeOK, NodeInv, NEW n \in Nodes, NEW r \in Requests,
           NEW end \in {"more", "completed"}, Reply(n, r, end)
    PROVE  LinkTypeOK' /\ NodeInv'
<1>1. PICK caller \in Nodes : caller = CallerOf[r]
  BY WsLinkAssumption
<1>2. PICK mute \in BOOLEAN : mute = (serving[r].mute \/ RpcSockets(n, caller) = {})
  OBVIOUS
<1>3. PICK made : made = serving[r].made + 1
  OBVIOUS
<1>4. /\ serving' = IF end = "more"
                    THEN [serving EXCEPT ![r].made = made, ![r].mute = mute]
                    ELSE [serving EXCEPT ![r] = Unserved]
      /\ end = "more" => serving[r].made < MaxItems
      /\ IF mute THEN UNCHANGED up
         ELSE \E s \in RpcSockets(n, caller) : SendOn(s, Response(r, n, caller, end))
      /\ UNCHANGED <<client, remote, down, conn, local, known, reach, inflight, call, topic>>
  BY <1>1, <1>2, <1>3 DEF Reply
<1>5. LinkTypeOK' /\ ConnSound'
  <2>1. CASE mute
    BY <1>4, <2>1, QuietKeeps DEF linkVars
  <2>2. CASE ~mute
    <3>1. PICK s \in RpcSockets(n, caller) : SendOn(s, Response(r, n, caller, end))
      BY <1>4, <2>2
    <3>2. s \in Sockets
      BY RpcSocketsOpen, OpenSocketsOpen
    <3>3. Response(r, n, caller, end) \in Frames
      BY FrameTypes DEF Ends
    <3> QED BY <1>4, <3>1, <3>2, <3>3, SendingKeeps
  <2> QED BY <2>1, <2>2
<1>6. serving' \in [Requests -> [by : Nodes \cup {NoNode}, via : Sockets \cup {NoSocket},
                                 made : 0..MaxItems, mute : BOOLEAN]]
  <2>1. CASE end = "more"
    <3>1. made \in 0..MaxItems
      BY <1>3, <1>4, <2>1, WsTransporterAssumption DEF NodeInv, NodeTypes
    <3>2. serving \in [Requests -> [by : Nodes \cup {NoNode}, via : Sockets \cup {NoSocket},
                                    made : 0..MaxItems, mute : BOOLEAN]]
      BY DEF NodeInv, NodeTypes
    <3>3. PICK e : e = [serving[r] EXCEPT !.made = made, !.mute = mute]
      OBVIOUS
    <3>4. e \in [by : Nodes \cup {NoNode}, via : Sockets \cup {NoSocket},
                 made : 0..MaxItems, mute : BOOLEAN]
      BY <1>2, <3>1, <3>2, <3>3
    <3>5. serving' = [serving EXCEPT ![r] = e]
      BY <1>4, <2>1, <3>2, <3>3
    <3> QED BY <3>2, <3>4, <3>5
  <2>2. CASE end # "more"
    <3>1. Unserved \in [by : Nodes \cup {NoNode}, via : Sockets \cup {NoSocket},
                        made : 0..MaxItems, mute : BOOLEAN]
      BY WsTransporterAssumption DEF Unserved
    <3> QED BY <1>4, <2>2, <3>1 DEF NodeInv, NodeTypes
  <2> QED BY <2>1, <2>2
<1> QED BY <1>4, <1>5, <1>6 DEF NodeInv, NodeTypes

LEMMA NodeKeepsNode ==
    ASSUME LinkTypeOK, NodeInv, NEW n \in Nodes, NodeStep(n)
    PROVE  LinkTypeOK' /\ NodeInv'
<1>1. ASSUME NEW k \in Relays, Connect(n, k) \/ Reconnect(n, k) PROVE LinkTypeOK' /\ NodeInv'
  BY <1>1, DialKeeps DEF Connect, Reconnect, Live
<1> QED BY <1>1, OpenedKeeps, LostKeeps, CloseUrlKeeps, ReadingUpKeeps, SpeakingUpKeeps,
           CallingKeeps, ReplyKeeps DEF NodeStep

\* A relay accepts sockets, reads what was sent on them and closes them; the connections
\* of the nodes stay.
LEMMA RelayKeepsNode ==
    ASSUME LinkTypeOK, NodeInv, RelayStep, UNCHANGED nodeVars
    PROVE  NodeInv'
<1>1. UNCHANGED <<conn, client>>
  BY DEF RelayStep, Accept, Close, Crash, OnMessage, OnHello, OnResponse, OnRequest, OnCancel,
         OnSubscribe, OnUnsubscribe, OnPublish, nodeVars
<1>2. NodeTypes'
  BY DEF NodeInv, NodeTypes, nodeVars
<1>3. \A s \in Sockets : client[s] = "unused" => remote[s] = "unused"
  BY DEF NodeInv, ConnSound
<1>4. \A s \in Sockets : client[s] \in {"unused", "connecting"} => up[s] = <<>>
  BY DEF NodeInv, ConnSound
<1>5. ASSUME NEW s \in Sockets
      PROVE  /\ remote'[s] = remote[s] \/ client[s] # "unused"
             /\ up'[s] = up[s] \/ client[s] \notin {"unused", "connecting"}
  <2>1. ASSUME NEW x \in Sockets, Accept(x)
        PROVE  /\ remote'[s] = remote[s] \/ client[s] # "unused"
               /\ up'[s] = up[s] \/ client[s] \notin {"unused", "connecting"}
    BY <2>1 DEF Accept, LinkTypeOK
  <2>2. ASSUME NEW x \in Sockets, Close(x)
        PROVE  /\ remote'[s] = remote[s] \/ client[s] # "unused"
               /\ up'[s] = up[s] \/ client[s] \notin {"unused", "connecting"}
    <3>1. /\ remote[x] = "open" /\ remote' = [remote EXCEPT ![x] = "closed"]
          /\ up' = [up EXCEPT ![x] = <<>>]
      BY <2>2 DEF Close
    <3> QED BY <1>3, <1>4, <3>1 DEF LinkTypeOK
  <2>3. ASSUME NEW x \in Sockets, OnMessage(x)
        PROVE  /\ remote'[s] = remote[s] \/ client[s] # "unused"
               /\ up'[s] = up[s] \/ client[s] \notin {"unused", "connecting"}
    <3>1. remote' = remote /\ up[x] # <<>> /\ up' = [up EXCEPT ![x] = Tail(up[x])]
      BY <2>3 DEF OnMessage, OnHello, OnResponse, OnRequest, OnCancel, OnSubscribe,
                  OnUnsubscribe, OnPublish, Reads
    <3> QED BY <1>4, <3>1 DEF LinkTypeOK
  <2>4. ASSUME NEW k \in Relays, Crash(k)
        PROVE  /\ remote'[s] = remote[s] \/ client[s] # "unused"
               /\ up'[s] = up[s] \/ client[s] \notin {"unused", "connecting"}
    BY <1>3, <1>4, <2>4 DEF Crash
  <2> QED BY <2>1, <2>2, <2>3, <2>4 DEF RelayStep
<1>6. ConnSound'
  BY <1>1, <1>5, ConnStays DEF NodeInv
<1> QED BY <1>2, <1>6 DEF NodeInv

-----------------------------------------------------------------------------
(* Nodes and relays together.                                              *)

WsInv == LinkTypeOK /\ RelayInv /\ NodeInv

LEMMA WsInvInit == Init => WsInv
<1> SUFFICES ASSUME Init PROVE WsInv
  OBVIOUS
<1>1. LinkInit /\ RelayInit /\ NodeInit
  BY DEF Init
<1>2. LinkTypeOK
  BY <1>1 DEF LinkInit, LinkTypeOK, ClientStates, RemoteStates
<1>3. RelayTypes
  <2>1. Cardinality(Nodes) \in Nat
    BY WsLinkAssumption, FS_CardinalityType
  <2>2. -1 \in -1..(Cardinality(Nodes) - 1)
    BY <2>1
  <2>3. Nobody \in [node : Nodes \cup {NoNode}, services : SUBSET Services]
    BY DEF Nobody
  <2>4. NoEntry \in [caller : Sockets \cup {NoSocket}, provider : Sockets \cup {NoSocket}]
    BY DEF NoEntry
  <2>5. IsInjective(<<>>)
    BY DEF IsInjective
  <2> QED BY <1>1, <2>2, <2>3, <2>4, <2>5 DEF RelayInit, RelayTypes, Metadata, Registry
<1>4. Registered /\ PendingSound /\ IndexSound
  BY <1>1 DEF RelayInit, Registered, PendingSound, IndexSound, Has
<1>5. NodeTypes
  <2>1. Off \in [phase : {"off", "waiting", "connecting", "open"}, socket : Sockets \cup {NoSocket}]
    BY DEF Off
  <2>2. Unknown \in [relay : Relays \cup {NoRelay}, services : SUBSET Services]
    BY DEF Unknown
  <2>3. Uncalled \in CallRecords
    BY DEF Uncalled, CallRecords
  <2>4. Unserved \in [by : Nodes \cup {NoNode}, via : Sockets \cup {NoSocket},
                      made : 0..MaxItems, mute : BOOLEAN]
    BY WsTransporterAssumption DEF Unserved
  <2>5. \A n \in Nodes : [services |-> Offers[n], speaks |-> 0, closes |-> 0]
                            \in [services : SUBSET Services, speaks : Nat, closes : Nat]
    BY WsTransporterAssumption
  <2> QED BY <1>1, <2>1, <2>2, <2>3, <2>4, <2>5 DEF NodeInit, NodeTypes, CallRecords
<1>6. ConnSound
  <2>1. \A n \in Nodes, k \in Relays : conn[n][k] = Off
    BY <1>1 DEF NodeInit
  <2>2. \A s \in Sockets : client[s] = "unused" /\ remote[s] = "unused" /\ up[s] = <<>>
    BY <1>1 DEF LinkInit
  <2> QED BY <2>1, <2>2 DEF ConnSound, Off, Live
<1> QED BY <1>2, <1>3, <1>4, <1>5, <1>6 DEF WsInv, RelayInv, NodeInv

LEMMA WsInvNext == WsInv /\ [Next]_vars => WsInv'
<1> SUFFICES ASSUME WsInv, [Next]_vars PROVE WsInv'
  OBVIOUS
<1>1. CASE RelayActs
  <2>1. RelayStep /\ UNCHANGED nodeVars
    BY <1>1 DEF RelayActs
  <2> QED BY <2>1, RelayKeepsRelay, RelayKeepsNode DEF WsInv
<1>2. CASE NodeActs
  <2>1. PICK n \in Nodes : NodeStep(n) /\ UNCHANGED relayVars
    BY <1>2 DEF NodeActs
  <2> QED BY <2>1, NodeKeepsNode, NodeLeavesRemote, NodeKeepsRelay DEF WsInv
<1>3. CASE UNCHANGED vars
  <2>1. UNCHANGED <<linkVars, relayVars, nodeVars>>
    BY <1>3 DEF vars
  <2>2. UNCHANGED <<client, remote, up, down, conn>>
    BY <2>1 DEF linkVars, nodeVars
  <2>3. NodeTypes'
    BY <2>1 DEF WsInv, NodeInv, NodeTypes, nodeVars
  <2> QED BY <2>1, <2>2, <2>3, QuietKeeps, NodeKeepsRelay DEF WsInv, NodeInv
<1> QED BY <1>1, <1>2, <1>3 DEF Next

LEMMA MeshIsSound == Spec => []WsInv
  BY WsInvInit, WsInvNext, PTL DEF Spec

\* Every variable has its type, and no node is twice among the providers of a service.
THEOREM TypesCorrect == Spec => []TypeOK
<1>1. WsInv => TypeOK
  BY TypeParts DEF WsInv, RelayInv, NodeInv
<1> QED BY <1>1, MeshIsSound, PTL

\* The relay's pending map holds only requests with both sockets open, so that it cannot
\* outlive them nor send to a socket that is gone: failPendingRequests finds every request
\* of a socket that closes, as caller or as provider.
THEOREM PendingIsLive == Spec => []PendingHasBothEnds
<1>1. WsInv => PendingHasBothEnds
  BY DEF WsInv, RelayInv, PendingSound, LiveAt, PendingHasBothEnds
<1> QED BY <1>1, MeshIsSound, PTL

\* The index of services lists exactly the registered nodes that offer each service,
\* through any order of hellos, replaced sockets, changes of name and late closes.
THEOREM IndexFollows == Spec => []IndexIsExact
<1>1. WsInv => IndexIsExact
  BY DEF WsInv, RelayInv, IndexSound, Has, IndexIsExact
<1> QED BY <1>1, MeshIsSound, PTL

-----------------------------------------------------------------------------
(* Topics.                                                                 *)

Tells(f, t) == \/ f.type = "subscribe"
               \/ f.type = "unsubscribe" /\ f.topic = t
Says(f, t) == f.type = "subscribe" /\ t \in f.topics

Silent(queue, t) == \A j \in DOMAIN queue : ~Tells(queue[j], t)

\* The last frame of the queue about the topic says whether it is among those wanted.
LastSays(queue, t, wanted) ==
    \A j \in DOMAIN queue :
        /\ Tells(queue[j], t)
        /\ \A i \in DOMAIN queue : i > j => ~Tells(queue[i], t)
        => (Says(queue[j], t) <=> t \in wanted)

LEMMA AppendTells ==
    ASSUME NEW queue \in Seq(Frames), NEW f \in Frames, NEW t, NEW wanted
    PROVE  /\ ~Tells(f, t) => /\ Silent(Append(queue, f), t) <=> Silent(queue, t)
                              /\ LastSays(queue, t, wanted) => LastSays(Append(queue, f), t, wanted)
           /\ Tells(f, t) => /\ ~Silent(Append(queue, f), t)
                             /\ (Says(f, t) <=> t \in wanted) => LastSays(Append(queue, f), t, wanted)
<1>1. PICK m \in Nat : m = Len(queue) /\ DOMAIN queue = 1..m
  OBVIOUS
<1>2. PICK more : more = Append(queue, f)
  OBVIOUS
<1>3. DOMAIN more = 1..(m + 1) /\ more[m + 1] = f /\ \A j \in 1..m : more[j] = queue[j]
  BY <1>1, <1>2
<1>4. \A j \in 1..(m + 1) : j \in 1..m \/ j = m + 1
  OBVIOUS
<1>5. m + 1 \in 1..(m + 1) /\ \A j \in 1..m : j \in 1..(m + 1) /\ m + 1 > j /\ ~(j > m + 1)
  OBVIOUS
<1>6. ASSUME ~Tells(f, t)
      PROVE  /\ Silent(more, t) <=> Silent(queue, t)
             /\ LastSays(queue, t, wanted) => LastSays(more, t, wanted)
  <2>1. Silent(more, t) <=> Silent(queue, t)
    BY <1>1, <1>3, <1>4, <1>5, <1>6 DEF Silent
  <2>2. ASSUME LastSays(queue, t, wanted), NEW j \in 1..(m + 1), Tells(more[j], t),
               \A i \in 1..(m + 1) : i > j => ~Tells(more[i], t)
        PROVE  Says(more[j], t) <=> t \in wanted
    <3>1. j \in 1..m
      BY <1>3, <1>4, <1>6, <2>2
    <3>2. Tells(queue[j], t) /\ \A i \in 1..m : i > j => ~Tells(queue[i], t)
      BY <1>3, <1>5, <2>2, <3>1
    <3>3. Says(queue[j], t) <=> t \in wanted
      BY <1>1, <2>2, <3>1, <3>2 DEF LastSays
    <3> QED BY <1>3, <3>1, <3>3
  <2> QED BY <1>3, <2>1, <2>2 DEF LastSays
<1>7. ASSUME Tells(f, t)
      PROVE  /\ ~Silent(more, t)
             /\ (Says(f, t) <=> t \in wanted) => LastSays(more, t, wanted)
  <2>1. ~Silent(more, t)
    BY <1>3, <1>5, <1>7 DEF Silent
  <2>2. ASSUME Says(f, t) <=> t \in wanted, NEW j \in 1..(m + 1), Tells(more[j], t),
               \A i \in 1..(m + 1) : i > j => ~Tells(more[i], t)
        PROVE  Says(more[j], t) <=> t \in wanted
    <3>1. j = m + 1
      BY <1>3, <1>4, <1>5, <1>7, <2>2
    <3> QED BY <1>3, <2>2, <3>1
  <2> QED BY <1>3, <2>1, <2>2 DEF LastSays
<1> QED BY <1>2, <1>6, <1>7

LEMMA TailTells ==
    ASSUME NEW queue \in Seq(Frames), queue # <<>>, NEW t, NEW wanted, LastSays(queue, t, wanted)
    PROVE  /\ LastSays(Tail(queue), t, wanted)
           /\ Silent(Tail(queue), t) =>
                 IF Tells(Head(queue), t) THEN Says(Head(queue), t) <=> t \in wanted
                                          ELSE Silent(queue, t)
<1>1. PICK m \in Nat : m = Len(queue) /\ DOMAIN queue = 1..m /\ m > 0
  BY EmptySeq
<1>2. PICK rest : rest = Tail(queue)
  OBVIOUS
<1>3. DOMAIN rest = 1..(m - 1) /\ \A j \in 1..(m - 1) : rest[j] = queue[j + 1]
  BY <1>1, <1>2
<1>4. PICK first : first = Head(queue)
  OBVIOUS
<1>5. first = queue[1]
  BY <1>1, <1>4
<1>6. \A j \in 1..m : j = 1 \/ (j - 1 \in 1..(m - 1) /\ (j - 1) + 1 = j)
  BY <1>1
<1>7. LastSays(rest, t, wanted)
  <2> SUFFICES ASSUME NEW j \in 1..(m - 1), Tells(rest[j], t),
                      \A i \in 1..(m - 1) : i > j => ~Tells(rest[i], t)
               PROVE  Says(rest[j], t) <=> t \in wanted
    BY <1>3 DEF LastSays
  <2>1. PICK x \in 1..m : x = j + 1
    BY <1>1
  <2>2. Tells(queue[x], t)
    BY <1>3, <2>1
  <2>3. ASSUME NEW i \in 1..m, i > x PROVE ~Tells(queue[i], t)
    <3>1. PICK y \in 1..(m - 1) : y = i - 1 /\ y > j /\ y + 1 = i
      BY <2>1, <2>3
    <3> QED BY <1>3, <3>1
  <2>4. Says(queue[x], t) <=> t \in wanted
    BY <1>1, <2>2, <2>3 DEF LastSays
  <2> QED BY <1>3, <2>1, <2>4
<1>8. ASSUME Silent(rest, t)
      PROVE  IF Tells(first, t) THEN Says(first, t) <=> t \in wanted ELSE Silent(queue, t)
  <2>1. \A j \in 1..m : j # 1 => ~Tells(queue[j], t)
    BY <1>3, <1>6, <1>8 DEF Silent
  <2>2. CASE Tells(first, t)
    <3>1. 1 \in 1..m /\ \A i \in 1..m : i > 1 => i # 1
      BY <1>1
    <3> QED BY <1>1, <1>5, <2>1, <2>2, <3>1 DEF LastSays
  <2>3. CASE ~Tells(first, t)
    BY <1>1, <1>5, <2>1, <2>3 DEF Silent
  <2> QED BY <2>2, <2>3
<1> QED BY <1>2, <1>4, <1>7, <1>8

\* The relay lists the node for the topic as the node wants it, or will be told so by what
\* is under way; and the first hello of a socket comes with the topics.
Introduced(s) == \/ me[s].node = Owner(s)
                 \/ Len(up[s]) >= 2 /\ up[s][1].type = "hello" /\ up[s][2].type = "subscribe"

Listed(s, t) == Owner(s) \in listeners[RelayOf(s)][t]

Agrees(s, t) ==
    /\ LastSays(up[s], t, Listened(Owner(s)))
    /\ Silent(up[s], t) => (Listed(s, t) <=> t \in Listened(Owner(s)))

\* A node says hello in its own name only.
OwnNames ==
    \A s \in Sockets :
        /\ me[s].node \in {NoNode, Owner(s)}
        /\ \A j \in DOMAIN up[s] : up[s][j].type = "hello" => up[s][j].node = Owner(s)

Rivals(s, x) == s # x /\ Owner(s) = Owner(x) /\ RelayOf(s) = RelayOf(x)

OverlapSound ==
    \A s, x \in Sockets :
        Rivals(s, x) /\ remote[s] = "open" /\ remote[x] = "open"
        => <<Owner(s), RelayOf(s)>> \in overlap

Alone(s) == client[s] = "open" /\ remote[s] = "open" /\ <<Owner(s), RelayOf(s)>> \notin overlap

TopicsAgree == \A s \in Sockets, t \in Topics : Alone(s) => Introduced(s) /\ Agrees(s, t)

TopicInv == WsInv /\ OwnNames /\ OverlapSound /\ TopicsAgree

\* What a frame that is read does to the topics.
LEMMA OnMessageTells ==
    ASSUME WsInv, OwnNames, NEW x \in Sockets, OnMessage(x)
    PROVE  /\ remote[x] = "open" /\ up[x] \in Seq(Frames) /\ up[x] # <<>> /\ Head(up[x]) \in Frames
           /\ up'[x] = Tail(up[x]) /\ \A s \in Sockets \ {x} : up'[s] = up[s]
           /\ UNCHANGED <<client, remote>>
           /\ \A s \in Sockets :
                 me'[s].node = IF s = x /\ Head(up[x]).type = "hello" THEN Owner(x) ELSE me[s].node
           /\ \A s \in Sockets, t \in Topics :
                 (Owner(s) # Owner(x) \/ RelayOf(s) # RelayOf(x)) => (Listed(s, t)' <=> Listed(s, t))
           /\ \A t \in Topics :
                 Listed(x, t)' <=> IF me[x].node = Owner(x) /\ Tells(Head(up[x]), t)
                                   THEN Says(Head(up[x]), t) ELSE Listed(x, t)
<1>1. PICK k \in Relays, n \in Nodes : k = RelayOf(x) /\ n = Owner(x)
  BY SocketParts
<1>2. PICK f : f = Head(up[x])
  OBVIOUS
<1>3. me[x].node \in {NoNode, n}
  BY <1>1 DEF OwnNames
<1>4. me \in Metadata /\ listeners \in [Relays -> [Topics -> SUBSET Nodes]]
  BY DEF WsInv, RelayInv, RelayTypes
<1>5. \E type : Reads(x, type)
  BY DEF OnMessage, OnHello, OnResponse, OnRequest, OnCancel, OnSubscribe, OnUnsubscribe, OnPublish
<1>6. /\ remote[x] = "open" /\ up[x] # <<>> /\ f \in Frames
      /\ up'[x] = Tail(up[x]) /\ \A s \in Sockets \ {x} : up'[s] = up[s]
  BY <1>2, <1>5, ReadType DEF WsInv
<1>7. UNCHANGED <<client, remote>>
  BY DEF OnMessage, OnHello, OnResponse, OnRequest, OnCancel, OnSubscribe, OnUnsubscribe, OnPublish,
         relayVars
<1>8. up[x] \in Seq(Frames)
  BY DEF WsInv, LinkTypeOK
<1>9. n # NoNode
  BY <1>1, WsLinkAssumption
<1>10. /\ \A s \in Sockets : me'[s].node = IF s = x /\ f.type = "hello" THEN n ELSE me[s].node
       /\ \A s \in Sockets, t \in Topics : Listed(s, t)' <=>
             IF RelayOf(s) = k /\ Owner(s) = n /\ me[x].node = n /\ Tells(f, t)
             THEN Says(f, t) ELSE Listed(s, t)
  <2>1. CASE OnHello(x)
    <3>1. f.type = "hello" /\ f.node = n
      <4>1. f.type = "hello"
        BY <1>2, <2>1 DEF OnHello, Reads
      <4>2. f = up[x][1] /\ 1 \in DOMAIN up[x]
        BY <1>2, <1>6, <1>8
      <4> QED BY <1>1, <4>1, <4>2 DEF OwnNames
    <3>2. /\ listeners' = listeners
          /\ me' = [me EXCEPT ![x] = [node |-> n, services |-> f.services]]
      BY <1>2, <1>3, <2>1, <3>1 DEF OnHello
    <3>3. \A s \in Sockets : me'[s].node = IF s = x THEN n ELSE me[s].node
      BY <1>4, <3>2 DEF Metadata
    <3>4. \A t \in Topics : ~Tells(f, t)
      BY <3>1 DEF Tells
    <3> QED BY <3>1, <3>2, <3>3, <3>4 DEF Listed
  <2>2. CASE OnSubscribe(x)
    <3>1. f.type = "subscribe" /\ me' = me
      BY <1>2, <2>2 DEF OnSubscribe, Reads
    <3>2. CASE me[x].node = NoNode
      <4>1. listeners' = listeners
        BY <2>2, <3>2 DEF OnSubscribe, SenderOf
      <4> QED BY <1>9, <3>1, <3>2, <4>1 DEF Listed
    <3>3. CASE me[x].node = n
      <4>1. PICK mine : mine = [t \in Topics |-> Unlistened(listeners[k], n)[t]
                                                  \cup {i \in {n} : t \in f.topics}]
        OBVIOUS
      <4>2. listeners' = [listeners EXCEPT ![k] = mine]
        BY <1>1, <1>2, <1>9, <2>2, <3>3, <4>1 DEF OnSubscribe, SenderOf
      <4>3. \A t \in Topics : \A i : i \in mine[t] <=> IF i = n THEN t \in f.topics
                                                    ELSE i \in listeners[k][t]
        BY <4>1 DEF Unlistened
      <4>4. \A h \in Relays : listeners'[h] = IF h = k THEN mine ELSE listeners[h]
        BY <1>4, <4>2
      <4>5. \A t \in Topics : Tells(f, t) /\ (Says(f, t) <=> t \in f.topics)
        BY <3>1 DEF Tells, Says
      <4>6. \A s \in Sockets : RelayOf(s) \in Relays
        BY SocketParts
      <4>7. \A s \in Sockets, t \in Topics : Listed(s, t)' <=>
               IF RelayOf(s) = k /\ Owner(s) = n THEN t \in f.topics ELSE Listed(s, t)
        BY <4>3, <4>4, <4>6 DEF Listed
      <4> QED BY <3>1, <3>3, <4>5, <4>7
    <3> QED BY <1>3, <3>2, <3>3
  <2>3. CASE OnUnsubscribe(x)
    <3>1. f.type = "unsubscribe" /\ me' = me /\ f.topic \in Topics
      BY <1>2, <1>6, <2>3, FrameParts DEF OnUnsubscribe, Reads
    <3>2. CASE me[x].node = NoNode
      <4>1. listeners' = listeners
        BY <2>3, <3>2 DEF OnUnsubscribe, SenderOf
      <4> QED BY <1>9, <3>1, <3>2, <4>1 DEF Listed
    <3>3. CASE me[x].node = n
      <4>1. listeners' = [listeners EXCEPT ![k][f.topic] = listeners[k][f.topic] \ {n}]
        BY <1>1, <1>2, <1>9, <2>3, <3>3 DEF OnUnsubscribe, SenderOf
      <4>2. \A h \in Relays, t \in Topics :
               listeners'[h][t] = IF h = k /\ t = f.topic THEN listeners[k][f.topic] \ {n}
                                  ELSE listeners[h][t]
        BY <1>4, <3>1, <4>1
      <4>3. \A t \in Topics : (Tells(f, t) <=> t = f.topic) /\ ~Says(f, t)
        BY <3>1 DEF Tells, Says
      <4>4. \A s \in Sockets : RelayOf(s) \in Relays
        BY SocketParts
      <4>5. \A s \in Sockets, t \in Topics : Listed(s, t)' <=>
               IF RelayOf(s) = k /\ Owner(s) = n /\ t = f.topic THEN FALSE ELSE Listed(s, t)
        BY <4>2, <4>4 DEF Listed
      <4> QED BY <3>1, <3>3, <4>3, <4>5
    <3> QED BY <1>3, <3>2, <3>3
  <2>4. CASE OnResponse(x) \/ OnRequest(x) \/ OnCancel(x) \/ OnPublish(x)
    <3>1. UNCHANGED <<me, listeners>> /\ f.type \in {"response", "request", "cancel", "publish"}
      BY <1>2, <2>4 DEF OnResponse, OnRequest, OnCancel, OnPublish, Reads, relayVars
    <3>2. \A t \in Topics : ~Tells(f, t)
      BY <3>1 DEF Tells
    <3> QED BY <3>1, <3>2 DEF Listed
  <2> QED BY <2>1, <2>2, <2>3, <2>4 DEF OnMessage
<1> QED BY <1>1, <1>2, <1>6, <1>7, <1>8, <1>10

LEMMA AcceptKeepsTopics ==
    ASSUME TopicInv, NEW x \in Sockets, Accept(x), UNCHANGED topic, overlap \subseteq overlap',
           Overlaps(x) => <<Owner(x), RelayOf(x)>> \in overlap'
    PROVE  OwnNames' /\ OverlapSound' /\ TopicsAgree'
<1>1. /\ client[x] = "connecting" /\ remote[x] = "unused"
      /\ UNCHANGED <<client, up, me, listeners>>
      /\ \A s \in Sockets \ {x} : remote'[s] = remote[s]
  BY DEF Accept, TopicInv, WsInv, LinkTypeOK
<1>2. OwnNames'
  BY <1>1 DEF TopicInv, OwnNames
<1>3. OverlapSound'
  <2> SUFFICES ASSUME NEW s \in Sockets, NEW y \in Sockets, Rivals(s, y),
                      remote'[s] = "open", remote'[y] = "open"
               PROVE  <<Owner(s), RelayOf(s)>> \in overlap'
    BY DEF OverlapSound, Rivals
  <2>1. CASE s # x /\ y # x
    BY <1>1, <2>1 DEF TopicInv, OverlapSound
  <2>2. CASE s = x
    BY <1>1, <2>2 DEF Overlaps, Rivals
  <2>3. CASE y = x
    BY <1>1, <2>3 DEF Overlaps, Rivals
  <2> QED BY <2>1, <2>2, <2>3
<1>4. TopicsAgree'
  <2> SUFFICES ASSUME NEW s \in Sockets, NEW t \in Topics, Alone(s)'
               PROVE  Introduced(s)' /\ Agrees(s, t)'
    BY DEF TopicsAgree
  <2>1. Alone(s)
    BY <1>1 DEF Alone
  <2>2. Introduced(s) /\ Agrees(s, t)
    BY <2>1 DEF TopicInv, TopicsAgree
  <2> QED BY <1>1, <2>2 DEF Introduced, Agrees, Listed, Listened
<1> QED BY <1>2, <1>3, <1>4

LEMMA CloseKeepsTopics ==
    ASSUME TopicInv, NEW x \in Sockets, Close(x), UNCHANGED topic, overlap \subseteq overlap'
    PROVE  OwnNames' /\ OverlapSound' /\ TopicsAgree'
<1>1. PICK k \in Relays : k = RelayOf(x)
  BY SocketParts
<1>2. PICK n : n = me[x].node
  OBVIOUS
<1>3. n \in {NoNode, Owner(x)}
  BY <1>2 DEF TopicInv, OwnNames
<1>4. /\ remote[x] = "open" /\ client' = client
      /\ remote' = [remote EXCEPT ![x] = "closed"] /\ up' = [up EXCEPT ![x] = <<>>]
      /\ me' = [me EXCEPT ![x] = Nobody]
      /\ \/ listeners' = listeners
         \/ n # NoNode /\ listeners' = [listeners EXCEPT ![k] = Unlistened(listeners[k], n)]
  BY <1>1, <1>2 DEF Close
<1>5. /\ remote'[x] = "closed" /\ up'[x] = <<>> /\ me'[x] = Nobody
      /\ \A s \in Sockets \ {x} :
            remote'[s] = remote[s] /\ up'[s] = up[s] /\ me'[s] = me[s]
  BY <1>4 DEF TopicInv, WsInv, LinkTypeOK, RelayInv, RelayTypes, Metadata
<1>6. \A s \in Sockets, t \in Topics :
         (Owner(s) # Owner(x) \/ RelayOf(s) # k) => (Listed(s, t)' <=> Listed(s, t))
  <2>1. CASE listeners' = listeners
    BY <2>1 DEF Listed
  <2>2. CASE n # NoNode /\ listeners' = [listeners EXCEPT ![k] = Unlistened(listeners[k], n)]
    <3>1. \A h \in Relays : listeners'[h] = IF h = k THEN Unlistened(listeners[k], n)
                                            ELSE listeners[h]
      BY <2>2 DEF TopicInv, WsInv, RelayInv, RelayTypes
    <3>2. \A t \in Topics : Unlistened(listeners[k], n)[t] = listeners[k][t] \ {n}
      BY DEF Unlistened
    <3>3. \A s \in Sockets : RelayOf(s) \in Relays
      BY SocketParts
    <3> QED BY <1>3, <2>2, <3>1, <3>2, <3>3 DEF Listed
  <2> QED BY <1>4, <2>1, <2>2
<1>7. OwnNames'
  <2>1. \A s \in Sockets : me'[s].node \in {NoNode, Owner(s)}
    BY <1>5 DEF Nobody, TopicInv, OwnNames
  <2>2. \A s \in Sockets :
           \A j \in DOMAIN up'[s] : up'[s][j].type = "hello" => up'[s][j].node = Owner(s)
    BY <1>5 DEF TopicInv, OwnNames
  <2> QED BY <2>1, <2>2 DEF OwnNames
<1>8. OverlapSound'
  <2> SUFFICES ASSUME NEW s \in Sockets, NEW y \in Sockets, Rivals(s, y),
                      remote'[s] = "open", remote'[y] = "open"
               PROVE  <<Owner(s), RelayOf(s)>> \in overlap'
    BY DEF OverlapSound, Rivals
  <2> QED BY <1>5 DEF TopicInv, OverlapSound
<1>9. TopicsAgree'
  <2> SUFFICES ASSUME NEW s \in Sockets, NEW t \in Topics, Alone(s)'
               PROVE  Introduced(s)' /\ Agrees(s, t)'
    BY DEF TopicsAgree
  <2>1. Alone(s) /\ s # x
    BY <1>4, <1>5 DEF Alone
  <2>2. Owner(s) # Owner(x) \/ RelayOf(s) # k
    BY <1>1, <1>4, <2>1 DEF TopicInv, OverlapSound, Rivals, Alone
  <2>3. Introduced(s) /\ Agrees(s, t)
    BY <2>1 DEF TopicInv, TopicsAgree
  <2>4. up'[s] = up[s] /\ me'[s] = me[s] /\ (Listed(s, t)' <=> Listed(s, t))
        /\ Listened(Owner(s))' = Listened(Owner(s))
    BY <1>5, <1>6, <2>1, <2>2 DEF Listened
  <2> QED BY <2>3, <2>4 DEF Introduced, Agrees
<1> QED BY <1>7, <1>8, <1>9

LEMMA CrashKeepsTopics ==
    ASSUME TopicInv, NEW k \in Relays, Crash(k), UNCHANGED topic, overlap \subseteq overlap'
    PROVE  OwnNames' /\ OverlapSound' /\ TopicsAgree'
<1>1. /\ client' = client
      /\ \A s \in Sockets : IF RelayOf(s) = k
                            THEN /\ remote'[s] # "open" /\ me'[s] = Nobody
                                 /\ up'[s] = <<>> \/ up'[s] = up[s]
                            ELSE remote'[s] = remote[s] /\ me'[s] = me[s] /\ up'[s] = up[s]
  BY DEF Crash
<1>2. \A s \in Sockets, t \in Topics : RelayOf(s) # k => (Listed(s, t)' <=> Listed(s, t))
  <2>1. \A h \in Relays : h # k => listeners'[h] = listeners[h]
    BY DEF Crash, TopicInv, WsInv, RelayInv, RelayTypes
  <2> QED BY <2>1, SocketParts DEF Listed
<1>3. OwnNames'
  <2>1. \A s \in Sockets : me'[s].node \in {NoNode, Owner(s)}
    BY <1>1 DEF Nobody, TopicInv, OwnNames
  <2>2. \A s \in Sockets :
           \A j \in DOMAIN up'[s] : up'[s][j].type = "hello" => up'[s][j].node = Owner(s)
    BY <1>1 DEF TopicInv, OwnNames
  <2> QED BY <2>1, <2>2 DEF OwnNames
<1>4. OverlapSound'
  <2> SUFFICES ASSUME NEW s \in Sockets, NEW y \in Sockets, Rivals(s, y),
                      remote'[s] = "open", remote'[y] = "open"
               PROVE  <<Owner(s), RelayOf(s)>> \in overlap'
    BY DEF OverlapSound, Rivals
  <2> QED BY <1>1 DEF TopicInv, OverlapSound
<1>5. TopicsAgree'
  <2> SUFFICES ASSUME NEW s \in Sockets, NEW t \in Topics, Alone(s)'
               PROVE  Introduced(s)' /\ Agrees(s, t)'
    BY DEF TopicsAgree
  <2>1. Alone(s) /\ RelayOf(s) # k
    BY <1>1 DEF Alone
  <2>2. Introduced(s) /\ Agrees(s, t)
    BY <2>1 DEF TopicInv, TopicsAgree
  <2>3. up'[s] = up[s] /\ me'[s] = me[s] /\ (Listed(s, t)' <=> Listed(s, t))
        /\ Listened(Owner(s))' = Listened(Owner(s))
    BY <1>1, <1>2, <2>1 DEF Listened
  <2> QED BY <2>2, <2>3 DEF Introduced, Agrees
<1> QED BY <1>3, <1>4, <1>5

LEMMA OnMessageKeepsTopics ==
    ASSUME TopicInv, NEW x \in Sockets, OnMessage(x), UNCHANGED topic, overlap \subseteq overlap'
    PROVE  OwnNames' /\ OverlapSound' /\ TopicsAgree'
<1>1. PICK queue \in Seq(Frames), rest \in Seq(Frames) :
         queue = up[x] /\ rest = Tail(queue) /\ queue # <<>>
  BY OnMessageTells, HeadTailProperties DEF TopicInv
<1>2. PICK f \in Frames : f = Head(queue)
  BY <1>1, OnMessageTells DEF TopicInv
<1>3. /\ remote[x] = "open" /\ UNCHANGED <<client, remote>>
      /\ up'[x] = rest /\ \A s \in Sockets \ {x} : up'[s] = up[s]
      /\ \A s \in Sockets :
            me'[s].node = IF s = x /\ f.type = "hello" THEN Owner(x) ELSE me[s].node
      /\ \A s \in Sockets, t \in Topics :
            (Owner(s) # Owner(x) \/ RelayOf(s) # RelayOf(x)) => (Listed(s, t)' <=> Listed(s, t))
      /\ \A t \in Topics :
            Listed(x, t)' <=> IF me[x].node = Owner(x) /\ Tells(f, t)
                              THEN Says(f, t) ELSE Listed(x, t)
  BY <1>1, <1>2, OnMessageTells DEF TopicInv
<1>4. \A n : Listened(n)' = Listened(n)
  BY DEF Listened
<1>5. OwnNames'
  <2>1. \A s \in Sockets : me'[s].node \in {NoNode, Owner(s)}
    BY <1>3 DEF TopicInv, OwnNames
  <2>2. \A j \in DOMAIN rest : j + 1 \in DOMAIN queue /\ rest[j] = queue[j + 1]
    BY <1>1
  <2>3. \A j \in DOMAIN queue : queue[j].type = "hello" => queue[j].node = Owner(x)
    BY <1>1 DEF TopicInv, OwnNames
  <2>4. \A j \in DOMAIN rest : rest[j].type = "hello" => rest[j].node = Owner(x)
    BY <2>2, <2>3
  <2>5. \A s \in Sockets :
           \A j \in DOMAIN up'[s] : up'[s][j].type = "hello" => up'[s][j].node = Owner(s)
    BY <1>3, <2>4 DEF TopicInv, OwnNames
  <2> QED BY <2>1, <2>5 DEF OwnNames
<1>6. OverlapSound'
  <2> SUFFICES ASSUME NEW s \in Sockets, NEW y \in Sockets, Rivals(s, y),
                      remote'[s] = "open", remote'[y] = "open"
               PROVE  <<Owner(s), RelayOf(s)>> \in overlap'
    BY DEF OverlapSound, Rivals
  <2> QED BY <1>3 DEF TopicInv, OverlapSound
<1>7. TopicsAgree'
  <2> SUFFICES ASSUME NEW s \in Sockets, NEW t \in Topics, Alone(s)'
               PROVE  Introduced(s)' /\ Agrees(s, t)'
    BY DEF TopicsAgree
  <2>1. Alone(s)
    BY <1>3 DEF Alone
  <2>2. Introduced(s) /\ Agrees(s, t)
    BY <2>1 DEF TopicInv, TopicsAgree
  <2>3. CASE s # x
    <3>1. Owner(s) # Owner(x) \/ RelayOf(s) # RelayOf(x)
      BY <1>3, <2>1, <2>3 DEF TopicInv, OverlapSound, Rivals, Alone
    <3>2. up'[s] = up[s] /\ me'[s].node = me[s].node /\ (Listed(s, t)' <=> Listed(s, t))
      BY <1>3, <2>3, <3>1
    <3> QED BY <1>4, <2>2, <3>2 DEF Introduced, Agrees
  <2>4. CASE s = x
    <3>1. f = queue[1]
      BY <1>1, <1>2
    <3>2. me[x].node # Owner(x) => f.type = "hello"
      BY <1>1, <2>2, <2>4, <3>1 DEF Introduced
    <3>3. Introduced(s)'
      BY <1>3, <2>4, <3>2 DEF Introduced
    <3>4. LastSays(queue, t, Listened(Owner(x)))
      BY <1>1, <2>2, <2>4 DEF Agrees
    <3>5. LastSays(rest, t, Listened(Owner(x)))
      BY <1>1, <3>4, TailTells
    <3>6. ASSUME Silent(rest, t) PROVE Listed(x, t)' <=> t \in Listened(Owner(x))
      <4>1. CASE Tells(f, t)
        <5>1. Says(f, t) <=> t \in Listened(Owner(x))
          BY <1>1, <1>2, <3>4, <3>6, <4>1, TailTells
        <5>2. me[x].node = Owner(x)
          BY <3>2, <4>1 DEF Tells
        <5> QED BY <1>3, <4>1, <5>1, <5>2
      <4>2. CASE ~Tells(f, t)
        <5>1. Silent(queue, t)
          BY <1>1, <1>2, <3>4, <3>6, <4>2, TailTells
        <5> QED BY <1>1, <1>3, <2>2, <2>4, <4>2, <5>1 DEF Agrees
      <4> QED BY <4>1, <4>2
    <3> QED BY <1>3, <1>4, <2>4, <3>3, <3>5, <3>6 DEF Agrees
  <2> QED BY <2>3, <2>4
<1> QED BY <1>5, <1>6, <1>7

LEMMA RelayKeepsTopics ==
    ASSUME TopicInv, RelayActs
    PROVE  OwnNames' /\ OverlapSound' /\ TopicsAgree'
<1>1. /\ RelayStep /\ UNCHANGED topic /\ overlap \subseteq overlap'
      /\ \A x \in Sockets : remote[x] = "unused" /\ remote'[x] = "open" /\ Overlaps(x)
                              => <<Owner(x), RelayOf(x)>> \in overlap'
  BY DEF RelayActs, nodeVars
<1>2. \A x \in Sockets : Accept(x) => remote[x] = "unused" /\ remote'[x] = "open"
  BY DEF Accept, TopicInv, WsInv, LinkTypeOK
<1> QED BY <1>1, <1>2, AcceptKeepsTopics, CloseKeepsTopics, CrashKeepsTopics,
           OnMessageKeepsTopics DEF RelayStep

\* A frame in the name of the socket's owner, and one that says nothing about topics.
Proper(f, s) == f \in Frames /\ (f.type = "hello" => f.node = Owner(s))
OffTopic(f) == f \in Frames /\ f.type \notin {"hello", "subscribe", "unsubscribe"}

LEMMA AppendNames ==
    ASSUME NEW queue \in Seq(Frames), NEW f, NEW s, Proper(f, s),
           \A j \in DOMAIN queue : queue[j].type = "hello" => queue[j].node = Owner(s)
    PROVE  \A j \in DOMAIN Append(queue, f) :
              Append(queue, f)[j].type = "hello" => Append(queue, f)[j].node = Owner(s)
<1>1. PICK m \in Nat : m = Len(queue) /\ DOMAIN queue = 1..m
  OBVIOUS
<1>2. PICK more : more = Append(queue, f)
  OBVIOUS
<1>3. DOMAIN more = 1..(m + 1) /\ more[m + 1] = f /\ \A j \in 1..m : more[j] = queue[j]
  BY <1>1, <1>2
<1>4. \A j \in 1..(m + 1) : j \in 1..m \/ j = m + 1
  OBVIOUS
<1> QED BY <1>1, <1>2, <1>3, <1>4 DEF Proper

LEMMA NamesKept ==
    ASSUME TopicInv, UNCHANGED me,
           \A s \in Sockets :
              \/ up'[s] = up[s]
              \/ \E f : Proper(f, s) /\ up'[s] = Append(up[s], f)
              \/ \E f, g : Proper(f, s) /\ Proper(g, s) /\ up'[s] = Append(Append(up[s], f), g)
    PROVE  OwnNames'
<1> SUFFICES ASSUME NEW s \in Sockets
             PROVE  \A j \in DOMAIN up'[s] : up'[s][j].type = "hello" => up'[s][j].node = Owner(s)
  BY DEF TopicInv, OwnNames
<1>1. /\ up[s] \in Seq(Frames)
      /\ \A j \in DOMAIN up[s] : up[s][j].type = "hello" => up[s][j].node = Owner(s)
  BY DEF TopicInv, WsInv, LinkTypeOK, OwnNames
<1>2. CASE up'[s] = up[s]
  BY <1>1, <1>2
<1>3. ASSUME NEW f, Proper(f, s), up'[s] = Append(up[s], f)
      PROVE  \A j \in DOMAIN up'[s] : up'[s][j].type = "hello" => up'[s][j].node = Owner(s)
  BY <1>1, <1>3, AppendNames
<1>4. ASSUME NEW f, NEW g, Proper(f, s), Proper(g, s), up'[s] = Append(Append(up[s], f), g)
      PROVE  \A j \in DOMAIN up'[s] : up'[s][j].type = "hello" => up'[s][j].node = Owner(s)
  <2>1. PICK queue : queue = Append(up[s], f)
    OBVIOUS
  <2>2. queue \in Seq(Frames)
    BY <1>1, <1>4, <2>1, AppendProperties DEF Proper
  <2>3. \A j \in DOMAIN queue : queue[j].type = "hello" => queue[j].node = Owner(s)
    BY <1>1, <1>4, <2>1, AppendNames
  <2> QED BY <1>4, <2>1, <2>2, <2>3, AppendNames
<1> QED BY <1>2, <1>3, <1>4

LEMMA OverlapKept ==
    ASSUME TopicInv, UNCHANGED <<remote, overlap>>
    PROVE  OverlapSound'
  BY DEF TopicInv, OverlapSound

\* A node that says nothing about its topics, and wants the same.
LEMMA TopicsUndisturbed ==
    ASSUME TopicInv, UNCHANGED <<remote, relayVars, overlap>>,
           \A s \in Sockets : client'[s] = "open" => client[s] = "open",
           \A n \in Nodes : Listened(n)' = Listened(n),
           \A s \in Sockets :
              (up'[s] = up[s]) \/ (\E f : OffTopic(f) /\ up'[s] = Append(up[s], f))
    PROVE  OwnNames' /\ OverlapSound' /\ TopicsAgree'
<1>1. UNCHANGED <<me, listeners>>
  BY DEF relayVars
<1>2. \A s \in Sockets : \A f : OffTopic(f) => Proper(f, s)
  BY DEF OffTopic, Proper
<1>3. OwnNames'
  BY <1>1, <1>2, NamesKept
<1>4. TopicsAgree'
  <2> SUFFICES ASSUME NEW s \in Sockets, NEW t \in Topics, Alone(s)'
               PROVE  Introduced(s)' /\ Agrees(s, t)'
    BY DEF TopicsAgree
  <2>1. Alone(s)
    BY DEF Alone
  <2>2. Introduced(s) /\ Agrees(s, t)
    BY <2>1 DEF TopicInv, TopicsAgree
  <2>3. /\ up[s] \in Seq(Frames) /\ me'[s] = me[s] /\ (Listed(s, t)' <=> Listed(s, t))
        /\ Listened(Owner(s))' = Listened(Owner(s))
    BY <1>1, SocketParts DEF TopicInv, WsInv, LinkTypeOK, Listed
  <2>4. CASE up'[s] = up[s]
    BY <2>2, <2>3, <2>4 DEF Introduced, Agrees
  <2>5. ASSUME NEW f, OffTopic(f), up'[s] = Append(up[s], f)
        PROVE  Introduced(s)' /\ Agrees(s, t)'
    <3>1. f \in Frames /\ ~Tells(f, t)
      BY <2>5 DEF OffTopic, Tells
    <3>2. Introduced(s)'
      <4>1. PICK m \in Nat : m = Len(up[s])
        BY <2>3
      <4>2. Len(up'[s]) = m + 1 /\ \A j \in 1..m : up'[s][j] = up[s][j]
        BY <2>3, <2>5, <3>1, <4>1, AppendProperties
      <4> QED BY <2>2, <2>3, <4>1, <4>2 DEF Introduced
    <3>3. LastSays(up'[s], t, Listened(Owner(s)))
      BY <2>2, <2>3, <2>5, <3>1, AppendTells DEF Agrees
    <3>4. Silent(up'[s], t) => Silent(up[s], t)
      BY <2>3, <2>5, <3>1, AppendTells
    <3> QED BY <2>2, <2>3, <3>2, <3>3, <3>4 DEF Agrees
  <2> QED BY <2>4, <2>5
<1> QED BY <1>3, <1>4, OverlapKept

\* A node that tells every relay what it wants from now on.
LEMMA TopicsTold ==
    ASSUME TopicInv, UNCHANGED <<remote, relayVars, overlap>>,
           NEW n \in Nodes, NEW f \in Frames, NEW g \in Frames, f = Hello(n, f.services), g.type # "hello",
           \A m \in Nodes \ {n} : Listened(m)' = Listened(m),
           \A t \in Topics : IF Tells(g, t) THEN Says(g, t) <=> t \in Listened(n)'
                             ELSE t \in Listened(n)' <=> t \in Listened(n),
           \A s \in Sockets : Owner(s) # n => client'[s] = client[s],
           \A s \in Sockets :
              IF Owner(s) = n /\ client'[s] = "open" /\ remote[s] = "open"
              THEN \/ client[s] = "open" /\ up'[s] = Append(up[s], g)
                   \/ client[s] = "open" /\ up'[s] = Append(Append(up[s], f), g)
                   \/ /\ up[s] = <<>> /\ up'[s] = Append(Append(<<>>, f), g)
                      /\ f.type = "hello" /\ g.type = "subscribe"
              ELSE up'[s] = up[s]
    PROVE  OwnNames' /\ OverlapSound' /\ TopicsAgree'
<1>1. UNCHANGED <<me, listeners>>
  BY DEF relayVars
<1>2. \A s \in Sockets : Owner(s) = n => Proper(f, s) /\ Proper(g, s)
  BY DEF OffTopic, Proper, Hello
<1>3. OwnNames'
  BY <1>1, <1>2, NamesKept
<1>4. TopicsAgree'
  <2> SUFFICES ASSUME NEW s \in Sockets, NEW t \in Topics, Alone(s)'
               PROVE  Introduced(s)' /\ Agrees(s, t)'
    BY DEF TopicsAgree
  <2>1. client'[s] = "open" /\ remote[s] = "open" /\ <<Owner(s), RelayOf(s)>> \notin overlap
    BY DEF Alone
  <2>2. client[s] = "open" => Introduced(s) /\ Agrees(s, t)
    BY <2>1 DEF TopicInv, TopicsAgree, Alone
  <2>3. up[s] \in Seq(Frames) /\ me'[s] = me[s] /\ (Listed(s, t)' <=> Listed(s, t))
    BY <1>1 DEF TopicInv, WsInv, LinkTypeOK, Listed
  <2>4. CASE Owner(s) # n
    <3>1. client[s] = "open" /\ up'[s] = up[s] /\ Listened(Owner(s))' = Listened(Owner(s))
      BY <2>1, <2>4, SocketParts
    <3> QED BY <2>2, <2>3, <3>1 DEF Introduced, Agrees
  <2>5. CASE Owner(s) = n
    <3>1. PICK queue \in Seq(Frames) :
             /\ up'[s] = Append(queue, g)
             /\ \/ client[s] = "open" /\ queue = up[s]
                \/ client[s] = "open" /\ queue = Append(up[s], f)
                \/ /\ up[s] = <<>> /\ queue = Append(<<>>, f)
                   /\ f.type = "hello" /\ g.type = "subscribe"
      <4>1. Append(up[s], f) \in Seq(Frames)
        BY <2>3, AppendProperties
      <4> QED BY <2>1, <2>3, <2>5, <4>1
    <3>2. PICK m \in Nat : m = Len(queue)
      OBVIOUS
    <3>3. Len(up'[s]) = m + 1 /\ up'[s][m + 1] = g /\ \A j \in 1..m : up'[s][j] = queue[j]
      BY <3>1, <3>2, AppendProperties
    <3>4. Introduced(s)'
      <4>1. CASE client[s] = "open" /\ queue = up[s]
        BY <2>2, <2>3, <3>2, <3>3, <4>1 DEF Introduced
      <4>2. CASE client[s] = "open" /\ queue = Append(up[s], f)
        <5>1. PICK l \in Nat : l = Len(up[s])
          BY <2>3
        <5>2. m = l + 1 /\ \A j \in 1..l : queue[j] = up[s][j]
          BY <2>3, <3>2, <4>2, <5>1, AppendProperties
        <5> QED BY <2>2, <2>3, <3>3, <4>2, <5>1, <5>2 DEF Introduced
      <4>3. CASE /\ up[s] = <<>> /\ queue = Append(<<>>, f)
                 /\ f.type = "hello" /\ g.type = "subscribe"
        <5>1. m = 1 /\ queue[1] = f
          BY <3>2, <4>3
        <5> QED BY <3>3, <4>3, <5>1 DEF Introduced
      <4> QED BY <3>1, <4>1, <4>2, <4>3
    <3>5. CASE Tells(g, t)
      <4>1. LastSays(up'[s], t, Listened(n)') /\ ~Silent(up'[s], t)
        BY <3>1, <3>5, AppendTells
      <4> QED BY <2>5, <3>4, <4>1 DEF Agrees
    <3>6. CASE ~Tells(g, t)
      <4>1. client[s] = "open"
        BY <3>1, <3>6 DEF Tells
      <4>2. Agrees(s, t) /\ (t \in Listened(n)' <=> t \in Listened(n))
        BY <2>2, <3>6, <4>1
      <4>3. ~Tells(f, t)
        BY DEF Tells, Hello
      <4>4. /\ LastSays(up[s], t, Listened(n))
            /\ Silent(up[s], t) => (Listed(s, t) <=> t \in Listened(n))
        BY <2>5, <4>2 DEF Agrees
      <4>5. /\ LastSays(queue, t, Listened(n))
            /\ Silent(queue, t) => (Listed(s, t) <=> t \in Listened(n))
        <5>1. CASE queue = up[s]
          BY <4>4, <5>1
        <5>2. CASE queue = Append(up[s], f)
          <6>1. LastSays(queue, t, Listened(n))
            BY <2>3, <4>3, <4>4, <5>2, AppendTells
          <6>2. Silent(queue, t) => Silent(up[s], t)
            BY <2>3, <4>3, <5>2, AppendTells
          <6> QED BY <4>4, <6>1, <6>2
        <5>3. queue = up[s] \/ queue = Append(up[s], f)
          BY <3>1, <3>6 DEF Tells
        <5> QED BY <5>1, <5>2, <5>3
      <4>6. /\ LastSays(up'[s], t, Listened(n))
            /\ Silent(up'[s], t) => (Listed(s, t) <=> t \in Listened(n))
        BY <3>1, <3>6, <4>5, AppendTells
      <4>7. LastSays(up'[s], t, Listened(n)')
        BY <4>2, <4>6 DEF LastSays
      <4> QED BY <2>3, <2>5, <3>4, <4>2, <4>6, <4>7 DEF Agrees
    <3> QED BY <3>5, <3>6
  <2> QED BY <2>4, <2>5
<1> QED BY <1>3, <1>4, OverlapKept

LEMMA TwoFrames ==
    ASSUME NEW f \in Frames, NEW g \in Frames
    PROVE  Append(<<f>>, g) = <<f, g>>
<1>1. PICK one \in Seq(Frames) : one = <<f>> /\ Len(one) = 1 /\ one[1] = f
  BY OneFrame
<1>2. PICK both : both = <<f, g>>
  OBVIOUS
<1>3. both \in Seq(Frames) /\ Len(both) = 2 /\ both[1] = f /\ both[2] = g
  BY <1>2
<1>4. PICK more : more = Append(one, g)
  OBVIOUS
<1>5. more \in Seq(Frames) /\ Len(more) = 2 /\ more[1] = f /\ more[2] = g
  BY <1>1, <1>4, AppendProperties
<1>6. \A j \in 1..Len(more) : more[j] = both[j]
  BY <1>3, <1>5
<1>7. more = both
  BY <1>3, <1>5, <1>6, SeqEqual
<1> QED BY <1>1, <1>2, <1>4, <1>7

LEMMA ConcatFrames ==
    ASSUME NEW queue \in Seq(Frames), NEW f \in Frames, NEW g \in Frames
    PROVE  /\ queue \o <<g>> = Append(queue, g)
           /\ queue \o <<f, g>> = Append(Append(queue, f), g)
<1>1. queue \o <<g>> = Append(queue, g)
  BY AppendIsConcat
<1>2. PICK one, two : one = <<f>> /\ two = <<g>>
  OBVIOUS
<1>3. one \in Seq(Frames) /\ two \in Seq(Frames) /\ one \o two = <<f, g>>
  <2>1. one \in Seq(Frames) /\ two \in Seq(Frames)
    BY <1>2, OneFrame
  <2>2. one \o two = Append(one, g)
    BY <1>2, <2>1, AppendIsConcat
  <2>3. Append(one, g) = <<f, g>>
    BY <1>2, TwoFrames
  <2> QED BY <2>1, <2>2, <2>3
<1>4. PICK longer \in Seq(Frames) : longer = Append(queue, f) /\ longer = queue \o one
  BY <1>2, AppendIsConcat, AppendProperties
<1>5. Append(longer, g) = longer \o two
  <2>1. Append(longer, g) = longer \o <<g>>
    BY AppendIsConcat
  <2> QED BY <1>2, <2>1
<1>6. (queue \o one) \o two = queue \o (one \o two)
  <2>1. \A q1, q2, q3 \in Seq(Frames) : (q1 \o q2) \o q3 = q1 \o (q2 \o q3)
    BY ConcatAssociative
  <2> QED BY <1>3, <2>1
<1> QED BY <1>1, <1>3, <1>4, <1>5, <1>6

\* An announcement is a hello and, when there are topics, those the node wants.
LEMMA AnnouncementSays ==
    ASSUME NodeInv, NEW n \in Nodes, NEW services \in SUBSET Services
    PROVE  \E f \in Frames, g \in Frames :
              /\ f = Hello(n, f.services) /\ f.type = "hello"
              /\ g = Subscribe(Listened(n)) /\ g.type = "subscribe"
              /\ \A t : Tells(g, t) /\ (Says(g, t) <=> t \in Listened(n))
              /\ \A queue \in Seq(Frames) :
                    queue \o Announcement(n, services) =
                       IF Topics = {} THEN Append(queue, f) ELSE Append(Append(queue, f), g)
<1>1. PICK f \in Frames : f = Hello(n, services)
  BY FrameTypes
<1>2. PICK g \in Frames : g = Subscribe(Listened(n))
  <2>1. Listened(n) \in SUBSET Topics
    BY DEF Listened
  <2> QED BY <2>1, FrameTypes
<1>3. f = Hello(n, f.services) /\ f.type = "hello" /\ g.type = "subscribe" /\ g.topics = Listened(n)
  BY <1>1, <1>2 DEF Hello, Subscribe
<1>4. \A t : Tells(g, t) /\ (Says(g, t) <=> t \in Listened(n))
  BY <1>3 DEF Tells, Says
<1>5. Announcement(n, services) = IF Topics = {} THEN <<f>> ELSE <<f, g>>
  <2>1. PICK one \in Seq(Frames) : one = <<f>>
    BY OneFrame
  <2>2. one \o <<>> = one
    BY ConcatEmptySeq
  <2>3. one \o <<g>> = Append(one, g)
    BY AppendIsConcat
  <2>4. Append(one, g) = <<f, g>>
    BY <2>1, TwoFrames
  <2> QED BY <1>1, <1>2, <2>1, <2>2, <2>3, <2>4 DEF Announcement, LocalHello
<1> QED BY <1>2, <1>3, <1>4, <1>5, ConcatFrames

LEMMA AnnouncingKeepsTopics ==
    ASSUME TopicInv, NEW n \in Nodes, NEW services \in SUBSET Services,
           UNCHANGED <<remote, relayVars, overlap, topic>>,
           \A s \in Sockets : Owner(s) # n => client'[s] = client[s],
           \A s \in Sockets : client'[s] = "open" => (client[s] = "open" \/ up[s] = <<>>),
           \A s \in Sockets :
              up'[s] = IF Owner(s) = n /\ client'[s] = "open" /\ remote[s] = "open"
                       THEN up[s] \o Announcement(n, services) ELSE up[s]
    PROVE  OwnNames' /\ OverlapSound' /\ TopicsAgree'
<1>1. PICK f \in Frames, g \in Frames :
              /\ f = Hello(n, f.services) /\ f.type = "hello" /\ g.type = "subscribe"
              /\ \A t : Tells(g, t) /\ (Says(g, t) <=> t \in Listened(n))
              /\ \A queue \in Seq(Frames) :
                    queue \o Announcement(n, services) =
                       IF Topics = {} THEN Append(queue, f) ELSE Append(Append(queue, f), g)
  BY AnnouncementSays DEF TopicInv, WsInv
<1>2. \A m : Listened(m)' = Listened(m)
  BY DEF Listened
<1>3. \A s \in Sockets : up[s] \in Seq(Frames)
  BY DEF TopicInv, WsInv, LinkTypeOK
<1>4. CASE Topics = {}
  <2>1. \A s \in Sockets : up'[s] = up[s] \/ (Proper(f, s) /\ up'[s] = Append(up[s], f))
    <3>1. \A s \in Sockets : up'[s] = up[s] \/ (Owner(s) = n /\ up'[s] = Append(up[s], f))
      BY <1>1, <1>3, <1>4
    <3>2. \A s \in Sockets : Owner(s) = n => Proper(f, s)
      BY <1>1 DEF Proper, Hello
    <3> QED BY <3>1, <3>2
  <2>2. OwnNames'
    BY <2>1, NamesKept DEF relayVars
  <2>3. TopicsAgree'
    BY <1>4 DEF TopicsAgree
  <2> QED BY <2>2, <2>3, OverlapKept
<1>5. CASE Topics # {}
  <2>1. \A s \in Sockets :
           IF Owner(s) = n /\ client'[s] = "open" /\ remote[s] = "open"
           THEN \/ client[s] = "open" /\ up'[s] = Append(Append(up[s], f), g)
                \/ up[s] = <<>> /\ up'[s] = Append(Append(<<>>, f), g)
           ELSE up'[s] = up[s]
    BY <1>1, <1>3, <1>5
  <2>2. \A t \in Topics : IF Tells(g, t) THEN Says(g, t) <=> t \in Listened(n)'
                          ELSE t \in Listened(n)' <=> t \in Listened(n)
    BY <1>1, <1>2
  <2> QED BY <1>1, <1>2, <2>1, <2>2, TopicsTold
<1> QED BY <1>4, <1>5

\* One frame to every relay, about one topic or all.
LEMMA TellingKeepsTopics ==
    ASSUME TopicInv, NEW n \in Nodes, NEW g \in Frames, g.type # "hello",
           SendAll(n, <<g>>), UNCHANGED <<client, remote, relayVars, overlap>>,
           \A m \in Nodes \ {n} : Listened(m)' = Listened(m),
           \A t \in Topics : IF Tells(g, t) THEN Says(g, t) <=> t \in Listened(n)'
                             ELSE t \in Listened(n)' <=> t \in Listened(n)
    PROVE  OwnNames' /\ OverlapSound' /\ TopicsAgree'
<1>1. PICK f \in Frames : f = Hello(n, {})
  BY FrameTypes
<1>2. f = Hello(n, f.services)
  BY <1>1 DEF Hello
<1>3. PICK frames \in Seq(Frames) : frames = <<g>>
  BY OneFrame
<1>4. \A s \in Sockets : up[s] \in Seq(Frames) /\ up[s] \o frames = Append(up[s], g)
  BY <1>3, ConcatFrames DEF TopicInv, WsInv, LinkTypeOK
<1>5. \A s \in Sockets : up'[s] = IF Owner(s) = n /\ client[s] = "open" /\ remote[s] = "open"
                                  THEN Append(up[s], g) ELSE up[s]
  BY <1>3, <1>4, SendAllType DEF TopicInv, WsInv
<1> QED BY <1>2, <1>5, TopicsTold

\* What a node sends on one socket is about a call.
LEMMA SendingIsOffTopic ==
    ASSUME LinkTypeOK, NEW s \in Sockets, NEW f, OffTopic(f), SendOn(s, f), NEW x \in Sockets
    PROVE  (up'[x] = up[x]) \/ (\E g : OffTopic(g) /\ up'[x] = Append(up[x], g))
<1>1. f \in Frames
  BY DEF OffTopic
<1>2. up'[x] = up[x] \/ up'[x] = Append(up[x], f)
  BY <1>1, SendOnType
<1> QED BY <1>2

LEMMA NodeKeepsTopics ==
    ASSUME TopicInv, NEW n \in Nodes, NodeStep(n), UNCHANGED <<relayVars, overlap>>
    PROVE  OwnNames' /\ OverlapSound' /\ TopicsAgree'
<1>1. UNCHANGED remote
  BY NodeLeavesRemote
<1>2. LinkTypeOK /\ NodeInv /\ client \in [Sockets -> ClientStates]
  BY DEF TopicInv, WsInv, LinkTypeOK
<1>3. topic' = topic => \A m : Listened(m)' = Listened(m)
  BY DEF Listened
<1>4. ASSUME NEW k \in Relays, Connect(n, k) \/ Reconnect(n, k)
      PROVE  OwnNames' /\ OverlapSound' /\ TopicsAgree'
  <2>1. UNCHANGED <<up, topic>> /\ \E x : client' = [client EXCEPT ![x] = "connecting"]
    BY <1>4 DEF Connect, Reconnect, Dial, CreateSocket
  <2>2. \A s \in Sockets : client'[s] = "open" => client[s] = "open"
    BY <1>2, <2>1
  <2> QED BY <1>1, <1>3, <2>1, <2>2, TopicsUndisturbed
<1>5. ASSUME NEW k \in Relays, Lost(n, k) \/ CloseUrl(n, k)
      PROVE  OwnNames' /\ OverlapSound' /\ TopicsAgree'
  <2>1. /\ UNCHANGED <<up, topic>>
        /\ client' = client \/ \E x : client' = [client EXCEPT ![x] = "closed"]
    BY <1>5 DEF Lost, CloseUrl, Finalized, Disconnected
  <2>2. \A s \in Sockets : client'[s] = "open" => client[s] = "open"
    BY <1>2, <2>1
  <2> QED BY <1>1, <1>3, <2>1, <2>2, TopicsUndisturbed
<1>6. ASSUME NEW k \in Relays,
             \/ HelloArrives(n, k) \/ OfflineArrives(n, k) \/ ResponseArrives(n, k)
             \/ RequestArrives(n, k) \/ CancelArrives(n, k) \/ PublishArrives(n, k)
      PROVE  OwnNames' /\ OverlapSound' /\ TopicsAgree'
  <2>1. UNCHANGED <<client, up, topic>>
    BY <1>6 DEF HelloArrives, OfflineArrives, ResponseArrives, RequestArrives, CancelArrives,
                PublishArrives, nodeVars
  <2> QED BY <1>1, <1>3, <2>1, TopicsUndisturbed
<1>7. ASSUME NEW k \in Relays, Opened(n, k)
      PROVE  OwnNames' /\ OverlapSound' /\ TopicsAgree'
  <2>1. PICK x : x = conn[n][k].socket
    OBVIOUS
  <2>2. PICK services \in SUBSET Services : services = local[n].services
    BY <1>2 DEF NodeInv, NodeTypes
  <2>3. /\ conn[n][k].phase = "connecting" /\ client' = [client EXCEPT ![x] = "open"]
        /\ topic' = topic
        /\ \A s \in Sockets : up'[s] = IF (s \in OpenSockets(n) \/ s = x) /\ remote[s] = "open"
                                       THEN up[s] \o Announcement(n, services) ELSE up[s]
    BY <1>7, <2>1, <2>2 DEF Opened
  <2>4. x \in Sockets /\ Owner(x) = n /\ client[x] = "connecting"
    BY <1>2, <2>1, <2>3 DEF NodeInv, ConnSound, Live
  <2>5. up[x] = <<>>
    BY <1>2, <2>4 DEF NodeInv, ConnSound
  <2>6. client'[x] = "open" /\ \A s \in Sockets \ {x} : client'[s] = client[s]
    BY <1>2, <2>3, <2>4
  <2>7. \A s \in Sockets : s \in OpenSockets(n) <=> Owner(s) = n /\ client[s] = "open"
    BY <1>2, OpenSocketsOpen
  <2>8. \A s \in Sockets :
           up'[s] = IF Owner(s) = n /\ client'[s] = "open" /\ remote[s] = "open"
                    THEN up[s] \o Announcement(n, services) ELSE up[s]
    BY <2>3, <2>4, <2>6, <2>7
  <2> QED BY <1>1, <2>3, <2>4, <2>5, <2>6, <2>8, AnnouncingKeepsTopics
<1>8. ASSUME NEW services \in SUBSET Services, Announce(n, services)
      PROVE  OwnNames' /\ OverlapSound' /\ TopicsAgree'
  <2>1. PICK frames \in Seq(Frames) : frames = Announcement(n, services)
    BY <1>2, AnnouncementType
  <2>2. SendAll(n, frames) /\ UNCHANGED <<client, topic>>
    BY <1>8, <2>1 DEF Announce
  <2>3. \A s \in Sockets :
           up'[s] = IF Owner(s) = n /\ client[s] = "open" /\ remote[s] = "open"
                    THEN up[s] \o frames ELSE up[s]
    BY <1>2, <2>2, SendAllType
  <2> QED BY <1>1, <2>1, <2>2, <2>3, AnnouncingKeepsTopics
<1>9. ASSUME NEW r \in Requests, NEW v \in Services, NEW d \in Nodes \cup {NoNode},
             Send(n, r, v, d)
      PROVE  OwnNames' /\ OverlapSound' /\ TopicsAgree'
  <2>1. PICK s \in RpcSockets(n, d) : SendOn(s, Request(r, v, d))
    BY <1>9 DEF Send
  <2>2. s \in Sockets
    BY <1>2, RpcSocketsOpen, OpenSocketsOpen
  <2>3. OffTopic(Request(r, v, d))
    BY FrameTypes DEF OffTopic, Request
  <2>4. UNCHANGED <<client, topic>>
    BY <1>9 DEF Send
  <2>5. \A x \in Sockets : (up'[x] = up[x]) \/ (\E g : OffTopic(g) /\ up'[x] = Append(up[x], g))
    BY <1>2, <2>1, <2>2, <2>3, SendingIsOffTopic
  <2> QED BY <1>1, <1>3, <2>4, <2>5, TopicsUndisturbed
<1>10. ASSUME NEW r \in Requests, Resolve(r)
       PROVE  OwnNames' /\ OverlapSound' /\ TopicsAgree'
  <2>1. UNCHANGED <<client, up, topic>>
    BY <1>10 DEF Resolve
  <2> QED BY <1>1, <1>3, <2>1, TopicsUndisturbed
<1>11. ASSUME NEW r \in Requests, CancelCall(n, r)
       PROVE  OwnNames' /\ OverlapSound' /\ TopicsAgree'
  <2>1. PICK s : s = call[r].socket
    OBVIOUS
  <2>2. SendOn(s, Cancel(r)) /\ UNCHANGED <<client, topic>>
    BY <1>11, <2>1 DEF CancelCall
  <2>3. OffTopic(Cancel(r))
    BY FrameTypes DEF OffTopic, Cancel
  <2>4. ASSUME NEW x \in Sockets
        PROVE  (up'[x] = up[x]) \/ (\E g : OffTopic(g) /\ up'[x] = Append(up[x], g))
    <3>1. CASE s \in Sockets
      BY <1>2, <2>2, <2>3, <3>1, SendingIsOffTopic
    <3>2. CASE s \notin Sockets
      BY <1>2, <2>2, <3>2 DEF SendOn, LinkTypeOK
    <3> QED BY <3>1, <3>2
  <2> QED BY <1>1, <1>3, <2>2, <2>4, TopicsUndisturbed
<1>12. ASSUME NEW r \in Requests, NEW end \in {"more", "completed"}, Reply(n, r, end)
       PROVE  OwnNames' /\ OverlapSound' /\ TopicsAgree'
  <2>1. PICK d \in Nodes : d = CallerOf[r]
    BY WsLinkAssumption
  <2>2. /\ UNCHANGED <<client, topic>>
        /\ up' = up \/ \E s \in RpcSockets(n, d) : SendOn(s, Response(r, n, d, end))
    BY <1>12, <2>1 DEF Reply
  <2>3. OffTopic(Response(r, n, d, end))
    BY FrameTypes DEF OffTopic, Response, Ends
  <2>4. \A s \in RpcSockets(n, d) : s \in Sockets
    BY <1>2, RpcSocketsOpen, OpenSocketsOpen
  <2>5. \A x \in Sockets : (up'[x] = up[x]) \/ (\E g : OffTopic(g) /\ up'[x] = Append(up[x], g))
    BY <1>2, <2>2, <2>3, <2>4, SendingIsOffTopic
  <2> QED BY <1>1, <1>3, <2>2, <2>5, TopicsUndisturbed
<1>13. ASSUME NEW t \in Topics, Listen(n, t)
       PROVE  OwnNames' /\ OverlapSound' /\ TopicsAgree'
  <2>1. /\ topic[n][t] # "on" /\ topic' = [topic EXCEPT ![n][t] = "on"] /\ client' = client
        /\ IF topic[n][t] = "none" THEN SendAll(n, <<Subscribe(Listened(n) \cup {t})>>)
           ELSE UNCHANGED up
    BY <1>13 DEF Listen
  <2>2. \A m \in Nodes : Listened(m)' = IF m = n THEN Listened(n) \cup {t} ELSE Listened(m)
    BY <1>2, <2>1 DEF Listened, NodeInv, NodeTypes
  <2>3. CASE topic[n][t] = "none"
    <3>1. PICK topics \in SUBSET Topics : topics = Listened(n) \cup {t}
      BY DEF Listened
    <3>2. PICK g \in Frames : g = Subscribe(topics)
      BY FrameTypes
    <3>3. g.type = "subscribe" /\ \A x : Tells(g, x) /\ (Says(g, x) <=> x \in topics)
      BY <3>2 DEF Subscribe, Tells, Says
    <3>4. SendAll(n, <<g>>)
      BY <2>1, <2>3, <3>1, <3>2
    <3> QED BY <1>1, <2>1, <2>2, <3>1, <3>3, <3>4, TellingKeepsTopics
  <2>4. CASE topic[n][t] # "none"
    <3>1. t \in Listened(n)
      BY <2>4 DEF Listened
    <3>2. \A m \in Nodes : Listened(m)' = Listened(m)
      BY <2>2, <3>1
    <3> QED BY <1>1, <2>1, <2>4, <3>2, TopicsUndisturbed
  <2> QED BY <2>3, <2>4
<1>14. ASSUME NEW t \in Topics, Unlisten(n, t)
       PROVE  OwnNames' /\ OverlapSound' /\ TopicsAgree'
  <2>1. /\ topic[n][t] = "on" /\ topic' = [topic EXCEPT ![n][t] = "lingering"]
        /\ UNCHANGED <<client, up>>
    BY <1>14 DEF Unlisten, linkVars
  <2>2. \A m \in Nodes : Listened(m)' = Listened(m)
    BY <1>2, <2>1 DEF Listened, NodeInv, NodeTypes
  <2> QED BY <1>1, <2>1, <2>2, TopicsUndisturbed
<1>15. ASSUME NEW t \in Topics, LingerEnds(n, t)
       PROVE  OwnNames' /\ OverlapSound' /\ TopicsAgree'
  <2>1. /\ topic' = [topic EXCEPT ![n][t] = "none"] /\ client' = client
        /\ SendAll(n, <<Unsubscribe(t)>>)
    BY <1>15 DEF LingerEnds
  <2>2. \A m \in Nodes : Listened(m)' = IF m = n THEN Listened(n) \ {t} ELSE Listened(m)
    BY <1>2, <2>1 DEF Listened, NodeInv, NodeTypes
  <2>3. PICK g \in Frames : g = Unsubscribe(t)
    BY FrameTypes
  <2>4. g.type = "unsubscribe" /\ \A x : (Tells(g, x) <=> x = t) /\ ~Says(g, x)
    BY <2>3 DEF Unsubscribe, Tells, Says
  <2> QED BY <1>1, <2>1, <2>2, <2>3, <2>4, TellingKeepsTopics
<1>16. ASSUME NEW t \in Topics, PublishTo(n, t)
       PROVE  OwnNames' /\ OverlapSound' /\ TopicsAgree'
  <2>1. UNCHANGED <<client, topic>> /\ SendAll(n, <<Publish(t)>>)
    BY <1>16 DEF PublishTo
  <2>2. PICK g \in Frames : g = Publish(t)
    BY FrameTypes
  <2>3. g.type = "publish" /\ \A x : ~Tells(g, x)
    BY <2>2 DEF Publish, Tells
  <2> QED BY <1>1, <1>3, <2>1, <2>2, <2>3, TellingKeepsTopics
<1> QED BY <1>4, <1>5, <1>6, <1>7, <1>8, <1>9, <1>10, <1>11, <1>12, <1>13, <1>14, <1>15, <1>16
        DEF NodeStep

LEMMA TopicInvInit == Init => TopicInv
<1> SUFFICES ASSUME Init PROVE TopicInv
  OBVIOUS
<1>1. \A s \in Sockets : /\ client[s] = "unused" /\ remote[s] = "unused" /\ up[s] = <<>>
                         /\ me[s] = Nobody
  BY DEF Init, LinkInit, RelayInit
<1>2. OwnNames /\ OverlapSound /\ TopicsAgree
  BY <1>1 DEF OwnNames, OverlapSound, TopicsAgree, Alone, Nobody
<1> QED BY <1>2, WsInvInit DEF TopicInv

LEMMA TopicInvNext == TopicInv /\ [Next]_vars => TopicInv'
<1> SUFFICES ASSUME TopicInv, [Next]_vars PROVE TopicInv'
  OBVIOUS
<1>1. WsInv'
  BY WsInvNext DEF TopicInv
<1>2. CASE RelayActs
  BY <1>1, <1>2, RelayKeepsTopics DEF TopicInv
<1>3. CASE NodeActs
  BY <1>1, <1>3, NodeKeepsTopics DEF TopicInv, NodeActs
<1>4. CASE UNCHANGED vars
  <2>1. UNCHANGED <<client, remote, up, relayVars, overlap, topic>>
    BY <1>4 DEF vars, linkVars, nodeVars
  <2>2. \A m : Listened(m)' = Listened(m)
    BY <2>1 DEF Listened
  <2> QED BY <1>1, <2>1, <2>2, TopicsUndisturbed DEF TopicInv
<1> QED BY <1>2, <1>3, <1>4 DEF Next

LEMMA TopicsAreSound == Spec => []TopicInv
  BY TopicInvInit, TopicInvNext, PTL DEF Spec

\* When a relay has read all a node sent on the socket it knows it by, it lists the node
\* for exactly the topics whose stream the node keeps, whatever sockets the two have lost
\* one after the other: in the meantime the last frame under way about a topic tells the
\* truth.  A node of which the relay once had two open sockets is not in the statement:
\* their frames overtake each other (WebsocketRelayServer.ts:372-398).
THEOREM SubscriptionsFollow == Spec => []SubscriptionsAreExact
<1>1. ASSUME TopicInv PROVE SubscriptionsAreExact
  <2> SUFFICES ASSUME NEW n \in Nodes, NEW k \in Relays, NEW t \in Topics, NEW s,
                      s = conn[n][k].socket, conn[n][k].phase = "open", nodes[k][n] = s,
                      up[s] = <<>>, <<n, k>> \notin overlap
               PROVE  n \in listeners[k][t] <=> topic[n][t] # "none"
    BY DEF SubscriptionsAreExact
  <2>1. s \in Sockets /\ Owner(s) = n /\ RelayOf(s) = k /\ client[s] = "open"
    BY <1>1 DEF TopicInv, WsInv, NodeInv, ConnSound, Live
  <2>2. remote[s] = "open"
    BY <1>1, <2>1, SocketParts DEF TopicInv, WsInv, RelayInv, Registered, LiveAt
  <2>3. Agrees(s, t)
    BY <1>1, <2>1, <2>2 DEF TopicInv, TopicsAgree, Alone
  <2>4. Silent(up[s], t)
    BY DEF Silent
  <2> QED BY <2>1, <2>3, <2>4 DEF Agrees, Listed, Listened
<1> QED BY <1>1, TopicsAreSound, PTL

-----------------------------------------------------------------------------
(* The directory.  What a node reads of another ends with the truth: the   *)
(* last frame under way about it says what the relay has registered, and   *)
(* with none under way the node knows it already.                          *)

About(f, i) == f.type \in {"hello", "offline"} /\ f.node = i

Mute(queue, i) == \A j \in DOMAIN queue : ~About(queue[j], i)
Only(queue, i, word) == \A j \in DOMAIN queue : About(queue[j], i) => queue[j] = word

LastWord(queue, i, word) ==
    \A j \in DOMAIN queue :
        /\ About(queue[j], i)
        /\ \A h \in DOMAIN queue : h > j => ~About(queue[h], i)
        => queue[j] = word

LEMMA ConcatWords ==
    ASSUME NEW queue \in Seq(Frames), NEW frames \in Seq(Frames), NEW i, NEW word
    PROVE  /\ Mute(queue \o frames, i) <=> Mute(queue, i) /\ Mute(frames, i)
           /\ Only(queue, i, word) /\ Only(frames, i, word) => Only(queue \o frames, i, word)
           /\ /\ Only(frames, i, word)
              /\ Mute(frames, i) => LastWord(queue, i, word)
              => LastWord(queue \o frames, i, word)
<1>1. PICK m \in Nat : m = Len(queue) /\ DOMAIN queue = 1..m
  OBVIOUS
<1>2. PICK l \in Nat : l = Len(frames) /\ DOMAIN frames = 1..l
  OBVIOUS
<1>3. PICK more : more = queue \o frames
  OBVIOUS
<1>4. /\ DOMAIN more = 1..(m + l) /\ \A j \in 1..m : more[j] = queue[j]
      /\ \A j \in 1..l : more[m + j] = frames[j]
  BY <1>1, <1>2, <1>3
<1>5. /\ \A j \in 1..m : j \in 1..(m + l)
      /\ \A j \in 1..l : m + j \in 1..(m + l)
      /\ \A h \in 1..m, j \in 1..l : m + j > h
  OBVIOUS
<1>6. \A j \in 1..(m + l) : j \in 1..m \/ \E h \in 1..l : j = m + h
  <2> SUFFICES ASSUME NEW j \in 1..(m + l), j \notin 1..m PROVE \E h \in 1..l : j = m + h
    OBVIOUS
  <2>1. j - m \in 1..l /\ j = m + (j - m)
    OBVIOUS
  <2> QED BY <2>1
<1>7. Mute(more, i) <=> Mute(queue, i) /\ Mute(frames, i)
  <2>1. ASSUME Mute(more, i) PROVE Mute(queue, i) /\ Mute(frames, i)
    BY <1>1, <1>2, <1>4, <1>5, <2>1 DEF Mute
  <2>2. ASSUME Mute(queue, i), Mute(frames, i), NEW j \in 1..(m + l) PROVE ~About(more[j], i)
    <3>1. CASE j \in 1..m
      BY <1>1, <1>4, <2>2, <3>1 DEF Mute
    <3>2. ASSUME NEW h \in 1..l, j = m + h PROVE ~About(more[j], i)
      BY <1>2, <1>4, <2>2, <3>2 DEF Mute
    <3> QED BY <1>6, <3>1, <3>2
  <2> QED BY <1>4, <2>1, <2>2 DEF Mute
<1>8. ASSUME Only(queue, i, word), Only(frames, i, word), NEW j \in 1..(m + l), About(more[j], i)
      PROVE  more[j] = word
  <2>1. CASE j \in 1..m
    BY <1>1, <1>4, <1>8, <2>1 DEF Only
  <2>2. ASSUME NEW h \in 1..l, j = m + h PROVE more[j] = word
    BY <1>2, <1>4, <1>8, <2>2 DEF Only
  <2> QED BY <1>6, <2>1, <2>2
<1>9. ASSUME Only(frames, i, word), Mute(frames, i) => LastWord(queue, i, word),
             NEW j \in 1..(m + l), About(more[j], i),
             \A h \in 1..(m + l) : h > j => ~About(more[h], i)
      PROVE  more[j] = word
  <2>1. CASE j \in 1..m
    <3>1. Mute(frames, i)
      BY <1>2, <1>4, <1>5, <1>9, <2>1 DEF Mute
    <3>2. About(queue[j], i) /\ \A h \in 1..m : h > j => ~About(queue[h], i)
      BY <1>4, <1>5, <1>9, <2>1
    <3> QED BY <1>1, <1>4, <1>9, <2>1, <3>1, <3>2 DEF LastWord
  <2>2. ASSUME NEW h \in 1..l, j = m + h PROVE more[j] = word
    BY <1>2, <1>4, <1>9, <2>2 DEF Only
  <2> QED BY <1>6, <2>1, <2>2
<1> QED BY <1>3, <1>4, <1>7, <1>8, <1>9 DEF Only, LastWord

LEMMA TailWords ==
    ASSUME NEW queue \in Seq(Frames), queue # <<>>, NEW i, NEW word, LastWord(queue, i, word)
    PROVE  /\ LastWord(Tail(queue), i, word)
           /\ Mute(Tail(queue), i) => IF About(Head(queue), i) THEN Head(queue) = word
                                      ELSE Mute(queue, i)
<1>1. PICK m \in Nat : m = Len(queue) /\ DOMAIN queue = 1..m /\ m > 0
  BY EmptySeq
<1>2. PICK rest : rest = Tail(queue)
  OBVIOUS
<1>3. DOMAIN rest = 1..(m - 1) /\ \A j \in 1..(m - 1) : rest[j] = queue[j + 1]
  BY <1>1, <1>2
<1>4. PICK first : first = Head(queue)
  OBVIOUS
<1>5. first = queue[1]
  BY <1>1, <1>4
<1>6. \A j \in 1..m : j = 1 \/ (j - 1 \in 1..(m - 1) /\ (j - 1) + 1 = j)
  BY <1>1
<1>7. LastWord(rest, i, word)
  <2> SUFFICES ASSUME NEW j \in 1..(m - 1), About(rest[j], i),
                      \A h \in 1..(m - 1) : h > j => ~About(rest[h], i)
               PROVE  rest[j] = word
    BY <1>3 DEF LastWord
  <2>1. PICK x \in 1..m : x = j + 1
    BY <1>1
  <2>2. About(queue[x], i)
    BY <1>3, <2>1
  <2>3. ASSUME NEW h \in 1..m, h > x PROVE ~About(queue[h], i)
    <3>1. PICK y \in 1..(m - 1) : y = h - 1 /\ y > j /\ y + 1 = h
      BY <2>1, <2>3
    <3> QED BY <1>3, <3>1
  <2>4. queue[x] = word
    BY <1>1, <2>2, <2>3 DEF LastWord
  <2> QED BY <1>3, <2>1, <2>4
<1>8. ASSUME Mute(rest, i)
      PROVE  IF About(first, i) THEN first = word ELSE Mute(queue, i)
  <2>1. \A j \in 1..m : j # 1 => ~About(queue[j], i)
    BY <1>3, <1>6, <1>8 DEF Mute
  <2>2. CASE About(first, i)
    <3>1. 1 \in 1..m /\ \A h \in 1..m : h > 1 => h # 1
      BY <1>1
    <3> QED BY <1>1, <1>5, <2>1, <2>2, <3>1 DEF LastWord
  <2>3. CASE ~About(first, i)
    BY <1>1, <1>5, <2>1, <2>3 DEF Mute
  <2> QED BY <2>2, <2>3
<1> QED BY <1>2, <1>4, <1>7, <1>8

\* What the relay has registered about a node, as the frame that says so.
Word(k, i) == IF nodes[k][i] = NoSocket THEN Offline(i) ELSE Hello(i, me[nodes[k][i]].services)

\* A node that is not registered is unknown or reported unreachable; close(url) reports nothing.
Doubted(n, i) == local[n].closes = 0 => known[n][i] = Unknown \/ reach[n][i] = "unreachable"

Believes(n, k, i) ==
    IF nodes[k][i] = NoSocket THEN Doubted(n, i)
    ELSE known[n][i] = [relay |-> k, services |-> me[nodes[k][i]].services]

Listening(n, k) == conn[n][k].phase \in Live /\ remote[conn[n][k].socket] = "open"

Follows(queue, n, k, i) ==
    /\ LastWord(queue, i, Word(k, i))
    /\ Mute(queue, i) => Believes(n, k, i)

Informed(k) ==
    \A n, i \in Nodes : Listening(n, k) /\ i # n => Follows(down[conn[n][k].socket], n, k, i)

\* Without a connection the directory is left over from before.
Dormant(k) == \A n, i \in Nodes : conn[n][k].phase # "open" => Doubted(n, i)

\* Nodes do not hear of themselves, and an entry that no relay reported is none.
Tidy == \A n, i \in Nodes : known[n][i].relay = NoRelay \/ i = n => known[n][i] = Unknown

Unwritten == \A s \in Sockets : remote[s] = "unused" => down[s] = <<>>

NewsInv(k) == TopicInv /\ Unwritten /\ Tidy /\ Dormant(k) /\ Informed(k)

LEMMA DirectoryWords ==
    ASSUME NEW registered \in Registry, NEW metadata \in Metadata, NEW t \in Sockets,
           NEW i \in Nodes, NEW k, k = RelayOf(t)
    PROVE  /\ Only(Directory(t, registered, metadata), i,
                   Hello(i, metadata[registered[k][i]].services))
           /\ Mute(Directory(t, registered, metadata), i) <=> registered[k][i] \in {NoSocket, t}
<1> DEFINE hello(n) == Hello(n, metadata[registered[k][n]].services)
<1>1. PICK others : others = {n \in Nodes : registered[k][n] \notin {NoSocket, t}}
  OBVIOUS
<1>2. PICK S : S = {hello(n) : n \in others}
  OBVIOUS
<1>3. IsFiniteSet(others)
  BY <1>1, WsLinkAssumption, FS_Subset
<1>4. IsFiniteSet(S)
  <2>1. PICK g : g = [n \in others |-> hello(n)]
    OBVIOUS
  <2>2. S = {g[n] : n \in others} /\ DOMAIN g = others
    BY <1>2, <2>1
  <2> QED BY <1>3, <2>2, ImageFinite
<1>5. PICK list : list = Directory(t, registered, metadata)
  OBVIOUS
<1>6. list = SetToSeq(S)
  BY <1>1, <1>2, <1>5 DEF Directory
<1>7. \A f : Has(list, f) <=> f \in S
  BY <1>4, <1>6, SetToSeqLists
<1>8. \A n : About(hello(n), i) <=> n = i
  BY DEF Hello, About
<1>9. \A f : f \in S <=> \E n \in others : f = hello(n)
  BY <1>2
<1>10. ASSUME NEW j \in DOMAIN list, About(list[j], i) PROVE list[j] = hello(i) /\ i \in others
  <2>1. list[j] \in S
    BY <1>7 DEF Has
  <2>2. PICK n \in others : list[j] = hello(n)
    BY <1>9, <2>1
  <2> QED BY <1>8, <1>10, <2>2
<1>11. ASSUME i \in others PROVE ~Mute(list, i)
  <2>1. hello(i) \in S
    BY <1>9, <1>11
  <2>2. PICK j \in DOMAIN list : list[j] = hello(i)
    BY <1>7, <2>1 DEF Has
  <2> QED BY <1>8, <2>2 DEF Mute
<1>12. Mute(list, i) <=> i \notin others
  BY <1>10, <1>11 DEF Mute
<1>13. Only(list, i, hello(i))
  BY <1>10 DEF Only
<1> QED BY <1>1, <1>5, <1>12, <1>13

\* Letters that are not about nodes.
MuteLetters(frames) == \A t \in Sockets : \A i : Mute(frames[t], i)

LEMMA LettersAreMute ==
    /\ MuteLetters(Silence)
    /\ \A s, f : f.type \notin {"hello", "offline"} => MuteLetters(To(s, f))
    /\ \A k \in Relays, s \in Sockets : MuteLetters(Farewell(k, s))
<1>1. MuteLetters(Silence)
  BY DEF MuteLetters, Mute, Silence
<1>2. ASSUME NEW s, NEW f, f.type \notin {"hello", "offline"} PROVE MuteLetters(To(s, f))
  <2> SUFFICES ASSUME NEW t \in Sockets, NEW i, NEW j \in DOMAIN To(s, f)[t]
               PROVE  ~About(To(s, f)[t][j], i)
    BY DEF MuteLetters, Mute
  <2>1. To(s, f)[t] = IF t = s THEN <<f>> ELSE <<>>
    BY DEF To
  <2>2. To(s, f)[t] = <<f>> /\ j = 1
    BY <2>1
  <2>3. To(s, f)[t][j] = f
    BY <2>2
  <2> QED BY <1>2, <2>3 DEF About
<1>3. ASSUME NEW k \in Relays, NEW s \in Sockets PROVE MuteLetters(Farewell(k, s))
  <2> SUFFICES ASSUME NEW t \in Sockets, NEW i PROVE Mute(Farewell(k, s)[t], i)
    BY DEF MuteLetters
  <2>1. PICK callers : callers = {q \in Involved(k, s) : pending[k][q].caller = t /\ t # s}
    OBVIOUS
  <2>2. PICK providers : providers = {q \in Involved(k, s) : pending[k][q].provider = t /\ t # s}
    OBVIOUS
  <2>3. PICK S : S = {OfflineAnswer(r) : r \in callers} \cup {Cancel(r) : r \in providers}
    OBVIOUS
  <2>4. callers \subseteq Requests /\ providers \subseteq Requests
    BY <2>1, <2>2 DEF Involved
  <2>5. IsFiniteSet(callers) /\ IsFiniteSet(providers)
    BY <2>4, WsLinkAssumption, FS_Subset
  <2>6. IsFiniteSet({OfflineAnswer(r) : r \in callers})
    <3>1. PICK f : f = [r \in callers |-> OfflineAnswer(r)]
      OBVIOUS
    <3>2. {OfflineAnswer(r) : r \in callers} = {f[r] : r \in callers} /\ DOMAIN f = callers
      BY <3>1
    <3> QED BY <2>5, <3>2, ImageFinite
  <2>7. IsFiniteSet({Cancel(r) : r \in providers})
    <3>1. PICK f : f = [r \in providers |-> Cancel(r)]
      OBVIOUS
    <3>2. {Cancel(r) : r \in providers} = {f[r] : r \in providers} /\ DOMAIN f = providers
      BY <3>1
    <3> QED BY <2>5, <3>2, ImageFinite
  <2>8. IsFiniteSet(S)
    BY <2>3, <2>6, <2>7, FS_Union
  <2>9. \A f \in S : f.type \in {"response", "cancel"}
    BY <2>3 DEF OfflineAnswer, Response, Cancel
  <2>10. Farewell(k, s)[t] = SetToSeq(S)
    BY <2>1, <2>2, <2>3 DEF Farewell
  <2>11. \A f : Has(Farewell(k, s)[t], f) <=> f \in S
    BY <2>8, <2>10, SetToSeqLists
  <2> QED BY <2>9, <2>11 DEF Has, Mute, About
<1> QED BY <1>1, <1>2, <1>3

LEMMA BeliefsStay ==
    ASSUME NEW k, NEW i, UNCHANGED nodeVars, Word(k, i)' = Word(k, i)
    PROVE  \A n : Believes(n, k, i)' = Believes(n, k, i)
<1>1. nodes'[k][i] = NoSocket <=> nodes[k][i] = NoSocket
  BY DEF Word, Offline, Hello
<1>2. nodes[k][i] # NoSocket => me'[nodes'[k][i]].services = me[nodes[k][i]].services
  BY <1>1 DEF Word, Hello
<1>3. UNCHANGED <<known, reach, local>>
  BY DEF nodeVars
<1> QED BY <1>1, <1>2, <1>3 DEF Believes, Doubted

\* A relay tells each other node of what it changes.
LEMMA WritingInforms ==
    ASSUME NEW k, Relays = {k}, NewsInv(k), UNCHANGED <<client, nodeVars>>, NEW frames \in Letters,
           \A t \in Sockets : remote'[t] = "open" => remote[t] = "open",
           \A t \in Sockets : remote'[t] = "open" /\ client[t] # "closed"
                                 => down'[t] = down[t] \o frames[t],
           \A t \in Sockets, i \in Nodes :
              remote'[t] = "open" /\ i # Owner(t) =>
                 /\ Only(frames[t], i, Word(k, i)')
                 /\ Mute(frames[t], i) => Word(k, i)' = Word(k, i)
    PROVE  Informed(k)'
<1> SUFFICES ASSUME NEW n \in Nodes, NEW i \in Nodes, Listening(n, k)', i # n
             PROVE  Follows(down[conn[n][k].socket], n, k, i)'
  BY DEF Informed
<1>1. PICK s : s = conn[n][k].socket
  OBVIOUS
<1>2. conn'[n][k] = conn[n][k] /\ conn[n][k].phase \in Live /\ remote'[s] = "open"
  BY <1>1 DEF Listening, nodeVars
<1>3. s \in Sockets /\ Owner(s) = n /\ client[s] \in Live
  BY <1>1, <1>2 DEF NewsInv, TopicInv, WsInv, NodeInv, ConnSound
<1>4. Listening(n, k)
  BY <1>1, <1>2, <1>3 DEF Listening
<1>5. LastWord(down[s], i, Word(k, i)) /\ (Mute(down[s], i) => Believes(n, k, i))
  BY <1>1, <1>4 DEF NewsInv, Informed, Follows
<1>6. down'[s] = down[s] \o frames[s] /\ down[s] \in Seq(Frames) /\ frames[s] \in Seq(Frames)
  BY <1>2, <1>3 DEF Live, Letters, NewsInv, TopicInv, WsInv, LinkTypeOK
<1>7. Only(frames[s], i, Word(k, i)') /\ (Mute(frames[s], i) => Word(k, i)' = Word(k, i))
  BY <1>2, <1>3
<1>8. LastWord(down'[s], i, Word(k, i)')
  BY <1>5, <1>6, <1>7, ConcatWords
<1>9. ASSUME Mute(down'[s], i) PROVE Believes(n, k, i)'
  <2>1. Mute(down[s] \o frames[s], i)
    BY <1>6, <1>9
  <2>2. Mute(down[s], i) /\ Mute(frames[s], i)
    BY <1>6, <2>1, ConcatWords
  <2> QED BY <1>5, <1>7, <2>2, BeliefsStay
<1>10. down'[conn'[n][k].socket] = down'[s]
  BY <1>1, <1>2
<1> QED BY <1>8, <1>9, <1>10 DEF Follows

\* What it has registered stays, and no letter is about a node.
LEMMA WritingIsMute ==
    ASSUME NEW k, Relays = {k}, NewsInv(k), UNCHANGED <<client, remote, nodes, me, nodeVars>>,
           NEW frames \in Letters, MuteLetters(frames), Deliver(frames)
    PROVE  Informed(k)'
<1>1. \A t \in Sockets : remote'[t] = "open" /\ client[t] # "closed"
                            => down'[t] = down[t] \o frames[t]
  BY DEF Deliver, Write
<1>2. ASSUME NEW t \in Sockets, NEW i \in Nodes
      PROVE  /\ Only(frames[t], i, Word(k, i)')
             /\ Mute(frames[t], i) => Word(k, i)' = Word(k, i)
  BY DEF MuteLetters, Mute, Only, Word
<1> QED BY <1>1, <1>2, WritingInforms

\* Nothing that a node reads or knows changes.
LEMMA NothingIsNews ==
    ASSUME NEW k, Relays = {k}, NewsInv(k), UNCHANGED <<client, nodes, me, nodeVars, down>>,
           \A t \in Sockets : remote'[t] = "open" => remote[t] = "open"
    PROVE  Informed(k)'
<1>1. \A n, i \in Nodes : Listening(n, k)' => Listening(n, k)
  <2> SUFFICES ASSUME NEW n \in Nodes, Listening(n, k)' PROVE Listening(n, k)
    OBVIOUS
  <2>1. conn[n][k].phase \in Live /\ remote'[conn[n][k].socket] = "open"
    BY DEF Listening, nodeVars
  <2>2. conn[n][k].socket \in Sockets
    BY <2>1 DEF NewsInv, TopicInv, WsInv, NodeInv, ConnSound
  <2> QED BY <2>1, <2>2 DEF Listening
<1>2. \A i : Word(k, i)' = Word(k, i)
  BY DEF Word
<1>3. \A n, i : Believes(n, k, i)' = Believes(n, k, i)
  BY <1>2, BeliefsStay
<1>4. conn' = conn /\ down' = down
  BY DEF nodeVars
<1> QED BY <1>1, <1>2, <1>3, <1>4 DEF NewsInv, Informed, Follows

LEMMA AcceptInforms ==
    ASSUME NEW k, Relays = {k}, NewsInv(k), NEW x \in Sockets, Accept(x), UNCHANGED nodeVars
    PROVE  Informed(k)'
<1>1. /\ client[x] = "connecting" /\ remote[x] = "unused"
      /\ UNCHANGED <<client, nodes, me>>
      /\ \A s \in Sockets \ {x} : remote'[s] = remote[s] /\ down'[s] = down[s]
      /\ down'[x] = down[x] \o Directory(x, nodes, me)
  BY DEF Accept, NewsInv, TopicInv, WsInv, LinkTypeOK
<1>2. \A i : Word(k, i)' = Word(k, i)
  BY <1>1 DEF Word
<1>3. \A n, i : Believes(n, k, i)' = Believes(n, k, i)
  BY <1>2, BeliefsStay
<1> SUFFICES ASSUME NEW n \in Nodes, NEW i \in Nodes, Listening(n, k)', i # n
             PROVE  Follows(down[conn[n][k].socket], n, k, i)'
  BY DEF Informed
<1>4. PICK s : s = conn[n][k].socket
  OBVIOUS
<1>5. conn'[n][k] = conn[n][k] /\ conn[n][k].phase \in Live /\ remote'[s] = "open"
  BY <1>4 DEF Listening, nodeVars
<1>6. s \in Sockets /\ Owner(s) = n /\ client[s] = conn[n][k].phase
  BY <1>4, <1>5 DEF NewsInv, TopicInv, WsInv, NodeInv, ConnSound
<1>7. CASE s # x
  <2>1. Listening(n, k)
    BY <1>1, <1>4, <1>5, <1>6, <1>7 DEF Listening
  <2>2. Follows(down[s], n, k, i)
    BY <1>4, <2>1 DEF NewsInv, Informed
  <2>3. down'[s] = down[s] /\ down'[conn'[n][k].socket] = down'[s]
    BY <1>1, <1>4, <1>5, <1>6, <1>7
  <2> QED BY <1>2, <1>3, <2>2, <2>3 DEF Follows
<1>8. CASE s = x
  <2>1. PICK list \in Seq(Frames) : list = Directory(x, nodes, me)
    BY DirectoryType DEF NewsInv, TopicInv, WsInv, RelayInv, RelayTypes
  <2>2. down[x] = <<>> /\ <<>> \in Seq(Frames)
    BY <1>1 DEF NewsInv, Unwritten
  <2>3. RelayOf(x) = k
    BY SocketParts
  <2>4. /\ Only(list, i, Hello(i, me[nodes[k][i]].services))
        /\ Mute(list, i) <=> nodes[k][i] \in {NoSocket, x}
    BY <2>1, <2>3, DirectoryWords DEF NewsInv, TopicInv, WsInv, RelayInv, RelayTypes
  <2>5. nodes[k][i] # x
    <3> SUFFICES ASSUME nodes[k][i] = x PROVE FALSE
      OBVIOUS
    <3>1. remote[x] = "open"
      BY SocketParts DEF NewsInv, TopicInv, WsInv, RelayInv, Registered, LiveAt
    <3> QED BY <1>1, <3>1
  <2>6. Only(list, i, Word(k, i))
    BY <2>4, <2>5 DEF Only, Mute, Word
  <2>7. LastWord(<<>>, i, Word(k, i)) /\ Mute(<<>>, i)
    BY DEF LastWord, Mute
  <2>8. LastWord(<<>> \o list, i, Word(k, i)) /\ (Mute(<<>> \o list, i) => Mute(list, i))
    BY <2>1, <2>2, <2>6, <2>7, ConcatWords
  <2>9. ASSUME Mute(list, i) PROVE Believes(n, k, i)
    <3>1. nodes[k][i] = NoSocket
      BY <2>4, <2>5, <2>9
    <3>2. conn[n][k].phase # "open"
      BY <1>1, <1>6, <1>8
    <3> QED BY <3>1, <3>2 DEF Believes, NewsInv, Dormant
  <2>10. down'[conn'[n][k].socket] = <<>> \o list
    BY <1>1, <1>4, <1>5, <1>8, <2>1, <2>2
  <2> QED BY <1>2, <1>3, <2>8, <2>9, <2>10 DEF Follows
<1> QED BY <1>7, <1>8

\* The socket registered for a node is one of its own.
LEMMA RegisteredOwn ==
    /\ \A k \in Relays, i \in Nodes : TopicInv /\ nodes[k][i] # NoSocket =>
          nodes[k][i] \in Sockets /\ Owner(nodes[k][i]) = i /\ me[nodes[k][i]].node = i
    /\ \A k \in Relays, i \in Nodes : TopicInv' /\ nodes'[k][i] # NoSocket =>
          nodes'[k][i] \in Sockets /\ Owner(nodes'[k][i]) = i
<1>1. ASSUME NEW k \in Relays, NEW i \in Nodes, TopicInv, nodes[k][i] # NoSocket
      PROVE  nodes[k][i] \in Sockets /\ Owner(nodes[k][i]) = i /\ me[nodes[k][i]].node = i
  <2>1. PICK s : s = nodes[k][i]
    OBVIOUS
  <2>2. s \in Sockets /\ me[s].node = i
    BY <1>1, <2>1 DEF TopicInv, WsInv, RelayInv, Registered, LiveAt
  <2> QED BY <1>1, <2>1, <2>2, WsLinkAssumption DEF TopicInv, OwnNames
<1>2. ASSUME NEW k \in Relays, NEW i \in Nodes, TopicInv', nodes'[k][i] # NoSocket
      PROVE  nodes'[k][i] \in Sockets /\ Owner(nodes'[k][i]) = i
  <2>1. PICK s : s = nodes'[k][i]
    OBVIOUS
  <2>2. s \in Sockets /\ me'[s].node = i
    BY <1>2, <2>1 DEF TopicInv, WsInv, RelayInv, Registered, LiveAt
  <2> QED BY <1>2, <2>1, <2>2, WsLinkAssumption DEF TopicInv, OwnNames
<1> QED BY <1>1, <1>2

LEMMA OnHelloInforms ==
    ASSUME NEW k, Relays = {k}, NewsInv(k), TopicInv', NEW x \in Sockets, OnHello(x),
           UNCHANGED nodeVars
    PROVE  Informed(k)'
<1>1. PICK n \in Nodes : n = Owner(x)
  BY SocketParts
<1>2. PICK f : f = Head(up[x])
  OBVIOUS
<1>3. RelayOf(x) = k
  BY SocketParts
<1>4. /\ f \in Frames /\ f.type = "hello" /\ remote[x] = "open" /\ up[x] # <<>>
      /\ up[x] \in Seq(Frames)
  BY <1>2, ReadType DEF OnHello, NewsInv, TopicInv, WsInv, LinkTypeOK
<1>5. f.node = n /\ f.services \in SUBSET Services /\ me[x].node \in {NoNode, n}
  <2>1. f = up[x][1] /\ 1 \in DOMAIN up[x]
    BY <1>2, <1>4
  <2> QED BY <1>1, <1>4, <2>1, FrameParts DEF NewsInv, TopicInv, OwnNames
<1>6. PICK services \in SUBSET Services : services = f.services
  BY <1>5
<1>7. /\ nodes' = [nodes EXCEPT ![k][n] = x]
      /\ me' = [me EXCEPT ![x] = [node |-> n, services |-> services]]
      /\ UNCHANGED <<client, remote>>
      /\ Deliver(Also(Silence, IF ShouldSync(k, n, services) THEN Sync(k, nodes', me')
                               ELSE Silence))
  BY <1>2, <1>3, <1>5, <1>6 DEF OnHello
<1>8. PICK letters : letters = Also(Silence, IF ShouldSync(k, n, services)
                                             THEN Sync(k, nodes', me') ELSE Silence)
  OBVIOUS
<1>9. nodes \in Registry /\ me \in Metadata /\ nodes' \in Registry /\ me' \in Metadata
  BY DEF NewsInv, TopicInv, WsInv, RelayInv, RelayTypes
<1>10. letters \in Letters
  <2>1. PICK synced \in Letters : synced = IF ShouldSync(k, n, services)
                                           THEN Sync(k, nodes', me') ELSE Silence
    BY <1>9, SyncType, LettersAreSent
  <2> QED BY <1>8, <2>1, LettersAreSent
<1>11. ASSUME NEW t \in Sockets
       PROVE  letters[t] = IF ShouldSync(k, n, services) THEN Directory(t, nodes', me') ELSE <<>>
  <2>1. Directory(t, nodes', me') \in Seq(Frames) /\ <<>> \in Seq(Frames)
    BY <1>9, DirectoryType
  <2>2. RelayOf(t) = k
    BY SocketParts
  <2>3. Sync(k, nodes', me')[t] = Directory(t, nodes', me')
    BY <2>2 DEF Sync
  <2>4. letters[t] = <<>> \o (IF ShouldSync(k, n, services) THEN Directory(t, nodes', me') ELSE <<>>)
    BY <1>8, <2>3 DEF Also, Silence
  <2> QED BY <2>1, <2>4
<1>12. ASSUME NEW i \in Nodes, i # n PROVE Word(k, i)' = Word(k, i)
  <2>1. nodes'[k][i] = nodes[k][i]
    BY <1>7, <1>9, <1>12 DEF Registry
  <2>2. nodes[k][i] # NoSocket => nodes[k][i] \in Sockets \ {x}
    BY <1>1, <1>12, RegisteredOwn DEF NewsInv
  <2>3. \A s \in Sockets \ {x} : me'[s] = me[s]
    BY <1>7
  <2> QED BY <2>1, <2>2, <2>3 DEF Word
<1>13. ASSUME ~ShouldSync(k, n, services) PROVE Word(k, n)' = Word(k, n)
  <2>1. nodes[k][n] # NoSocket /\ me[nodes[k][n]].services = services
    BY <1>13 DEF ShouldSync
  <2>2. nodes'[k][n] = x /\ me'[x].services = services /\ x # NoSocket
    BY <1>7, <1>9, SocketParts DEF Registry, Metadata
  <2> QED BY <2>1, <2>2 DEF Word
<1>14. ASSUME NEW t \in Sockets, NEW i \in Nodes, i # Owner(t)
       PROVE  /\ Only(letters[t], i, Word(k, i)')
              /\ Mute(letters[t], i) => Word(k, i)' = Word(k, i)
  <2>1. CASE ~ShouldSync(k, n, services)
    BY <1>11, <1>12, <1>13, <2>1 DEF Only
  <2>2. CASE ShouldSync(k, n, services)
    <3>1. RelayOf(t) = k
      BY SocketParts
    <3>2. letters[t] = Directory(t, nodes', me')
      BY <1>11, <2>2
    <3>3. /\ Only(letters[t], i, Hello(i, me'[nodes'[k][i]].services))
          /\ Mute(letters[t], i) <=> nodes'[k][i] \in {NoSocket, t}
      BY <1>9, <3>1, <3>2, DirectoryWords
    <3>4. nodes'[k][i] # t
      BY <1>14, RegisteredOwn, SocketParts
    <3>5. Only(letters[t], i, Word(k, i)')
      BY <3>3, <3>4 DEF Only, Mute, Word
    <3>6. ASSUME Mute(letters[t], i) PROVE i # n
      <4>1. nodes'[k][i] = NoSocket
        BY <3>3, <3>4, <3>6
      <4>2. nodes'[k][n] = x /\ x # NoSocket
        BY <1>7, <1>9, SocketParts DEF Registry
      <4> QED BY <4>1, <4>2
    <3> QED BY <1>12, <3>5, <3>6
  <2> QED BY <2>1, <2>2
<1>15. \A t \in Sockets : remote'[t] = "open" /\ client[t] # "closed"
                             => down'[t] = down[t] \o letters[t]
  BY <1>7, <1>8 DEF Deliver, Write
<1> QED BY <1>7, <1>10, <1>14, <1>15, WritingInforms

LEMMA CloseInforms ==
    ASSUME NEW k, Relays = {k}, NewsInv(k), TopicInv', NEW x \in Sockets, Close(x),
           UNCHANGED nodeVars
    PROVE  Informed(k)'
<1>1. RelayOf(x) = k
  BY SocketParts
<1>2. PICK n : n = me[x].node
  OBVIOUS
<1>3. n \in {NoNode, Owner(x)} /\ Owner(x) \in Nodes
  BY <1>2, SocketParts DEF NewsInv, TopicInv, OwnNames
<1>4. /\ remote[x] = "open" /\ UNCHANGED client
      /\ remote' = [remote EXCEPT ![x] = "closed"]
      /\ me' = [me EXCEPT ![x] = Nobody]
  BY DEF Close
<1>5. nodes \in Registry /\ me \in Metadata /\ nodes' \in Registry
  BY DEF NewsInv, TopicInv, WsInv, RelayInv, RelayTypes
<1>6. /\ remote'[x] = "closed"
      /\ \A t \in Sockets \ {x} : remote'[t] = remote[t] /\ me'[t] = me[t]
  BY <1>4, <1>5 DEF Metadata, NewsInv, TopicInv, WsInv, LinkTypeOK
<1>7. ASSUME NEW i \in Nodes, i # n PROVE nodes[k][i] # x
  BY <1>2, <1>7, RegisteredOwn, SocketParts DEF NewsInv
<1>8. CASE n = NoNode
  <2>1. Write(remote', Farewell(k, x)) /\ UNCHANGED nodes
    BY <1>1, <1>2, <1>4, <1>8 DEF Close
  <2>2. ASSUME NEW i \in Nodes PROVE Word(k, i)' = Word(k, i)
    <3>1. nodes[k][i] # NoSocket => nodes[k][i] \in Sockets \ {x}
      BY <1>7, <1>8, RegisteredOwn, WsLinkAssumption DEF NewsInv
    <3> QED BY <1>6, <2>1, <3>1 DEF Word
  <2>3. PICK letters \in Letters : letters = Farewell(k, x)
    BY FarewellType
  <2>4. MuteLetters(letters)
    BY <2>3, LettersAreMute
  <2>5. \A t \in Sockets, i \in Nodes : Only(letters[t], i, Word(k, i)')
    BY <2>4 DEF MuteLetters, Mute, Only
  <2>6. \A t \in Sockets : remote'[t] = "open" /\ client[t] # "closed"
                              => down'[t] = down[t] \o letters[t]
    BY <2>1, <2>3 DEF Write
  <2> QED BY <1>4, <1>6, <2>2, <2>5, <2>6, WritingInforms
<1>9. CASE n # NoNode
  <2>1. n \in Nodes /\ n = Owner(x)
    BY <1>3, <1>9
  <2>2. /\ nodes' = [nodes EXCEPT ![k][n] = NoSocket]
        /\ Write(remote', Also(Farewell(k, x),
                               Also(Broadcast(Offline(n), x), Sync(k, nodes', me))))
    BY <1>1, <1>2, <1>4, <1>9 DEF Close
  <2>3. PICK letters : letters = Also(Farewell(k, x), Also(Broadcast(Offline(n), x), Sync(k, nodes', me)))
    OBVIOUS
  <2>4. /\ Farewell(k, x) \in Letters /\ Broadcast(Offline(n), x) \in Letters
        /\ Sync(k, nodes', me) \in Letters
    BY <1>5, <2>1, FarewellType, SyncType, LettersAreSent, FrameTypes
  <2>5. letters \in Letters
    <3>1. PICK news \in Letters : news = Also(Broadcast(Offline(n), x), Sync(k, nodes', me))
      BY <2>4, LettersAreSent
    <3> QED BY <2>3, <2>4, <3>1, LettersAreSent
  <2>6. ASSUME NEW i \in Nodes, i # n PROVE Word(k, i)' = Word(k, i)
    <3>1. nodes'[k][i] = nodes[k][i]
      BY <1>5, <2>2, <2>6 DEF Registry
    <3>2. nodes[k][i] # NoSocket => nodes[k][i] \in Sockets \ {x}
      BY <1>7, <2>6, RegisteredOwn DEF NewsInv
    <3> QED BY <1>6, <3>1, <3>2 DEF Word
  <2>7. nodes'[k][n] = NoSocket /\ Word(k, n)' = Offline(n)
    BY <1>5, <2>1, <2>2 DEF Registry, Word
  <2>8. ASSUME NEW t \in Sockets, NEW i \in Nodes, i # Owner(t), remote'[t] = "open"
        PROVE  /\ Only(letters[t], i, Word(k, i)')
               /\ Mute(letters[t], i) => Word(k, i)' = Word(k, i)
    <3>1. t # x /\ RelayOf(t) = k
      BY <1>6, <2>8, SocketParts
    <3>2. PICK a \in Seq(Frames) : a = Farewell(k, x)[t]
      BY <2>4 DEF Letters
    <3>3. PICK b \in Seq(Frames) : b = <<Offline(n)>>
      BY <2>1, FrameTypes, OneFrame
    <3>4. PICK c \in Seq(Frames) : c = Directory(t, nodes', me)
      BY <1>5, DirectoryType
    <3>5. letters[t] = a \o (b \o c)
      BY <1>1, <2>3, <3>1, <3>2, <3>3, <3>4 DEF Also, Broadcast, Sync
    <3>6. Mute(a, i)
      BY <3>2, LettersAreMute DEF MuteLetters
    <3>7. (\A j \in DOMAIN b : b[j] = Offline(n)) /\ 1 \in DOMAIN b
      BY <3>3
    <3>8. IF i = n THEN Only(b, i, Offline(i)) /\ ~Mute(b, i) ELSE Mute(b, i)
      BY <3>7 DEF Only, Mute, About, Offline
    <3>9. /\ Only(c, i, Hello(i, me[nodes'[k][i]].services))
          /\ Mute(c, i) <=> nodes'[k][i] \in {NoSocket, t}
      BY <1>5, <3>1, <3>4, DirectoryWords
    <3>10. nodes'[k][i] # t
      BY <2>8, RegisteredOwn, SocketParts
    <3>11. Only(a, i, Word(k, i)')
      BY <3>6 DEF Mute, Only
    <3>12. Only(b, i, Word(k, i)')
      BY <2>7, <3>8 DEF Mute, Only
    <3>13. Only(c, i, Word(k, i)')
      <4>1. CASE nodes'[k][i] = NoSocket
        BY <3>9, <4>1 DEF Mute, Only
      <4>2. CASE nodes'[k][i] # NoSocket
        <5>1. i # n /\ nodes'[k][i] = nodes[k][i]
          BY <1>5, <2>2, <2>7, <4>2 DEF Registry
        <5>2. Word(k, i) = Hello(i, me[nodes'[k][i]].services)
          BY <4>2, <5>1 DEF Word
        <5> QED BY <2>6, <3>9, <5>1, <5>2
      <4> QED BY <4>1, <4>2
    <3>14. b \o c \in Seq(Frames)
      BY ConcatProperties
    <3>15. Only(b \o c, i, Word(k, i)') /\ (Mute(b \o c, i) <=> Mute(b, i) /\ Mute(c, i))
      BY <3>12, <3>13, ConcatWords
    <3>16. /\ Only(a \o (b \o c), i, Word(k, i)')
           /\ Mute(a \o (b \o c), i) <=> Mute(a, i) /\ Mute(b \o c, i)
      BY <3>11, <3>14, <3>15, ConcatWords
    <3> QED BY <2>6, <3>5, <3>8, <3>15, <3>16
  <2>9. \A t \in Sockets : remote'[t] = "open" /\ client[t] # "closed"
                              => down'[t] = down[t] \o letters[t]
    BY <2>2, <2>3 DEF Write
  <2> QED BY <1>4, <1>6, <2>5, <2>8, <2>9, WritingInforms
<1> QED BY <1>8, <1>9

LEMMA RelayKeepsNews ==
    ASSUME NEW k, Relays = {k}, NewsInv(k), TopicInv', RelayStep, UNCHANGED nodeVars
    PROVE  NewsInv(k)'
<1>1. UNCHANGED client
  BY DEF RelayStep, Accept, Close, Crash, OnMessage, OnHello, OnResponse, OnRequest, OnCancel,
         OnSubscribe, OnUnsubscribe, OnPublish
<1>2. Tidy' /\ Dormant(k)'
  BY DEF NewsInv, Tidy, Dormant, Doubted, nodeVars
<1>3. ASSUME NEW x \in Sockets, Accept(x) PROVE Unwritten' /\ Informed(k)'
  <2>1. Unwritten'
    BY <1>3 DEF Accept, Unwritten, NewsInv, TopicInv, WsInv, LinkTypeOK
  <2> QED BY <1>3, <2>1, AcceptInforms
<1>4. ASSUME NEW x \in Sockets, Close(x) PROVE Unwritten' /\ Informed(k)'
  <2>1. /\ remote' = [remote EXCEPT ![x] = "closed"]
        /\ \E frames : Write(remote', frames)
    BY <1>4 DEF Close
  <2>2. Unwritten'
    BY <2>1 DEF Write, Unwritten, NewsInv, TopicInv, WsInv, LinkTypeOK
  <2> QED BY <1>4, <2>2, CloseInforms
<1>5. ASSUME NEW x \in Sockets, OnHello(x) PROVE Unwritten' /\ Informed(k)'
  <2>1. remote' = remote /\ \E frames : Write(remote, frames)
    BY <1>5 DEF OnHello, Deliver
  <2>2. Unwritten'
    BY <2>1 DEF Write, Unwritten, NewsInv
  <2> QED BY <1>5, <2>2, OnHelloInforms
<1>6. ASSUME NEW frames \in Letters, MuteLetters(frames), Deliver(frames),
             UNCHANGED <<remote, nodes, me>>
      PROVE  Unwritten' /\ Informed(k)'
  <2>1. Unwritten'
    BY <1>6 DEF Deliver, Write, Unwritten, NewsInv
  <2> QED BY <1>1, <1>6, <2>1, WritingIsMute
<1>7. ASSUME NEW x \in Sockets, NEW type, Reads(x, type), type \notin {"hello", "offline"}
      PROVE  /\ Head(up[x]) \in Frames /\ Head(up[x]).type = type
             /\ \A s : To(s, Head(up[x])) \in Letters /\ MuteLetters(To(s, Head(up[x])))
  BY <1>7, ReadType, LettersAreSent, LettersAreMute DEF NewsInv, TopicInv, WsInv
<1>8. Silence \in Letters /\ MuteLetters(Silence)
  BY LettersAreSent, LettersAreMute
<1>9. ASSUME NEW x \in Sockets, OnResponse(x) PROVE Unwritten' /\ Informed(k)'
  <2>1. Reads(x, "response") /\ UNCHANGED <<remote, nodes, me>>
    BY <1>9 DEF OnResponse
  <2>2. Deliver(Silence) \/ \E s : Deliver(To(s, Head(up[x])))
    BY <1>9 DEF OnResponse
  <2> QED BY <1>6, <1>7, <1>8, <2>1, <2>2
<1>10. ASSUME NEW x \in Sockets, OnRequest(x) PROVE Unwritten' /\ Informed(k)'
  <2>1. Reads(x, "request") /\ UNCHANGED <<remote, nodes, me>>
    BY <1>10 DEF OnRequest
  <2>2. PICK r : r = Head(up[x]).request
    OBVIOUS
  <2>3. Deliver(To(x, OfflineAnswer(r))) \/ \E s : Deliver(To(s, Head(up[x])))
    BY <1>10, <2>2 DEF OnRequest
  <2>4. r \in Requests
    BY <1>7, <2>1, <2>2, FrameParts
  <2>5. OfflineAnswer(r) \in Frames /\ OfflineAnswer(r).type = "response"
    <3>1. Response(r, NoNode, NoNode, "offline") \in Frames
      BY <2>4, FrameTypes DEF Ends
    <3> QED BY <3>1 DEF OfflineAnswer, Response
  <2>6. To(x, OfflineAnswer(r)) \in Letters /\ MuteLetters(To(x, OfflineAnswer(r)))
    BY <2>5, LettersAreSent, LettersAreMute
  <2> QED BY <1>6, <1>7, <2>1, <2>3, <2>6
<1>11. ASSUME NEW x \in Sockets, OnCancel(x) PROVE Unwritten' /\ Informed(k)'
  <2>1. Reads(x, "cancel") /\ UNCHANGED <<remote, nodes, me>>
    BY <1>11 DEF OnCancel
  <2>2. PICK r : r = Head(up[x]).request
    OBVIOUS
  <2>3. Deliver(Silence) \/ \E s : Deliver(To(s, Cancel(r)))
    BY <1>11, <2>2 DEF OnCancel
  <2>4. r \in Requests
    BY <1>7, <2>1, <2>2, FrameParts
  <2>5. Cancel(r) \in Frames /\ Cancel(r).type = "cancel"
    BY <2>4, FrameTypes DEF Cancel
  <2>6. \A s : To(s, Cancel(r)) \in Letters /\ MuteLetters(To(s, Cancel(r)))
    BY <2>5, LettersAreSent, LettersAreMute
  <2> QED BY <1>6, <1>8, <2>1, <2>3, <2>6
<1>12. ASSUME NEW x \in Sockets, OnSubscribe(x) \/ OnUnsubscribe(x)
       PROVE  Unwritten' /\ Informed(k)'
  <2>1. UNCHANGED <<remote, down, nodes, me>>
    BY <1>12 DEF OnSubscribe, OnUnsubscribe
  <2>2. Unwritten'
    BY <2>1 DEF NewsInv, Unwritten
  <2> QED BY <1>1, <2>1, <2>2, NothingIsNews
<1>13. ASSUME NEW x \in Sockets, OnPublish(x) PROVE Unwritten' /\ Informed(k)'
  <2>1. PICK f : f = Head(up[x])
    OBVIOUS
  <2>2. Reads(x, "publish") /\ UNCHANGED <<remote, nodes, me>>
    BY <1>13 DEF OnPublish, relayVars
  <2>3. PICK receivers : Deliver([t \in Sockets |-> IF me[x].node # NoNode /\ t \in receivers
                                                   THEN <<f>> ELSE <<>>])
    BY <1>13, <2>1 DEF OnPublish
  <2>4. PICK letters : letters = [t \in Sockets |-> IF me[x].node # NoNode /\ t \in receivers
                                                    THEN <<f>> ELSE <<>>]
    OBVIOUS
  <2>5. f \in Frames /\ f.type = "publish"
    BY <1>7, <2>1, <2>2
  <2>6. <<f>> \in Seq(Frames) /\ <<>> \in Seq(Frames) /\ DOMAIN <<f>> = {1} /\ <<f>>[1] = f
    BY <2>5, OneFrame
  <2>7. letters \in Letters
    BY <2>4, <2>6 DEF Letters
  <2>8. MuteLetters(letters)
    <3> SUFFICES ASSUME NEW t \in Sockets, NEW i PROVE Mute(letters[t], i)
      BY DEF MuteLetters
    <3>1. letters[t] = <<f>> \/ letters[t] = <<>>
      BY <2>4
    <3>2. Mute(<<f>>, i) /\ Mute(<<>>, i)
      BY <2>5, <2>6 DEF Mute, About
    <3> QED BY <3>1, <3>2
  <2> QED BY <1>6, <2>2, <2>3, <2>4, <2>7, <2>8
<1>14. ASSUME NEW h \in Relays, Crash(h) PROVE Unwritten' /\ Informed(k)'
  <2>1. h = k /\ down' = down
    BY <1>14 DEF Crash
  <2>2. \A s \in Sockets : remote'[s] # "open" /\ (remote'[s] = "unused" => remote[s] = "unused")
    BY <1>14, <2>1, SocketParts DEF Crash, NewsInv, TopicInv, WsInv, LinkTypeOK, RemoteStates
  <2>3. Unwritten'
    BY <2>1, <2>2 DEF NewsInv, Unwritten
  <2>4. \A n \in Nodes : ~Listening(n, k)'
    BY <2>2 DEF Listening, TopicInv, WsInv, NodeInv, ConnSound
  <2> QED BY <2>3, <2>4 DEF Informed
<1> QED BY <1>2, <1>3, <1>4, <1>5, <1>9, <1>10, <1>11, <1>12, <1>13, <1>14
        DEF RelayStep, OnMessage, NewsInv

\* A node keeps what it knows, and may have read a frame that is not about a node.
LEMMA NewsStay ==
    ASSUME NEW k, Relays = {k}, NewsInv(k), TopicInv', UNCHANGED <<remote, nodes, me, known, reach>>,
           \A n \in Nodes : local'[n].closes = local[n].closes,
           \A n \in Nodes : conn'[n][k].phase # "open" => conn[n][k].phase # "open",
           \A n \in Nodes : Listening(n, k)' =>
              Listening(n, k) /\ conn'[n][k].socket = conn[n][k].socket,
           \A s \in Sockets : \/ down'[s] = down[s]
                              \/ /\ down[s] # <<>> /\ down'[s] = Tail(down[s])
                                 /\ \A i : ~About(Head(down[s]), i)
    PROVE  NewsInv(k)'
<1>1. Tidy'
  BY DEF NewsInv, Tidy
<1>2. \A n, i \in Nodes : Doubted(n, i)' <=> Doubted(n, i)
  BY DEF Doubted
<1>3. Dormant(k)'
  BY <1>2 DEF NewsInv, Dormant
<1>4. Unwritten'
  BY DEF NewsInv, Unwritten
<1>5. Informed(k)'
  <2> SUFFICES ASSUME NEW n \in Nodes, NEW i \in Nodes, Listening(n, k)', i # n
               PROVE  Follows(down[conn[n][k].socket], n, k, i)'
    BY DEF Informed
  <2>1. PICK s : s = conn[n][k].socket
    OBVIOUS
  <2>2. Listening(n, k) /\ conn'[n][k].socket = s
    BY <2>1
  <2>3. s \in Sockets
    BY <2>1, <2>2 DEF Listening, NewsInv, TopicInv, WsInv, NodeInv, ConnSound
  <2>4. PICK queue \in Seq(Frames) : queue = down[s]
    BY <2>3 DEF NewsInv, TopicInv, WsInv, LinkTypeOK
  <2>5. LastWord(queue, i, Word(k, i)) /\ (Mute(queue, i) => Believes(n, k, i))
    BY <2>1, <2>2, <2>4 DEF NewsInv, Informed, Follows
  <2>6. Word(k, i)' = Word(k, i) /\ (Believes(n, k, i)' <=> Believes(n, k, i))
    BY <1>2 DEF Word, Believes
  <2>7. CASE down'[s] = queue
    BY <2>2, <2>5, <2>6, <2>7 DEF Follows
  <2>8. CASE queue # <<>> /\ down'[s] = Tail(queue) /\ \A j : ~About(Head(queue), j)
    <3>1. LastWord(Tail(queue), i, Word(k, i)) /\ (Mute(Tail(queue), i) => Mute(queue, i))
      BY <2>5, <2>8, TailWords
    <3> QED BY <2>2, <2>5, <2>6, <2>8, <3>1 DEF Follows
  <2> QED BY <2>3, <2>4, <2>7, <2>8
<1> QED BY <1>1, <1>3, <1>4, <1>5 DEF NewsInv

LEMMA DialKeepsNews ==
    ASSUME NEW k, Relays = {k}, NewsInv(k), TopicInv', UNCHANGED relayVars,
           NEW n \in Nodes, conn[n][k].phase \notin Live, Dial(n, k)
    PROVE  NewsInv(k)'
<1>0. PICK j : j = Min(Fresh(n, k))
  OBVIOUS
<1>1. PICK x : x = <<n, k, j>>
  OBVIOUS
<1>2. /\ Fresh(n, k) # {} /\ client' = [client EXCEPT ![x] = "connecting"]
      /\ conn' = [conn EXCEPT ![n][k] = [phase |-> "connecting", socket |-> x]]
      /\ UNCHANGED <<remote, down, local, known, reach>>
  BY <1>0, <1>1 DEF Dial, CreateSocket, SetConnection
<1>3. j \in 1..MaxSockets[n] /\ client[x] = "unused"
  <2>1. Fresh(n, k) \subseteq 1..MaxSockets[n]
    BY DEF Fresh
  <2>2. MaxSockets[n] \in Nat /\ IsFiniteSet(1..MaxSockets[n])
    BY WsLinkAssumption, FS_Interval
  <2>3. IsFiniteSet(Fresh(n, k)) /\ Fresh(n, k) \in SUBSET Nat
    BY <2>1, <2>2, FS_Subset
  <2>4. j \in Fresh(n, k)
    BY <1>0, <1>2, <2>3, LeastExists
  <2> QED BY <1>1, <2>4 DEF Fresh
<1>4. x \in Sockets /\ client[x] = "unused"
  BY <1>1, <1>3 DEF Sockets
<1>5. remote[x] = "unused"
  BY <1>4 DEF NewsInv, TopicInv, WsInv, NodeInv, ConnSound
<1>6. /\ conn'[n][k] = [phase |-> "connecting", socket |-> x]
      /\ \A m \in Nodes \ {n} : conn'[m][k] = conn[m][k]
  BY <1>2 DEF NewsInv, TopicInv, WsInv, NodeInv, NodeTypes
<1>7. ~Listening(n, k)'
  BY <1>2, <1>5, <1>6 DEF Listening
<1>8. \A m \in Nodes : Listening(m, k)' => Listening(m, k) /\ conn'[m][k].socket = conn[m][k].socket
  BY <1>2, <1>6, <1>7 DEF Listening
<1>9. \A m \in Nodes : conn'[m][k].phase # "open" => conn[m][k].phase # "open"
  BY <1>6 DEF Live
<1>10. UNCHANGED <<remote, nodes, me, known, reach>> /\ down' = down /\ local' = local
  BY <1>2 DEF relayVars
<1> QED BY <1>8, <1>9, <1>10, NewsStay

LEMMA OpenedKeepsNews ==
    ASSUME NEW k, Relays = {k}, NewsInv(k), TopicInv', UNCHANGED relayVars,
           NEW n \in Nodes, Opened(n, k)
    PROVE  NewsInv(k)'
<1>1. PICK x : x = conn[n][k].socket
  OBVIOUS
<1>2. /\ conn[n][k].phase = "connecting"
      /\ conn' = [conn EXCEPT ![n][k] = [phase |-> "open", socket |-> x]]
      /\ UNCHANGED <<remote, down, local, known, reach>>
  BY <1>1 DEF Opened, SetConnection
<1>3. /\ conn'[n][k] = [phase |-> "open", socket |-> x]
      /\ \A m \in Nodes \ {n} : conn'[m][k] = conn[m][k]
  BY <1>2 DEF NewsInv, TopicInv, WsInv, NodeInv, NodeTypes
<1>4. \A m \in Nodes : Listening(m, k)' => Listening(m, k) /\ conn'[m][k].socket = conn[m][k].socket
  BY <1>1, <1>2, <1>3 DEF Listening, Live
<1>5. \A m \in Nodes : conn'[m][k].phase # "open" => conn[m][k].phase # "open"
  BY <1>3
<1>6. UNCHANGED <<remote, nodes, me, known, reach>> /\ down' = down /\ local' = local
  BY <1>2 DEF relayVars
<1> QED BY <1>4, <1>5, <1>6, NewsStay

\* A node that leaves its socket reads nothing any more; what it knew is doubted.
LEMMA LeavingKeepsNews ==
    ASSUME NEW k, Relays = {k}, NewsInv(k), TopicInv', UNCHANGED relayVars,
           NEW n \in Nodes, Lost(n, k) \/ CloseUrl(n, k)
    PROVE  NewsInv(k)'
<1>1. PICK x : x = conn[n][k].socket
  OBVIOUS
<1>2. /\ UNCHANGED <<remote, known>>
      /\ down' = down \/ down' = [down EXCEPT ![x] = <<>>]
      /\ \E phase \in {"off", "waiting"} :
            conn' = [conn EXCEPT ![n][k] = [phase |-> phase, socket |-> NoSocket]]
  BY <1>1 DEF Lost, CloseUrl, Finalized, Disconnected, SetConnection
<1>3. /\ conn'[n][k].phase \in {"off", "waiting"}
      /\ \A m \in Nodes \ {n} : conn'[m][k] = conn[m][k]
  BY <1>2 DEF NewsInv, TopicInv, WsInv, NodeInv, NodeTypes
<1>4. UNCHANGED <<nodes, me>>
  BY DEF relayVars
<1>5. Tidy' /\ Unwritten'
  BY <1>2 DEF NewsInv, Tidy, Unwritten, TopicInv, WsInv, LinkTypeOK
<1>6. ASSUME NEW i \in Nodes
      PROVE  /\ Doubted(n, i)'
             /\ \A m \in Nodes \ {n} : Doubted(m, i)' <=> Doubted(m, i)
  <2>1. CASE Lost(n, k)
    <3>1. Connected(n) \subseteq {k}
      BY DEF Connected
    <3>2. /\ local' = local
          /\ reach' = [reach EXCEPT ![n] = [j \in Nodes |-> IF known[n][j] # Unknown
                                                       THEN "unreachable" ELSE reach[n][j]]]
      BY <2>1, <3>1 DEF Lost, ReportUnreachable
    <3>3. /\ reach'[n][i] = IF known[n][i] # Unknown THEN "unreachable" ELSE reach[n][i]
          /\ \A m \in Nodes \ {n} : reach'[m] = reach[m]
      BY <3>2 DEF NewsInv, TopicInv, WsInv, NodeInv, NodeTypes
    <3> QED BY <1>2, <3>2, <3>3 DEF Doubted
  <2>2. CASE CloseUrl(n, k)
    <3>1. local' = [local EXCEPT ![n].closes = local[n].closes + 1] /\ reach' = reach
      BY <2>2 DEF CloseUrl
    <3>2. PICK e : e = local[n]
      OBVIOUS
    <3>3. e \in [services : SUBSET Services, speaks : Nat, closes : Nat]
      BY <3>2 DEF NewsInv, TopicInv, WsInv, NodeInv, NodeTypes
    <3>4. /\ local'[n] = [e EXCEPT !.closes = e.closes + 1]
          /\ \A m \in Nodes \ {n} : local'[m] = local[m]
      BY <3>1, <3>2 DEF NewsInv, TopicInv, WsInv, NodeInv, NodeTypes
    <3>5. local'[n].closes = e.closes + 1 /\ e.closes + 1 # 0
      BY <3>3, <3>4
    <3> QED BY <1>2, <3>1, <3>4, <3>5 DEF Doubted
  <2> QED BY <2>1, <2>2
<1>7. Dormant(k)'
  BY <1>3, <1>6 DEF NewsInv, Dormant
<1>8. Informed(k)'
  <2> SUFFICES ASSUME NEW m \in Nodes, NEW i \in Nodes, Listening(m, k)', i # m
               PROVE  Follows(down[conn[m][k].socket], m, k, i)'
    BY DEF Informed
  <2>1. m # n
    BY <1>3 DEF Listening, Live
  <2>2. PICK s : s = conn[m][k].socket
    OBVIOUS
  <2>3. conn'[m][k] = conn[m][k] /\ Listening(m, k)
    BY <1>2, <1>3, <2>1 DEF Listening
  <2>4. s \in Sockets /\ Owner(s) = m
    BY <2>2, <2>3 DEF Listening, NewsInv, TopicInv, WsInv, NodeInv, ConnSound
  <2>5. s # x
    <3>1. x = NoSocket \/ Owner(x) = n
      BY <1>1 DEF NewsInv, TopicInv, WsInv, NodeInv, ConnSound
    <3>2. s # NoSocket
      BY <2>4, SocketParts
    <3> QED BY <2>1, <2>4, <3>1, <3>2
  <2>6. down'[s] = down[s]
    BY <1>2, <2>4, <2>5 DEF NewsInv, TopicInv, WsInv, LinkTypeOK
  <2>7. Follows(down[s], m, k, i)
    BY <2>2, <2>3 DEF NewsInv, Informed
  <2>8. Word(k, i)' = Word(k, i) /\ (Believes(m, k, i)' <=> Believes(m, k, i))
    BY <1>2, <1>4, <1>6, <2>1 DEF Word, Believes
  <2> QED BY <2>2, <2>3, <2>6, <2>7, <2>8 DEF Follows
<1> QED BY <1>5, <1>7, <1>8 DEF NewsInv

LEMMA HelloKeepsNews ==
    ASSUME NEW k, Relays = {k}, NewsInv(k), TopicInv', UNCHANGED relayVars,
           NEW n \in Nodes, HelloArrives(n, k)
    PROVE  NewsInv(k)'
<1>1. PICK x : x = conn[n][k].socket
  OBVIOUS
<1>2. PICK f : f = Packet(n, k)
  OBVIOUS
<1>3. Receives(n, k, "hello") /\ conn[n][k].phase = "open" /\ UNCHANGED <<remote, conn, local>>
  BY DEF HelloArrives, Receives
<1>4. /\ x \in Sockets /\ Owner(x) = n /\ down[x] # <<>> /\ f = Head(down[x])
      /\ f \in Frames /\ f.type = "hello"
      /\ down' = [down EXCEPT ![x] = Tail(down[x])]
  BY <1>1, <1>2, <1>3, ReceivesType DEF NewsInv, TopicInv, WsInv
<1>5. PICK j \in Nodes : j = f.node
  BY <1>4, FrameParts
<1>6. f.services \in SUBSET Services /\ f = Hello(j, f.services)
  BY <1>4, <1>5 DEF Frames, Hello
<1>7. PICK entry : entry = [relay |-> k, services |-> f.services]
  OBVIOUS
<1>8. IF j = n THEN UNCHANGED <<known, reach>>
      ELSE /\ known' = [known EXCEPT ![n][j] = entry]
           /\ reach' = [reach EXCEPT ![n][j] = "reachable"]
  BY <1>2, <1>5, <1>7 DEF HelloArrives
<1>9. known \in [Nodes -> [Nodes -> [relay : Relays \cup {NoRelay}, services : SUBSET Services]]]
  BY DEF NewsInv, TopicInv, WsInv, NodeInv, NodeTypes
<1>10. reach \in [Nodes -> [Nodes -> {"none", "reachable", "unreachable"}]]
  BY DEF NewsInv, TopicInv, WsInv, NodeInv, NodeTypes
<1>11. \A m, i \in Nodes :
          /\ ~(m = n /\ i = j /\ j # n) => known'[m][i] = known[m][i] /\ reach'[m][i] = reach[m][i]
          /\ m = n /\ i = j /\ j # n => known'[m][i] = entry
  BY <1>8, <1>9, <1>10
<1>12. entry.relay # NoRelay
  BY <1>7, WsLinkAssumption
<1>13. Tidy'
  BY <1>11, <1>12 DEF NewsInv, Tidy
<1>14. \A m, i \in Nodes : m # n => (Doubted(m, i)' <=> Doubted(m, i))
  BY <1>3, <1>11 DEF Doubted
<1>15. Dormant(k)'
  BY <1>3, <1>14 DEF NewsInv, Dormant
<1>16. Unwritten'
  BY <1>3, <1>4 DEF NewsInv, Unwritten, TopicInv, WsInv, LinkTypeOK
<1>17. \A i : Word(k, i)' = Word(k, i)
  BY DEF Word, relayVars
<1>18. Informed(k)'
  <2> SUFFICES ASSUME NEW m \in Nodes, NEW i \in Nodes, Listening(m, k)', i # m
               PROVE  Follows(down[conn[m][k].socket], m, k, i)'
    BY DEF Informed
  <2>1. PICK s : s = conn[m][k].socket
    OBVIOUS
  <2>2. Listening(m, k) /\ conn' = conn
    BY <1>3 DEF Listening
  <2>3. s \in Sockets /\ Owner(s) = m
    BY <2>1, <2>2 DEF Listening, NewsInv, TopicInv, WsInv, NodeInv, ConnSound
  <2>4. PICK queue \in Seq(Frames) : queue = down[s]
    BY <2>3 DEF NewsInv, TopicInv, WsInv, LinkTypeOK
  <2>5. LastWord(queue, i, Word(k, i)) /\ (Mute(queue, i) => Believes(m, k, i))
    BY <2>1, <2>2, <2>4 DEF NewsInv, Informed, Follows
  <2>6. CASE m # n
    <3>1. down'[s] = queue
      BY <1>4, <2>3, <2>4, <2>6 DEF NewsInv, TopicInv, WsInv, LinkTypeOK
    <3>2. Believes(m, k, i)' <=> Believes(m, k, i)
      BY <1>11, <1>14, <2>6 DEF Believes, relayVars
    <3> QED BY <1>17, <2>1, <2>2, <2>5, <3>1, <3>2 DEF Follows
  <2>7. CASE m = n
    <3>1. s = x /\ queue # <<>> /\ f = Head(queue) /\ down'[s] = Tail(queue)
      BY <1>1, <1>4, <2>1, <2>3, <2>4, <2>7 DEF NewsInv, TopicInv, WsInv, LinkTypeOK
    <3>2. /\ LastWord(Tail(queue), i, Word(k, i))
          /\ Mute(Tail(queue), i) => IF About(f, i) THEN f = Word(k, i) ELSE Mute(queue, i)
      BY <2>5, <3>1, TailWords
    <3>3. ASSUME Mute(Tail(queue), i) PROVE Believes(m, k, i)'
      <4>1. CASE i = j
        <5>1. f = Word(k, i)
          BY <1>4, <1>5, <3>2, <3>3, <4>1 DEF About
        <5>2. nodes[k][i] # NoSocket /\ me[nodes[k][i]].services = f.services
          BY <1>6, <5>1 DEF Word, Offline, Hello
        <5>3. known'[m][i] = entry
          BY <1>11, <2>7, <4>1
        <5> QED BY <1>7, <5>2, <5>3 DEF Believes, relayVars
      <4>2. CASE i # j
        <5>1. Mute(queue, i)
          BY <1>5, <3>2, <3>3, <4>2 DEF About
        <5>2. known'[m][i] = known[m][i] /\ reach'[m][i] = reach[m][i] /\ local' = local
          BY <1>3, <1>11, <4>2
        <5> QED BY <2>5, <5>1, <5>2 DEF Believes, Doubted, relayVars
      <4> QED BY <4>1, <4>2
    <3> QED BY <1>17, <2>1, <2>2, <3>1, <3>2, <3>3 DEF Follows
  <2> QED BY <2>6, <2>7
<1> QED BY <1>13, <1>15, <1>16, <1>18 DEF NewsInv

LEMMA OfflineKeepsNews ==
    ASSUME NEW k, Relays = {k}, NewsInv(k), TopicInv', UNCHANGED relayVars,
           NEW n \in Nodes, OfflineArrives(n, k)
    PROVE  NewsInv(k)'
<1>1. PICK x : x = conn[n][k].socket
  OBVIOUS
<1>2. PICK f : f = Packet(n, k)
  OBVIOUS
<1>3. Receives(n, k, "offline") /\ conn[n][k].phase = "open" /\ UNCHANGED <<remote, conn, local>>
  BY DEF OfflineArrives, Receives
<1>4. /\ x \in Sockets /\ Owner(x) = n /\ down[x] # <<>> /\ f = Head(down[x])
      /\ f \in Frames /\ f.type = "offline"
      /\ down' = [down EXCEPT ![x] = Tail(down[x])]
  BY <1>1, <1>2, <1>3, ReceivesType DEF NewsInv, TopicInv, WsInv
<1>5. PICK j \in Nodes : j = f.node
  BY <1>4, FrameParts
<1>6. IF known[n][j].relay = k
      THEN /\ known' = [known EXCEPT ![n][j] = Unknown]
           /\ reach' = [reach EXCEPT ![n][j] = "none"]
      ELSE UNCHANGED <<known, reach>>
  BY <1>2, <1>5 DEF OfflineArrives
<1>7. known \in [Nodes -> [Nodes -> [relay : Relays \cup {NoRelay}, services : SUBSET Services]]]
  BY DEF NewsInv, TopicInv, WsInv, NodeInv, NodeTypes
<1>8. reach \in [Nodes -> [Nodes -> {"none", "reachable", "unreachable"}]]
  BY DEF NewsInv, TopicInv, WsInv, NodeInv, NodeTypes
<1>9. known'[n][j] = Unknown
  <2>1. CASE known[n][j].relay = k
    BY <1>6, <1>7, <2>1
  <2>2. CASE known[n][j].relay # k
    <3>1. known[n][j].relay = NoRelay
      BY <1>7, <2>2
    <3> QED BY <1>6, <2>2, <3>1 DEF NewsInv, Tidy
  <2> QED BY <2>1, <2>2
<1>10. \A m, i \in Nodes :
          ~(m = n /\ i = j) => known'[m][i] = known[m][i] /\ reach'[m][i] = reach[m][i]
  BY <1>6, <1>7, <1>8
<1>11. Tidy'
  BY <1>9, <1>10 DEF NewsInv, Tidy
<1>12. \A m, i \in Nodes : m # n => (Doubted(m, i)' <=> Doubted(m, i))
  BY <1>3, <1>10 DEF Doubted
<1>13. Dormant(k)'
  BY <1>3, <1>12 DEF NewsInv, Dormant
<1>14. Unwritten'
  BY <1>3, <1>4 DEF NewsInv, Unwritten, TopicInv, WsInv, LinkTypeOK
<1>15. \A i : Word(k, i)' = Word(k, i)
  BY DEF Word, relayVars
<1>16. Informed(k)'
  <2> SUFFICES ASSUME NEW m \in Nodes, NEW i \in Nodes, Listening(m, k)', i # m
               PROVE  Follows(down[conn[m][k].socket], m, k, i)'
    BY DEF Informed
  <2>1. PICK s : s = conn[m][k].socket
    OBVIOUS
  <2>2. Listening(m, k) /\ conn' = conn
    BY <1>3 DEF Listening
  <2>3. s \in Sockets /\ Owner(s) = m
    BY <2>1, <2>2 DEF Listening, NewsInv, TopicInv, WsInv, NodeInv, ConnSound
  <2>4. PICK queue \in Seq(Frames) : queue = down[s]
    BY <2>3 DEF NewsInv, TopicInv, WsInv, LinkTypeOK
  <2>5. LastWord(queue, i, Word(k, i)) /\ (Mute(queue, i) => Believes(m, k, i))
    BY <2>1, <2>2, <2>4 DEF NewsInv, Informed, Follows
  <2>6. CASE m # n
    <3>1. down'[s] = queue
      BY <1>4, <2>3, <2>4, <2>6 DEF NewsInv, TopicInv, WsInv, LinkTypeOK
    <3>2. Believes(m, k, i)' <=> Believes(m, k, i)
      BY <1>10, <1>12, <2>6 DEF Believes, relayVars
    <3> QED BY <1>15, <2>1, <2>2, <2>5, <3>1, <3>2 DEF Follows
  <2>7. CASE m = n
    <3>1. s = x /\ queue # <<>> /\ f = Head(queue) /\ down'[s] = Tail(queue)
      BY <1>1, <1>4, <2>1, <2>3, <2>4, <2>7 DEF NewsInv, TopicInv, WsInv, LinkTypeOK
    <3>2. /\ LastWord(Tail(queue), i, Word(k, i))
          /\ Mute(Tail(queue), i) => IF About(f, i) THEN f = Word(k, i) ELSE Mute(queue, i)
      BY <2>5, <3>1, TailWords
    <3>3. ASSUME Mute(Tail(queue), i) PROVE Believes(m, k, i)'
      <4>1. CASE i = j
        <5>1. f = Word(k, i)
          BY <1>4, <1>5, <3>2, <3>3, <4>1 DEF About
        <5>2. nodes[k][i] = NoSocket
          BY <1>4, <5>1 DEF Word, Hello
        <5>3. known'[m][i] = Unknown
          BY <1>9, <2>7, <4>1
        <5> QED BY <5>2, <5>3 DEF Believes, Doubted, relayVars
      <4>2. CASE i # j
        <5>1. Mute(queue, i)
          BY <1>5, <3>2, <3>3, <4>2 DEF About
        <5>2. known'[m][i] = known[m][i] /\ reach'[m][i] = reach[m][i] /\ local' = local
          BY <1>3, <1>10, <4>2
        <5> QED BY <2>5, <5>1, <5>2 DEF Believes, Doubted, relayVars
      <4> QED BY <4>1, <4>2
    <3> QED BY <1>15, <2>1, <2>2, <3>1, <3>2, <3>3 DEF Follows
  <2> QED BY <2>6, <2>7
<1> QED BY <1>11, <1>13, <1>14, <1>16 DEF NewsInv

LEMMA NodeKeepsNews ==
    ASSUME NEW k, Relays = {k}, NewsInv(k), TopicInv', UNCHANGED relayVars,
           NEW n \in Nodes, NodeStep(n)
    PROVE  NewsInv(k)'
<1>1. UNCHANGED remote
  BY NodeLeavesRemote
<1>2. UNCHANGED <<nodes, me>>
  BY DEF relayVars
<1>3. ASSUME UNCHANGED <<known, reach, conn>>,
             \A m \in Nodes : local'[m].closes = local[m].closes,
             \A s \in Sockets : \/ down'[s] = down[s]
                                \/ /\ down[s] # <<>> /\ down'[s] = Tail(down[s])
                                   /\ \A i : ~About(Head(down[s]), i)
      PROVE  NewsInv(k)'
  <2>1. \A m \in Nodes : Listening(m, k)' => Listening(m, k)
    BY <1>1, <1>3 DEF Listening
  <2> QED BY <1>1, <1>2, <1>3, <2>1, NewsStay
<1>4. CASE \E h \in Relays : Connect(n, h) \/ Reconnect(n, h)
  BY <1>4, DialKeepsNews DEF Connect, Reconnect, Live
<1>5. CASE \E h \in Relays : Opened(n, h)
  BY <1>5, OpenedKeepsNews
<1>6. CASE \E h \in Relays : Lost(n, h) \/ CloseUrl(n, h)
  BY <1>6, LeavingKeepsNews
<1>7. CASE \E h \in Relays : HelloArrives(n, h) \/ OfflineArrives(n, h)
  BY <1>7, HelloKeepsNews, OfflineKeepsNews
<1>8. CASE \E h \in Relays :
              \/ ResponseArrives(n, h) \/ RequestArrives(n, h)
              \/ CancelArrives(n, h) \/ PublishArrives(n, h)
  <2>1. UNCHANGED <<known, reach, conn, local>>
    BY <1>8 DEF ResponseArrives, RequestArrives, CancelArrives, PublishArrives, nodeVars
  <2>2. PICK type \in {"response", "request", "cancel", "publish"} : Receives(n, k, type)
    BY <1>8 DEF ResponseArrives, RequestArrives, CancelArrives, PublishArrives
  <2>3. PICK x : x = conn[n][k].socket
    OBVIOUS
  <2>4. /\ x \in Sockets /\ down[x] # <<>> /\ Head(down[x]).type = type
        /\ down' = [down EXCEPT ![x] = Tail(down[x])]
    BY <2>2, <2>3, ReceivesType DEF NewsInv, TopicInv, WsInv
  <2>5. \A s \in Sockets : \/ down'[s] = down[s]
                           \/ /\ down[s] # <<>> /\ down'[s] = Tail(down[s])
                              /\ \A i : ~About(Head(down[s]), i)
    BY <2>4 DEF About, NewsInv, TopicInv, WsInv, LinkTypeOK
  <2> QED BY <1>3, <2>1, <2>5
<1>9. CASE \/ \E services \in SUBSET Services : Announce(n, services)
           \/ \E t \in Topics : Listen(n, t) \/ PublishTo(n, t)
  <2>1. UNCHANGED <<known, reach, conn, down>>
    BY <1>9 DEF Announce, Listen, PublishTo
  <2>2. \/ local' = Spoken(n)
        \/ \E services \in SUBSET Services : local' = Remembered(n, services)
    BY <1>9 DEF Announce, Listen, PublishTo
  <2>3. PICK e : e = local[n]
    OBVIOUS
  <2>4. e \in [services : SUBSET Services, speaks : Nat, closes : Nat]
    BY <2>3 DEF NewsInv, TopicInv, WsInv, NodeInv, NodeTypes
  <2>5. local \in [Nodes -> [services : SUBSET Services, speaks : Nat, closes : Nat]]
    BY DEF NewsInv, TopicInv, WsInv, NodeInv, NodeTypes
  <2>6. /\ Spoken(n) = [local EXCEPT ![n] = [e EXCEPT !.speaks = e.speaks + 1]]
        /\ \A services : Remembered(n, services) =
              [Spoken(n) EXCEPT ![n] = [Spoken(n)[n] EXCEPT !.services = services]]
    BY <2>3, <2>5 DEF Spoken, Remembered
  <2>7. Spoken(n)[n].closes = e.closes /\ \A m \in Nodes \ {n} : Spoken(n)[m] = local[m]
    BY <2>4, <2>5, <2>6
  <2>8. Spoken(n) \in [Nodes -> [services : SUBSET Services, speaks : Nat, closes : Nat]]
    BY <2>4, <2>5, <2>6
  <2>9. \A services : /\ Remembered(n, services)[n].closes = e.closes
                      /\ \A m \in Nodes \ {n} : Remembered(n, services)[m] = local[m]
    BY <2>6, <2>7, <2>8
  <2>10. \A m \in Nodes : local'[m].closes = local[m].closes
    BY <2>2, <2>3, <2>7, <2>9
  <2> QED BY <1>3, <2>1, <2>10
<1>10. CASE \/ \E r \in Requests :
                 \/ \E v \in Services, d \in Nodes \cup {NoNode} : Send(n, r, v, d)
                 \/ CallerOf[r] = n /\ Resolve(r)
                 \/ CancelCall(n, r)
                 \/ \E end \in {"more", "completed"} : Reply(n, r, end)
            \/ \E t \in Topics : Unlisten(n, t) \/ LingerEnds(n, t)
  <2>1. UNCHANGED <<known, reach, conn, down, local>>
    BY <1>10 DEF Send, Resolve, CancelCall, Reply, Unlisten, LingerEnds, linkVars
  <2> QED BY <1>3, <2>1
<1> QED BY <1>4, <1>5, <1>6, <1>7, <1>8, <1>9, <1>10 DEF NodeStep

LEMMA NewsInvInit ==
    ASSUME NEW k, Relays = {k}
    PROVE  Init => NewsInv(k)
<1> SUFFICES ASSUME Init PROVE NewsInv(k)
  OBVIOUS
<1>1. /\ \A s \in Sockets : down[s] = <<>>
      /\ \A n \in Nodes : conn[n][k] = Off
      /\ \A n, i \in Nodes : known[n][i] = Unknown
  BY DEF Init, LinkInit, NodeInit
<1>2. Unwritten /\ Tidy /\ Dormant(k) /\ Informed(k)
  BY <1>1 DEF Unwritten, Tidy, Dormant, Doubted, Informed, Listening, Off, Live
<1> QED BY <1>2, TopicInvInit DEF NewsInv

LEMMA NewsInvNext ==
    ASSUME NEW k, Relays = {k}
    PROVE  NewsInv(k) /\ [Next]_vars => NewsInv(k)'
<1> SUFFICES ASSUME NewsInv(k), [Next]_vars PROVE NewsInv(k)'
  OBVIOUS
<1>1. TopicInv'
  BY TopicInvNext DEF NewsInv
<1>2. CASE RelayActs
  BY <1>1, <1>2, RelayKeepsNews DEF RelayActs
<1>3. CASE NodeActs
  BY <1>1, <1>3, NodeKeepsNews DEF NodeActs
<1>4. CASE UNCHANGED vars
  <2>1. UNCHANGED <<remote, down, nodes, me, known, reach, local, conn>>
    BY <1>4 DEF vars, linkVars, relayVars, nodeVars
  <2>2. \A m \in Nodes : Listening(m, k)' => Listening(m, k)
    BY <2>1 DEF Listening
  <2> QED BY <1>1, <2>1, <2>2, NewsStay
<1> QED BY <1>2, <1>3, <1>4 DEF Next

LEMMA NewsIsSound ==
    ASSUME NEW k, Relays = {k}
    PROVE  Spec => []NewsInv(k)
<1>1. Init => NewsInv(k)
  BY NewsInvInit
<1>2. NewsInv(k) /\ [Next]_vars => NewsInv(k)'
  BY NewsInvNext
<1> QED BY <1>1, <1>2, PTL DEF Spec

\* With one relay, a node that has read everything knows each registered node with the
\* services of its last hello, and answers Topology that it is alive: whatever sockets are
\* lost and replaced, #shouldSyncDiscovery leaves out no hello that says something new.
THEOREM DirectoryFollows ==
    ASSUME NEW k, Relays = {k}
    PROVE  Spec => []DirectoryIsCurrent
<1>1. ASSUME NewsInv(k) PROVE DirectoryIsCurrent
  <2> SUFFICES ASSUME NEW n \in Nodes, NEW i \in Nodes, Told(n, k), i # n, nodes[k][i] # NoSocket
               PROVE  /\ known[n][i].services = me[nodes[k][i]].services
                      /\ Verify(n, i) = "alive"
    BY DEF DirectoryIsCurrent
  <2>1. Listening(n, k) /\ down[conn[n][k].socket] = <<>> /\ conn[n][k].phase = "open"
    BY DEF Told, Listening, Live
  <2>2. Mute(<<>>, i)
    BY DEF Mute
  <2>3. Believes(n, k, i)
    BY <1>1, <2>1, <2>2 DEF NewsInv, Informed, Follows
  <2>4. known[n][i] = [relay |-> k, services |-> me[nodes[k][i]].services]
    BY <2>3 DEF Believes
  <2>5. known[n][i].relay # NoRelay /\ Unknown.relay = NoRelay
    BY <2>4, WsLinkAssumption DEF Unknown
  <2>6. k \in Connected(n)
    BY <2>1 DEF Connected
  <2> QED BY <2>4, <2>5, <2>6 DEF Verify
<1>2. NewsInv(k) => DirectoryIsCurrent
  BY <1>1
<1>3. Spec => []NewsInv(k)
  BY NewsIsSound
<1> QED BY <1>2, <1>3, PTL

\* With one relay, a node left over from before a reconnection, which the relay no longer
\* lists, counts as unreachable once everything is read, so that Topology may remove it:
\* the loss of the connection reported it, and only the relay's hello revokes that.
THEOREM LeftoversAreUnreachable ==
    ASSUME NEW k, Relays = {k}
    PROVE  Spec => []StaleNodesAreUnreachable
<1>1. ASSUME NewsInv(k) PROVE StaleNodesAreUnreachable
  <2> SUFFICES ASSUME NEW n \in Nodes, NEW i \in Nodes, Told(n, k), known[n][i].relay = k,
                      nodes[k][i] = NoSocket, local[n].closes = 0
               PROVE  reach[n][i] = "unreachable"
    BY DEF StaleNodesAreUnreachable
  <2>1. known[n][i] # Unknown
    BY WsLinkAssumption DEF Unknown
  <2>2. i # n
    BY <1>1, <2>1 DEF NewsInv, Tidy
  <2>3. Listening(n, k) /\ down[conn[n][k].socket] = <<>>
    BY DEF Told, Listening, Live
  <2>4. Mute(<<>>, i)
    BY DEF Mute
  <2>5. Believes(n, k, i)
    BY <1>1, <2>2, <2>3, <2>4 DEF NewsInv, Informed, Follows
  <2> QED BY <2>1, <2>5 DEF Believes, Doubted
<1>2. NewsInv(k) => StaleNodesAreUnreachable
  BY <1>1
<1>3. Spec => []NewsInv(k)
  BY NewsIsSound
<1> QED BY <1>2, <1>3, PTL

=============================================================================
