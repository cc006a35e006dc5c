---------------------------- MODULE WsCallProofs ----------------------------
(***************************************************************************)
(* The calls of packages/ws: what the relay's pending map, the cancels and *)
(* requests under way and the methods that serve know of each other, for   *)
(* every value of the constants.                                           *)
(***************************************************************************)
EXTENDS WsMeshProofs

-----------------------------------------------------------------------------
(* Frames of a request in a queue.                                         *)

IsOf(f, type, r) == f.type = type /\ f.request = r
IsFinal(f, r) == IsOf(f, "response", r) /\ f.end # "more"

\* A request is in a queue at most once, and never behind its own cancel.
Ordered(queue, r) ==
    \A i, j \in DOMAIN queue :
        i < j /\ IsOf(queue[j], "request", r)
        => ~IsOf(queue[i], "request", r) /\ ~IsOf(queue[i], "cancel", r)

LEMMA HoldsHas ==
    ASSUME NEW queue, NEW r
    PROVE  /\ \A type : Holds(queue, type, r) <=> \E f : Has(queue, f) /\ IsOf(f, type, r)
           /\ HoldsFinal(queue, r) <=> \E f : Has(queue, f) /\ IsFinal(f, r)
  BY DEF Holds, HoldsFinal, Has, IsOf, IsFinal

LEMMA HoldsEmpty ==
    ASSUME NEW r
    PROVE  /\ \A type : ~Holds(<<>>, type, r)
           /\ ~HoldsFinal(<<>>, r) /\ Ordered(<<>>, r)
  BY DEF Holds, HoldsFinal, Ordered

LEMMA HoldsAppend ==
    ASSUME NEW queue \in Seq(Frames), NEW f \in Frames, NEW r
    PROVE  /\ \A type : Holds(Append(queue, f), type, r) <=> Holds(queue, type, r) \/ IsOf(f, type, r)
           /\ HoldsFinal(Append(queue, f), r) <=> HoldsFinal(queue, r) \/ IsFinal(f, r)
           /\ /\ Ordered(queue, r)
              /\ IsOf(f, "request", r) => ~Holds(queue, "request", r) /\ ~Holds(queue, "cancel", r)
              => Ordered(Append(queue, f), r)
<1>1. PICK m \in Nat : m = Len(queue) /\ DOMAIN queue = 1..m
  OBVIOUS
<1>2. PICK more : more = Append(queue, f)
  OBVIOUS
<1>3. DOMAIN more = 1..(m + 1) /\ more[m + 1] = f /\ \A j \in 1..m : more[j] = queue[j]
  BY <1>1, <1>2
<1>4. \A j \in 1..(m + 1) : j \in 1..m \/ j = m + 1
  OBVIOUS
<1>5. m + 1 \in 1..(m + 1) /\ \A j \in 1..m : j \in 1..(m + 1)
  OBVIOUS
<1>6. ASSUME NEW type PROVE Holds(more, type, r) <=> Holds(queue, type, r) \/ IsOf(f, type, r)
  BY <1>1, <1>3, <1>4, <1>5 DEF Holds, IsOf
<1>7. HoldsFinal(more, r) <=> HoldsFinal(queue, r) \/ IsFinal(f, r)
  BY <1>1, <1>3, <1>4, <1>5 DEF HoldsFinal, IsFinal, IsOf
<1>8. ASSUME Ordered(queue, r),
             IsOf(f, "request", r) => ~Holds(queue, "request", r) /\ ~Holds(queue, "cancel", r),
             NEW i \in 1..(m + 1), NEW j \in 1..(m + 1), i < j, IsOf(more[j], "request", r)
      PROVE  ~IsOf(more[i], "request", r) /\ ~IsOf(more[i], "cancel", r)
  <2>1. i \in 1..m
    BY <1>4, <1>8
  <2>2. CASE j = m + 1
    BY <1>1, <1>3, <1>8, <2>1, <2>2 DEF Holds, IsOf
  <2>3. CASE j # m + 1
    BY <1>1, <1>3, <1>4, <1>8, <2>1, <2>3 DEF Ordered
  <2> QED BY <2>2, <2>3
<1> QED BY <1>2, <1>3, <1>6, <1>7, <1>8 DEF Ordered

LEMMA HoldsTail ==
    ASSUME NEW queue \in Seq(Frames), queue # <<>>, NEW r
    PROVE  /\ \A type : Holds(queue, type, r)
                           <=> IsOf(Head(queue), type, r) \/ Holds(Tail(queue), type, r)
           /\ HoldsFinal(queue, r) <=> IsFinal(Head(queue), r) \/ HoldsFinal(Tail(queue), r)
           /\ Ordered(queue, r) =>
                 /\ Ordered(Tail(queue), r)
                 /\ IsOf(Head(queue), "request", r) \/ IsOf(Head(queue), "cancel", r)
                       => ~Holds(Tail(queue), "request", r)
<1>1. PICK m \in Nat : m = Len(queue) /\ DOMAIN queue = 1..m /\ m > 0
  BY EmptySeq
<1>2. PICK rest : rest = Tail(queue)
  OBVIOUS
<1>3. DOMAIN rest = 1..(m - 1) /\ \A j \in 1..(m - 1) : rest[j] = queue[j + 1]
  BY <1>1, <1>2
<1>4. PICK first : first = Head(queue)
  OBVIOUS
<1>5. first = queue[1] /\ 1 \in 1..m
  BY <1>1, <1>4
<1>6. \A j \in 1..(m - 1) : j + 1 \in 1..m /\ 1 < j + 1
  BY <1>1
<1>7. \A j \in 1..m : j = 1 \/ \E i \in 1..(m - 1) : j = i + 1
  <2> SUFFICES ASSUME NEW j \in 1..m, j # 1 PROVE \E i \in 1..(m - 1) : j = i + 1
    OBVIOUS
  <2>1. j - 1 \in 1..(m - 1) /\ j = (j - 1) + 1
    BY <1>1
  <2> QED BY <2>1
<1>0. ASSUME NEW f PROVE Has(queue, f) <=> f = first \/ Has(rest, f)
  <2>1. ASSUME NEW j \in 1..m, queue[j] = f PROVE f = first \/ Has(rest, f)
    BY <1>3, <1>5, <1>7, <2>1 DEF Has
  <2>2. ASSUME NEW j \in 1..(m - 1), rest[j] = f PROVE Has(queue, f)
    BY <1>1, <1>3, <1>6, <2>2 DEF Has
  <2>3. Has(queue, first)
    BY <1>1, <1>5 DEF Has
  <2> QED BY <1>1, <1>3, <2>1, <2>2, <2>3 DEF Has
<1>8. ASSUME NEW type PROVE Holds(queue, type, r) <=> IsOf(first, type, r) \/ Holds(rest, type, r)
  BY <1>0, HoldsHas
<1>9. HoldsFinal(queue, r) <=> IsFinal(first, r) \/ HoldsFinal(rest, r)
  BY <1>0, HoldsHas
<1>10. ASSUME Ordered(queue, r)
       PROVE  /\ Ordered(rest, r)
              /\ IsOf(first, "request", r) \/ IsOf(first, "cancel", r) => ~Holds(rest, "request", r)
  <2>1. ASSUME NEW i \in 1..(m - 1), NEW j \in 1..(m - 1), i < j, IsOf(rest[j], "request", r)
        PROVE  ~IsOf(rest[i], "request", r) /\ ~IsOf(rest[i], "cancel", r)
    <3>1. PICK a \in 1..m, b \in 1..m : a = i + 1 /\ b = j + 1 /\ a < b
      BY <1>6, <2>1
    <3> QED BY <1>1, <1>3, <1>10, <2>1, <3>1 DEF Ordered
  <2>2. ASSUME IsOf(first, "request", r) \/ IsOf(first, "cancel", r), NEW j \in 1..(m - 1),
               IsOf(rest[j], "request", r)
        PROVE  FALSE
    <3>1. PICK b \in 1..m : b = j + 1 /\ 1 < b
      BY <1>6
    <3> QED BY <1>1, <1>3, <1>5, <1>10, <2>2, <3>1 DEF Ordered
  <2> QED BY <1>3, <2>1, <2>2 DEF Ordered, Holds, IsOf
<1> QED BY <1>2, <1>4, <1>8, <1>9, <1>10

LEMMA HoldsConcat ==
    ASSUME NEW queue \in Seq(Frames), NEW frames \in Seq(Frames), NEW r
    PROVE  /\ \A type : Holds(queue \o frames, type, r)
                           <=> Holds(queue, type, r) \/ Holds(frames, type, r)
           /\ HoldsFinal(queue \o frames, r) <=> HoldsFinal(queue, r) \/ HoldsFinal(frames, r)
           /\ Ordered(queue, r) /\ ~Holds(frames, "request", r) => Ordered(queue \o frames, r)
<1>1. PICK m \in Nat : m = Len(queue) /\ DOMAIN queue = 1..m
  OBVIOUS
<1>2. PICK l \in Nat : l = Len(frames) /\ DOMAIN frames = 1..l
  OBVIOUS
<1>3. PICK more : more = queue \o frames
  OBVIOUS
<1>4. /\ DOMAIN more = 1..(m + l) /\ \A j \in 1..m : more[j] = queue[j]
      /\ \A j \in 1..l : more[m + j] = frames[j]
  BY <1>1, <1>2, <1>3
<1>5. /\ \A j \in 1..m : j \in 1..(m + l)
      /\ \A j \in 1..l : m + j \in 1..(m + l)
  OBVIOUS
<1>6. \A j \in 1..(m + l) : j \in 1..m \/ \E i \in 1..l : j = m + i
  <2> SUFFICES ASSUME NEW j \in 1..(m + l), j \notin 1..m PROVE \E i \in 1..l : j = m + i
    OBVIOUS
  <2>1. j - m \in 1..l /\ j = m + (j - m)
    OBVIOUS
  <2> QED BY <2>1
<1>0. ASSUME NEW f PROVE Has(more, f) <=> Has(queue, f) \/ Has(frames, f)
  <2>1. ASSUME NEW j \in 1..(m + l), more[j] = f PROVE Has(queue, f) \/ Has(frames, f)
    <3>1. CASE j \in 1..m
      BY <1>1, <1>4, <2>1, <3>1 DEF Has
    <3>2. ASSUME NEW i \in 1..l, j = m + i PROVE Has(frames, f)
      BY <1>2, <1>4, <2>1, <3>2 DEF Has
    <3> QED BY <1>6, <3>1, <3>2
  <2>2. ASSUME NEW j \in 1..m, queue[j] = f PROVE Has(more, f)
    BY <1>4, <1>5, <2>2 DEF Has
  <2>3. ASSUME NEW j \in 1..l, frames[j] = f PROVE Has(more, f)
    BY <1>4, <1>5, <2>3 DEF Has
  <2> QED BY <1>1, <1>2, <1>4, <2>1, <2>2, <2>3 DEF Has
<1>7. ASSUME NEW type PROVE Holds(more, type, r) <=> Holds(queue, type, r) \/ Holds(frames, type, r)
  BY <1>0, HoldsHas
<1>8. HoldsFinal(more, r) <=> HoldsFinal(queue, r) \/ HoldsFinal(frames, r)
  BY <1>0, HoldsHas
<1>9. ASSUME Ordered(queue, r), ~Holds(frames, "request", r),
             NEW i \in 1..(m + l), NEW j \in 1..(m + l), i < j, IsOf(more[j], "request", r)
      PROVE  ~IsOf(more[i], "request", r) /\ ~IsOf(more[i], "cancel", r)
  <2>1. j \in 1..m
    BY <1>2, <1>4, <1>6, <1>9 DEF Holds, IsOf
  <2>2. i \in 1..m
    BY <1>9, <2>1
  <2> QED BY <1>1, <1>4, <1>9, <2>1, <2>2 DEF Ordered
<1> QED BY <1>3, <1>4, <1>7, <1>8, <1>9 DEF Ordered

-----------------------------------------------------------------------------
(* What a letter holds of a request.                                       *)

\* A directory holds hellos only.
LEMMA DirectoryHellos ==
    ASSUME NEW registered \in Registry, NEW metadata \in Metadata, NEW t \in Sockets
    PROVE  \A f : Has(Directory(t, registered, metadata), f) => f.type = "hello"
<1> DEFINE hello(n) == Hello(n, metadata[registered[RelayOf(t)][n]].services)
<1>1. PICK others : others = {n \in Nodes : registered[RelayOf(t)][n] \notin {NoSocket, t}}
  OBVIOUS
<1>2. PICK S : S = {hello(n) : n \in others}
  OBVIOUS
<1>3. IsFiniteSet(others)
  BY <1>1, WsLinkAssumption, FS_Subset
<1>4. IsFiniteSet(S)
  <2>1. PICK g : g = [n \in others |-> hello(n)]
    OBVIOUS
  <2>2. S = {g[n] : n \in others} /\ DOMAIN g = others
    BY <1>2, <2>1
  <2> QED BY <1>3, <2>2, ImageFinite
<1>5. Directory(t, registered, metadata) = SetToSeq(S)
  BY <1>1, <1>2 DEF Directory
<1>6. \A f \in S : f.type = "hello"
  BY <1>2 DEF Hello
<1> QED BY <1>4, <1>5, <1>6, SetToSeqLists

\* The other end of each request of the socket is told, and no one else.
LEMMA FarewellTells ==
    ASSUME NEW k \in Relays, NEW s \in Sockets, NEW t \in Sockets, NEW r \in Requests
    PROVE  /\ ~Holds(Farewell(k, s)[t], "request", r)
           /\ Holds(Farewell(k, s)[t], "cancel", r)
                 <=> r \in Involved(k, s) /\ pending[k][r].provider = t /\ t # s
           /\ HoldsFinal(Farewell(k, s)[t], r)
                 <=> r \in Involved(k, s) /\ pending[k][r].caller = t /\ t # s
<1>1. PICK callers : callers = {q \in Involved(k, s) : pending[k][q].caller = t /\ t # s}
  OBVIOUS
<1>2. PICK providers : providers = {q \in Involved(k, s) : pending[k][q].provider = t /\ t # s}
  OBVIOUS
<1>3. PICK S : S = {OfflineAnswer(q) : q \in callers} \cup {Cancel(q) : q \in providers}
  OBVIOUS
<1>4. callers \subseteq Requests /\ providers \subseteq Requests
  BY <1>1, <1>2 DEF Involved
<1>5. IsFiniteSet(callers) /\ IsFiniteSet(providers)
  BY <1>4, WsLinkAssumption, FS_Subset
<1>6. IsFiniteSet({OfflineAnswer(q) : q \in callers})
  <2>1. PICK f : f = [q \in callers |-> OfflineAnswer(q)]
    OBVIOUS
  <2>2. {OfflineAnswer(q) : q \in callers} = {f[q] : q \in callers} /\ DOMAIN f = callers
    BY <2>1
  <2> QED BY <1>5, <2>2, ImageFinite
<1>7. IsFiniteSet({Cancel(q) : q \in providers})
  <2>1. PICK g : g = [q \in providers |-> Cancel(q)]
    OBVIOUS
  <2>2. DOMAIN g = providers /\ {g[q] : q \in providers} = {Cancel(q) : q \in providers}
    BY <2>1
  <2>3. IsFiniteSet({g[q] : q \in providers})
    BY <1>5, <2>2, ImageFinite
  <2> QED BY <2>2, <2>3
<1>8. IsFiniteSet(S)
  BY <1>3, <1>6, <1>7, FS_Union
<1>9. Farewell(k, s)[t] = SetToSeq(S)
  BY <1>1, <1>2, <1>3 DEF Farewell
<1>10. \A f \in S : \/ \E q \in callers : f.type = "response" /\ f.request = q
                    \/ \E q \in providers : f.type = "cancel" /\ f.request = q
  BY <1>3 DEF OfflineAnswer, Response, Cancel
<1>11. \A f \in S : /\ ~IsOf(f, "request", r)
                    /\ IsOf(f, "cancel", r) => r \in providers
                    /\ IsFinal(f, r) => r \in callers
  BY <1>10 DEF IsOf, IsFinal
<1>12. /\ r \in providers => Cancel(r) \in S /\ IsOf(Cancel(r), "cancel", r)
       /\ r \in callers => OfflineAnswer(r) \in S /\ IsFinal(OfflineAnswer(r), r)
  BY <1>3 DEF Cancel, OfflineAnswer, Response, IsOf, IsFinal
<1>13. PICK letter : letter = Farewell(k, s)[t] /\ \A f : Has(letter, f) <=> f \in S
  BY <1>8, <1>9, SetToSeqLists
<1>14. ~Holds(letter, "request", r)
  BY <1>11, <1>13, HoldsHas
<1>15. Holds(letter, "cancel", r) <=> r \in providers
  BY <1>11, <1>12, <1>13, HoldsHas
<1>16. HoldsFinal(letter, r) <=> r \in callers
  BY <1>11, <1>12, <1>13, HoldsHas
<1> QED BY <1>1, <1>2, <1>13, <1>14, <1>15, <1>16

-----------------------------------------------------------------------------
(* Abandoned calls.  A request is in one place at a time: with the caller, *)
(* on its way to the relay or to the provider, or served there; and as     *)
(* long as the provider may serve it, the relay or a cancel knows of it.   *)

\* What would be read by an end that is gone is lost, and a relay writes when it has accepted.
DeadEnds ==
    \A x \in Sockets : client[x] = "closed" \/ remote[x] = "unused" => down[x] = <<>>

NoFinal(r) == \A x \in Sockets : ~HoldsFinal(up[x], r)

\* No relay has passed the request on.
Quiet(r) ==
    /\ \A x \in Sockets : ~Holds(down[x], "request", r) /\ ~Holds(down[x], "cancel", r)
    /\ \A k \in Relays : pending[k][r] = NoEntry

\* The provider at socket q will be told when the caller goes away.
Bound(r, q) ==
    \/ pending[RelayOf(q)][r] = [caller |-> call[r].socket, provider |-> q]
    \/ Holds(down[q], "cancel", r)

Unstarted(r) ==
    call[r].phase = "idle" =>
        /\ \A x \in Sockets : ~Holds(up[x], "request", r) /\ ~Holds(up[x], "cancel", r)
        /\ Quiet(r) /\ NoFinal(r) /\ serving[r].by = NoNode /\ inflight[r] = NoSocket

Called(r) ==
    call[r].phase # "idle" =>
        /\ call[r].socket \in Sockets
        /\ client[call[r].socket] \in {"open", "closed"}
        /\ inflight[r] \in {NoSocket, call[r].socket}

GoingUp(r) ==
    \A x \in Sockets :
        /\ Ordered(up[x], r)
        /\ Holds(up[x], "request", r) =>
              x = call[r].socket /\ Quiet(r) /\ NoFinal(r) /\ serving[r].by = NoNode
        /\ Holds(up[x], "cancel", r) => x = call[r].socket /\ call[r].phase = "cancelled"

GoingDown(r) ==
    \A q \in Sockets :
        /\ Ordered(down[q], r)
        /\ Holds(down[q], "request", r) =>
              /\ NoFinal(r) /\ serving[r].by = NoNode
              /\ remote[q] = "open" => Bound(r, q)
              /\ \A x \in Sockets \ {q} : ~Holds(down[x], "request", r)

Served(r) ==
    serving[r].by # NoNode =>
        /\ NoFinal(r)
        /\ serving[r].via \in Sockets /\ Owner(serving[r].via) = serving[r].by
        /\ client[serving[r].via] \in {"open", "closed"}
        /\ Healthy(serving[r].via) => Bound(r, serving[r].via)

GivenUp(r) ==
    LET s == call[r].socket IN
    /\ call[r].phase = "disconnected" => client[s] = "closed"
    /\ call[r].phase = "cancelled" /\ client[s] # "closed" /\ remote[s] = "open" =>
          \/ Holds(up[s], "cancel", r)
          \/ ~Holds(up[s], "request", r) /\ pending[RelayOf(s)][r] = NoEntry

KeptForCaller(r) ==
    \A k \in Relays : pending[k][r] # NoEntry => pending[k][r].caller = call[r].socket

RequestSound(r) ==
    /\ Unstarted(r) /\ Called(r) /\ GoingUp(r) /\ GoingDown(r)
    /\ Served(r) /\ GivenUp(r) /\ KeptForCaller(r)

CallInv == WsInv /\ DeadEnds /\ \A r \in Requests : RequestSound(r)

\* What a step that is not about a request leaves of it: nothing new is under way, and what
\* is to stop it stays as long as both ends of its socket live.
UpFades(r) ==
    \A x \in Sockets :
        /\ Ordered(up'[x], r)
        /\ Holds(up'[x], "request", r) => Holds(up[x], "request", r)
        /\ Holds(up'[x], "cancel", r) => Holds(up[x], "cancel", r)
        /\ HoldsFinal(up'[x], r) => HoldsFinal(up[x], r)
        /\ Holds(up[x], "cancel", r) /\ remote'[x] = "open" => Holds(up'[x], "cancel", r)

DownFades(r) ==
    \A x \in Sockets :
        /\ Ordered(down'[x], r)
        /\ Holds(down'[x], "request", r) => Holds(down[x], "request", r)
        /\ Holds(down'[x], "cancel", r) => Holds(down[x], "cancel", r)
        /\ Holds(down[x], "cancel", r) /\ client'[x] # "closed" => Holds(down'[x], "cancel", r)

LinksFade ==
    \A x \in Sockets :
        /\ client[x] = "closed" => client'[x] = "closed"
        /\ client[x] = "open" => client'[x] \in {"open", "closed"}
        /\ remote'[x] = "open" => \/ remote[x] = "open"
                                  \/ remote[x] = "unused" /\ client[x] = "connecting"

PendingFades(r) ==
    \A k \in Relays :
        \/ pending'[k][r] = pending[k][r]
        \/ /\ pending'[k][r] = NoEntry
           /\ ~NoFinal(r) \/ \A x \in Sockets : RelayOf(x) = k => remote'[x] # "open"

ServingFades(r) ==
    \/ serving'[r].by = serving[r].by /\ serving'[r].via = serving[r].via
    \/ serving'[r].by = NoNode

CallFades(r) ==
    /\ call'[r].socket = call[r].socket
    /\ \/ call'[r].phase = call[r].phase
       \/ call[r].phase \in {"sending", "sent"} /\ call'[r].phase \in {"sent", "answered", "offline"}
       \/ /\ call[r].phase = "sent" /\ call'[r].phase = "disconnected"
          /\ client'[call[r].socket] = "closed"
    /\ \/ inflight'[r] \in {inflight[r], NoSocket}
       \/ call[r].phase # "idle" /\ inflight'[r] = call[r].socket

LEMMA RequestFades ==
    ASSUME CallInv, DeadEnds', NEW r \in Requests, UpFades(r), DownFades(r), LinksFade,
           PendingFades(r), ServingFades(r), CallFades(r)
    PROVE  RequestSound(r)'
<1>1. PICK c : c = call[r].socket /\ c = call'[r].socket
  BY DEF CallFades
<1>2. RequestSound(r)
  BY DEF CallInv
<1>3. NoFinal(r) => NoFinal(r)'
  BY DEF NoFinal, UpFades
<1>4. \A k \in Relays : pending[k][r] = NoEntry => pending'[k][r] = NoEntry
  BY DEF PendingFades
<1>5. Quiet(r) => Quiet(r)'
  BY <1>4 DEF Quiet, DownFades
<1>6. serving[r].by = NoNode => serving'[r].by = NoNode
  BY DEF ServingFades
<1>7. call[r].phase = "idle" <=> call'[r].phase = "idle"
  BY DEF CallFades
<1>8. call'[r].phase = "cancelled" => call[r].phase = "cancelled"
  BY DEF CallFades
<1>9. Unstarted(r)'
  <2>1. call[r].phase = "idle" /\ inflight[r] = NoSocket => inflight'[r] = NoSocket
    BY DEF CallFades
  <2> QED BY <1>2, <1>3, <1>5, <1>6, <1>7, <2>1 DEF RequestSound, Unstarted, UpFades
<1>10. Called(r)'
  <2>1. call[r].phase # "idle" => inflight'[r] \in {NoSocket, c}
    BY <1>1, <1>2 DEF RequestSound, Called, CallFades
  <2>2. call[r].phase # "idle" => c \in Sockets /\ client'[c] \in {"open", "closed"}
    BY <1>1, <1>2 DEF RequestSound, Called, LinksFade
  <2> QED BY <1>1, <1>7, <2>1, <2>2 DEF Called
<1>11. GoingUp(r)'
  <2> SUFFICES ASSUME NEW x \in Sockets
               PROVE  /\ Ordered(up'[x], r)
                      /\ Holds(up'[x], "request", r) =>
                            x = c /\ Quiet(r)' /\ NoFinal(r)' /\ serving'[r].by = NoNode
                      /\ Holds(up'[x], "cancel", r) => x = c /\ call'[r].phase = "cancelled"
    BY <1>1 DEF GoingUp
  <2>1. Holds(up[x], "cancel", r) => call'[r].phase = "cancelled"
    BY <1>2 DEF RequestSound, GoingUp, CallFades
  <2> QED BY <1>1, <1>2, <1>3, <1>5, <1>6, <2>1 DEF RequestSound, GoingUp, UpFades
\* A binding that is lost is lost with its relay, or after the last frame of the answer.
<1>12. ASSUME NEW q \in Sockets, Bound(r, q), remote'[q] = "open", client'[q] # "closed",
              NoFinal(r)
       PROVE  Bound(r, q)'
  <2>1. RelayOf(q) \in Relays
    BY SocketParts
  <2>2. CASE Holds(down[q], "cancel", r)
    BY <1>12, <2>2 DEF DownFades, Bound
  <2>3. CASE pending[RelayOf(q)][r] = [caller |-> c, provider |-> q]
    <3>1. pending'[RelayOf(q)][r] = pending[RelayOf(q)][r]
      BY <1>12, <2>1 DEF PendingFades
    <3> QED BY <1>1, <2>3, <3>1 DEF Bound
  <2> QED BY <1>1, <1>12, <2>2, <2>3 DEF Bound
<1>13. GoingDown(r)'
  <2> SUFFICES ASSUME NEW q \in Sockets
               PROVE  /\ Ordered(down'[q], r)
                      /\ Holds(down'[q], "request", r) =>
                            /\ NoFinal(r)' /\ serving'[r].by = NoNode
                            /\ remote'[q] = "open" => Bound(r, q)'
                            /\ \A x \in Sockets \ {q} : ~Holds(down'[x], "request", r)
    BY DEF GoingDown
  <2>1. Ordered(down'[q], r)
    BY DEF DownFades
  <2>2. ASSUME Holds(down'[q], "request", r)
        PROVE  /\ NoFinal(r)' /\ serving'[r].by = NoNode
               /\ \A x \in Sockets \ {q} : ~Holds(down'[x], "request", r)
    BY <1>2, <1>3, <1>6, <2>2 DEF DownFades, RequestSound, GoingDown
  <2>3. ASSUME Holds(down'[q], "request", r), remote'[q] = "open" PROVE Bound(r, q)'
    <3>1. Holds(down[q], "request", r) /\ NoFinal(r) /\ (remote[q] = "open" => Bound(r, q))
      BY <1>2, <2>3 DEF DownFades, RequestSound, GoingDown
    <3>2. down[q] # <<>> /\ down'[q] # <<>>
      BY <2>3, <3>1, HoldsEmpty
    <3>3. client'[q] # "closed" /\ remote[q] # "unused"
      BY <3>2 DEF CallInv, DeadEnds
    <3>4. remote[q] = "open"
      BY <2>3, <3>3 DEF LinksFade
    <3> QED BY <1>12, <2>3, <3>1, <3>3, <3>4
  <2> QED BY <2>1, <2>2, <2>3
<1>14. Served(r)'
  <2> SUFFICES ASSUME serving'[r].by # NoNode
               PROVE  /\ NoFinal(r)'
                      /\ serving'[r].via \in Sockets /\ Owner(serving'[r].via) = serving'[r].by
                      /\ client'[serving'[r].via] \in {"open", "closed"}
                      /\ Healthy(serving[r].via)' => Bound(r, serving[r].via)'
    BY DEF Served
  <2>1. PICK v : v = serving[r].via /\ v = serving'[r].via /\ serving'[r].by = serving[r].by
    BY DEF ServingFades
  <2>2. NoFinal(r) /\ v \in Sockets /\ Owner(v) = serving[r].by /\ client[v] \in {"open", "closed"}
        /\ (Healthy(v) => Bound(r, v))
    BY <1>2, <2>1 DEF RequestSound, Served
  <2>3. client'[v] \in {"open", "closed"}
    BY <2>2 DEF LinksFade
  <2>4. ASSUME Healthy(v)' PROVE Bound(r, v)'
    <3>1. Healthy(v)
      BY <2>2, <2>4 DEF Healthy, LinksFade
    <3> QED BY <1>12, <2>2, <2>4, <3>1 DEF Healthy
  <2> QED BY <1>3, <2>1, <2>2, <2>3, <2>4 DEF Healthy, Bound
<1>15. GivenUp(r)'
  <2>1. ASSUME call'[r].phase = "disconnected" PROVE client'[c] = "closed"
    <3>1. CASE call[r].phase = "disconnected"
      BY <1>1, <1>2, <3>1 DEF RequestSound, GivenUp, Called, LinksFade
    <3>2. CASE call[r].phase # "disconnected"
      BY <1>1, <2>1, <3>2 DEF CallFades
    <3> QED BY <3>1, <3>2
  <2>2. ASSUME call'[r].phase = "cancelled", client'[c] # "closed", remote'[c] = "open"
        PROVE  \/ Holds(up'[c], "cancel", r)
               \/ ~Holds(up'[c], "request", r) /\ pending'[RelayOf(c)][r] = NoEntry
    <3>1. call[r].phase = "cancelled" /\ c \in Sockets /\ client[c] \in {"open", "closed"}
      BY <1>1, <1>2, <1>8, <2>2 DEF RequestSound, Called
    <3>2. client[c] = "open" /\ remote[c] = "open"
      BY <2>2, <3>1 DEF LinksFade
    <3>3. RelayOf(c) \in Relays
      BY <3>1, SocketParts
    <3>4. \/ Holds(up[c], "cancel", r)
          \/ ~Holds(up[c], "request", r) /\ pending[RelayOf(c)][r] = NoEntry
      BY <1>1, <1>2, <3>1, <3>2 DEF RequestSound, GivenUp
    <3> QED BY <1>4, <2>2, <3>1, <3>3, <3>4 DEF UpFades
  <2> QED BY <1>1, <2>1, <2>2 DEF GivenUp
<1>16. KeptForCaller(r)'
  BY <1>1, <1>2 DEF RequestSound, KeptForCaller, PendingFades
<1> QED BY <1>9, <1>10, <1>11, <1>13, <1>14, <1>15, <1>16 DEF RequestSound

\* A frame that is neither the request, nor its cancel, nor the last of its answer.
Foreign(f, r) == ~IsOf(f, "request", r) /\ ~IsOf(f, "cancel", r) /\ ~IsFinal(f, r)
ForeignAll(frames, r) ==
    ~Holds(frames, "request", r) /\ ~Holds(frames, "cancel", r) /\ ~HoldsFinal(frames, r)

LEMMA UpChanges ==
    ASSUME CallInv, NEW r \in Requests,
           \A x \in Sockets :
              \/ up'[x] = up[x]
              \/ up'[x] = <<>> /\ remote'[x] # "open"
              \/ \E f \in Frames : up'[x] = Append(up[x], f) /\ Foreign(f, r)
              \/ \E frames \in Seq(Frames) : up'[x] = up[x] \o frames /\ ForeignAll(frames, r)
              \/ up[x] # <<>> /\ up'[x] = Tail(up[x]) /\ ~IsOf(Head(up[x]), "cancel", r)
    PROVE  UpFades(r)
<1> SUFFICES ASSUME NEW x \in Sockets
             PROVE  /\ Ordered(up'[x], r)
                    /\ Holds(up'[x], "request", r) => Holds(up[x], "request", r)
                    /\ Holds(up'[x], "cancel", r) => Holds(up[x], "cancel", r)
                    /\ HoldsFinal(up'[x], r) => HoldsFinal(up[x], r)
                    /\ Holds(up[x], "cancel", r) /\ remote'[x] = "open" => Holds(up'[x], "cancel", r)
  BY DEF UpFades
<1>1. PICK queue \in Seq(Frames) : queue = up[x]
  BY DEF CallInv, WsInv, LinkTypeOK
<1>2. Ordered(queue, r)
  BY <1>1 DEF CallInv, RequestSound, GoingUp
<1>3. CASE up'[x] = up[x]
  BY <1>1, <1>2, <1>3
<1>4. CASE up'[x] = <<>> /\ remote'[x] # "open"
  BY <1>4, HoldsEmpty
<1>5. ASSUME NEW f \in Frames, up'[x] = Append(up[x], f), Foreign(f, r)
      PROVE  /\ Ordered(up'[x], r)
             /\ Holds(up'[x], "request", r) => Holds(up[x], "request", r)
             /\ Holds(up'[x], "cancel", r) <=> Holds(up[x], "cancel", r)
             /\ HoldsFinal(up'[x], r) => HoldsFinal(up[x], r)
  BY <1>1, <1>2, <1>5, HoldsAppend DEF Foreign
<1>6. ASSUME NEW frames \in Seq(Frames), up'[x] = up[x] \o frames, ForeignAll(frames, r)
      PROVE  /\ Ordered(up'[x], r)
             /\ Holds(up'[x], "request", r) => Holds(up[x], "request", r)
             /\ Holds(up'[x], "cancel", r) <=> Holds(up[x], "cancel", r)
             /\ HoldsFinal(up'[x], r) => HoldsFinal(up[x], r)
  BY <1>1, <1>2, <1>6, HoldsConcat DEF ForeignAll
<1>7. CASE up[x] # <<>> /\ up'[x] = Tail(up[x]) /\ ~IsOf(Head(up[x]), "cancel", r)
  BY <1>1, <1>2, <1>7, HoldsTail
<1> QED BY <1>3, <1>4, <1>5, <1>6, <1>7

LEMMA DownChanges ==
    ASSUME CallInv, NEW r \in Requests,
           \A x \in Sockets :
              \/ down'[x] = down[x]
              \/ down'[x] = <<>> /\ client'[x] = "closed"
              \/ \E frames \in Seq(Frames) :
                    /\ down'[x] = down[x] \o frames
                    /\ ~Holds(frames, "request", r) /\ ~Holds(frames, "cancel", r)
              \/ down[x] # <<>> /\ down'[x] = Tail(down[x]) /\ ~IsOf(Head(down[x]), "cancel", r)
    PROVE  DownFades(r)
<1> SUFFICES ASSUME NEW x \in Sockets
             PROVE  /\ Ordered(down'[x], r)
                    /\ Holds(down'[x], "request", r) => Holds(down[x], "request", r)
                    /\ Holds(down'[x], "cancel", r) => Holds(down[x], "cancel", r)
                    /\ Holds(down[x], "cancel", r) /\ client'[x] # "closed"
                          => Holds(down'[x], "cancel", r)
  BY DEF DownFades
<1>1. PICK queue \in Seq(Frames) : queue = down[x]
  BY DEF CallInv, WsInv, LinkTypeOK
<1>2. Ordered(queue, r)
  BY <1>1 DEF CallInv, RequestSound, GoingDown
<1>3. CASE down'[x] = down[x]
  BY <1>1, <1>2, <1>3
<1>4. CASE down'[x] = <<>> /\ client'[x] = "closed"
  BY <1>4, HoldsEmpty
<1>5. ASSUME NEW frames \in Seq(Frames), down'[x] = down[x] \o frames,
             ~Holds(frames, "request", r), ~Holds(frames, "cancel", r)
      PROVE  /\ Ordered(down'[x], r)
             /\ Holds(down'[x], "request", r) => Holds(down[x], "request", r)
             /\ Holds(down'[x], "cancel", r) <=> Holds(down[x], "cancel", r)
  BY <1>1, <1>2, <1>5, HoldsConcat
<1>6. CASE down[x] # <<>> /\ down'[x] = Tail(down[x]) /\ ~IsOf(Head(down[x]), "cancel", r)
  BY <1>1, <1>2, <1>6, HoldsTail
<1> QED BY <1>3, <1>4, <1>5, <1>6

\* What a relay writes, socket by socket.
LEMMA Written ==
    ASSUME LinkTypeOK, NEW readyState, NEW frames \in Letters, Write(readyState, frames),
           NEW x \in Sockets
    PROVE  /\ down'[x] = IF readyState[x] = "open" /\ client[x] # "closed"
                         THEN down[x] \o frames[x] ELSE down[x]
           /\ frames[x] \in Seq(Frames) /\ down[x] \in Seq(Frames)
  BY DEF Write, Letters, LinkTypeOK

\* Nothing is written to a dead end.
LEMMA WriteKeepsDeadEnds ==
    ASSUME CallInv, NEW readyState, NEW frames \in Letters, Write(readyState, frames),
           UNCHANGED client,
           \A x \in Sockets : readyState[x] = "open" => remote[x] = "open",
           \A x \in Sockets : remote'[x] = "unused" => remote[x] = "unused"
    PROVE  DeadEnds'
<1> SUFFICES ASSUME NEW x \in Sockets, client[x] = "closed" \/ remote'[x] = "unused"
             PROVE  down'[x] = <<>>
  BY DEF DeadEnds
<1>1. down[x] = <<>>
  BY DEF CallInv, DeadEnds
<1>2. ~(readyState[x] = "open" /\ client[x] # "closed")
  OBVIOUS
<1> QED BY <1>1, <1>2, Written DEF CallInv, WsInv

LEMMA WriteIsForeign ==
    ASSUME CallInv, NEW r \in Requests, NEW readyState, NEW frames \in Letters,
           Write(readyState, frames),
           \A x \in Sockets : ~Holds(frames[x], "request", r) /\ ~Holds(frames[x], "cancel", r)
    PROVE  DownFades(r)
<1>1. \A x \in Sockets : frames[x] \in Seq(Frames) /\ (down'[x] = down[x] \/ down'[x] = down[x] \o frames[x])
  BY Written DEF CallInv, WsInv
<1> QED BY <1>1, DownChanges

\* Letters that are about no request, and their combinations.
LEMMA OneFrameHolds ==
    ASSUME NEW f \in Frames, NEW r
    PROVE  /\ \A type : Holds(<<f>>, type, r) <=> IsOf(f, type, r)
           /\ HoldsFinal(<<f>>, r) <=> IsFinal(f, r)
<1>1. PICK one \in Seq(Frames) : one = <<f>> /\ Len(one) = 1 /\ one[1] = f
  BY OneFrame
<1>2. DOMAIN one = {1}
  BY <1>1
<1> QED BY <1>1, <1>2 DEF Holds, HoldsFinal, IsOf, IsFinal

LEMMA LettersHold ==
    ASSUME NEW r
    PROVE  /\ \A x \in Sockets : \A type : ~Holds(Silence[x], type, r)
           /\ \A s : \A f \in Frames : \A x \in Sockets : \A type :
                 Holds(To(s, f)[x], type, r) <=> x = s /\ IsOf(f, type, r)
           /\ \A s : \A f \in Frames : \A x \in Sockets : \A type :
                 Holds(Broadcast(f, s)[x], type, r) => IsOf(f, type, r)
           /\ \A first, second \in Letters : \A x \in Sockets : \A type :
                 Holds(Also(first, second)[x], type, r)
                    <=> Holds(first[x], type, r) \/ Holds(second[x], type, r)
<1>1. \A x \in Sockets : \A type : ~Holds(Silence[x], type, r)
  BY HoldsEmpty DEF Silence
<1>2. \A s : \A f \in Frames : \A x \in Sockets : \A type :
         Holds(To(s, f)[x], type, r) <=> x = s /\ IsOf(f, type, r)
  BY HoldsEmpty, OneFrameHolds DEF To
<1>3. \A s : \A f \in Frames : \A x \in Sockets : \A type :
         Holds(Broadcast(f, s)[x], type, r) => IsOf(f, type, r)
  BY HoldsEmpty, OneFrameHolds DEF Broadcast
<1>4. \A first, second \in Letters : \A x \in Sockets : \A type :
         Holds(Also(first, second)[x], type, r)
            <=> Holds(first[x], type, r) \/ Holds(second[x], type, r)
  BY HoldsConcat DEF Also, Letters
<1> QED BY <1>1, <1>2, <1>3, <1>4

LEMMA ForeignHas ==
    ASSUME NEW queue, NEW r
    PROVE  ForeignAll(queue, r) <=> \A f : Has(queue, f) => Foreign(f, r)
  BY HoldsHas DEF ForeignAll, Foreign

LEMMA LettersForeign ==
    ASSUME NEW r
    PROVE  /\ \A x \in Sockets : ForeignAll(Silence[x], r)
           /\ \A s : \A f \in Frames : \A x \in Sockets :
                 Foreign(f, r) => ForeignAll(To(s, f)[x], r) /\ ForeignAll(Broadcast(f, s)[x], r)
           /\ \A first, second \in Letters : \A x \in Sockets :
                 ForeignAll(first[x], r) /\ ForeignAll(second[x], r)
                    => ForeignAll(Also(first, second)[x], r)
<1>1. ForeignAll(<<>>, r)
  BY HoldsEmpty DEF ForeignAll
<1>2. \A f \in Frames : Foreign(f, r) => ForeignAll(<<f>>, r)
  BY OneFrameHolds DEF ForeignAll, Foreign
<1>3. \A x \in Sockets : ForeignAll(Silence[x], r)
  BY <1>1 DEF Silence
<1>4. ASSUME NEW s, NEW f \in Frames, NEW x \in Sockets, Foreign(f, r)
      PROVE  ForeignAll(To(s, f)[x], r) /\ ForeignAll(Broadcast(f, s)[x], r)
  <2>1. To(s, f)[x] = <<f>> \/ To(s, f)[x] = <<>>
    BY DEF To
  <2>2. Broadcast(f, s)[x] = <<f>> \/ Broadcast(f, s)[x] = <<>>
    BY DEF Broadcast
  <2> QED BY <1>1, <1>2, <1>4, <2>1, <2>2
<1>5. ASSUME NEW first \in Letters, NEW second \in Letters, NEW x \in Sockets,
             ForeignAll(first[x], r), ForeignAll(second[x], r)
      PROVE  ForeignAll(Also(first, second)[x], r)
  <2>1. PICK one \in Seq(Frames), two \in Seq(Frames) : one = first[x] /\ two = second[x]
    BY DEF Letters
  <2>2. ForeignAll(one \o two, r)
    BY <1>5, <2>1, HoldsConcat DEF ForeignAll
  <2> QED BY <2>1, <2>2 DEF Also
<1> QED BY <1>3, <1>4, <1>5

LEMMA HellosForeign ==
    ASSUME NEW queue, \A f : Has(queue, f) => f.type = "hello", NEW r
    PROVE  ForeignAll(queue, r)
<1>1. \A f : Has(queue, f) => Foreign(f, r)
  BY DEF Foreign, IsOf, IsFinal
<1> QED BY <1>1, ForeignHas

LEMMA SyncForeign ==
    ASSUME NEW k, NEW registered \in Registry, NEW metadata \in Metadata, NEW r, NEW x \in Sockets
    PROVE  ForeignAll(Sync(k, registered, metadata)[x], r)
<1>1. PICK letter : letter = Sync(k, registered, metadata)[x]
  OBVIOUS
<1>2. letter = <<>> \/ letter = Directory(x, registered, metadata)
  BY <1>1 DEF Sync
<1>3. \A f : Has(letter, f) => f.type = "hello"
  BY <1>2, DirectoryHellos DEF Has
<1>4. ForeignAll(letter, r)
  BY <1>3, HellosForeign
<1> QED BY <1>1, <1>4

-----------------------------------------------------------------------------
(* Steps of a relay.                                                       *)

LEMMA RelayFades ==
    ASSUME CallInv, DeadEnds', UNCHANGED <<nodeVars, client>>, NEW r \in Requests,
           UpFades(r), DownFades(r), PendingFades(r),
           \A x \in Sockets : remote'[x] = "open" =>
              \/ remote[x] = "open"
              \/ remote[x] = "unused" /\ client[x] = "connecting"
    PROVE  RequestSound(r)'
<1>1. LinksFade
  BY DEF LinksFade
<1>2. ServingFades(r) /\ CallFades(r)
  BY DEF nodeVars, ServingFades, CallFades
<1> QED BY <1>1, <1>2, RequestFades

LEMMA ReadFades ==
    ASSUME CallInv, NEW s \in Sockets, NEW type, Reads(s, type), NEW r \in Requests,
           ~IsOf(Head(up[s]), "cancel", r)
    PROVE  UpFades(r)
<1>1. up[s] # <<>> /\ up'[s] = Tail(up[s]) /\ \A x \in Sockets \ {s} : up'[x] = up[x]
  BY ReadType DEF CallInv, WsInv
<1> QED BY <1>1, UpChanges

LEMMA AcceptKeepsCalls ==
    ASSUME CallInv, NEW s \in Sockets, Accept(s), UNCHANGED nodeVars
    PROVE  DeadEnds' /\ \A r \in Requests : RequestSound(r)'
<1>1. /\ client[s] = "connecting" /\ remote[s] = "unused"
      /\ UNCHANGED <<client, up, pending>>
      /\ remote'[s] = "open" /\ \A x \in Sockets \ {s} : remote'[x] = remote[x]
      /\ \A x \in Sockets \ {s} : down'[x] = down[x]
      /\ down'[s] = down[s] \o Directory(s, nodes, me)
  BY DEF Accept, CallInv, WsInv, LinkTypeOK
<1>2. DeadEnds'
  BY <1>1 DEF CallInv, DeadEnds
<1>3. ASSUME NEW r \in Requests PROVE RequestSound(r)'
  <2>1. PICK frames \in Seq(Frames) : frames = Directory(s, nodes, me)
    BY DirectoryType DEF CallInv, WsInv, RelayInv, RelayTypes
  <2>2. \A f : Has(frames, f) => ~IsOf(f, "request", r) /\ ~IsOf(f, "cancel", r)
    BY <2>1, DirectoryHellos DEF CallInv, WsInv, RelayInv, RelayTypes, IsOf
  <2>3. ~Holds(frames, "request", r) /\ ~Holds(frames, "cancel", r)
    BY <2>2, HoldsHas
  <2>4. DownFades(r)
    BY <1>1, <2>1, <2>3, DownChanges
  <2>5. UpFades(r)
    BY <1>1, UpChanges
  <2>6. PendingFades(r)
    BY <1>1 DEF PendingFades
  <2> QED BY <1>1, <1>2, <2>4, <2>5, <2>6, RelayFades
<1> QED BY <1>2, <1>3

LEMMA CrashKeepsCalls ==
    ASSUME CallInv, NEW k \in Relays, Crash(k), UNCHANGED nodeVars
    PROVE  DeadEnds' /\ \A r \in Requests : RequestSound(r)'
<1>1. /\ UNCHANGED <<client, down>>
      /\ \A x \in Sockets : remote'[x] = remote[x] \/ (remote[x] # "unused" /\ remote'[x] = "closed")
      /\ \A x \in Sockets : RelayOf(x) = k => remote'[x] # "open"
      /\ \A x \in Sockets : up'[x] = up[x] \/ (up'[x] = <<>> /\ remote'[x] # "open")
  BY DEF Crash
<1>2. \A h \in Relays, r \in Requests :
         pending'[h][r] = IF h = k THEN NoEntry ELSE pending[h][r]
  BY DEF Crash, CallInv, WsInv, RelayInv, RelayTypes
<1>3. DeadEnds'
  BY <1>1 DEF CallInv, DeadEnds
<1>4. ASSUME NEW r \in Requests PROVE RequestSound(r)'
  <2>1. UpFades(r)
    BY <1>1, UpChanges
  <2>2. DownFades(r)
    BY <1>1, DownChanges
  <2>3. PendingFades(r)
    BY <1>1, <1>2 DEF PendingFades
  <2> QED BY <1>1, <1>3, <2>1, <2>2, <2>3, RelayFades
<1> QED BY <1>3, <1>4

\* Frames that are no request are read, and nothing about one is written.
LEMMA ReadingKeepsCalls ==
    ASSUME CallInv, NEW s \in Sockets, NEW type, Reads(s, type), type # "cancel",
           UNCHANGED <<nodeVars, client, remote, pending>>,
           NEW frames \in Letters, Deliver(frames),
           \A r \in Requests, x \in Sockets :
              ~Holds(frames[x], "request", r) /\ ~Holds(frames[x], "cancel", r)
    PROVE  DeadEnds' /\ \A r \in Requests : RequestSound(r)'
<1>1. DeadEnds'
  BY WriteKeepsDeadEnds DEF Deliver
<1>2. ASSUME NEW r \in Requests PROVE RequestSound(r)'
  <2>1. UpFades(r)
    BY ReadFades DEF Reads, IsOf
  <2>2. DownFades(r)
    BY WriteIsForeign DEF Deliver
  <2>3. PendingFades(r)
    BY DEF PendingFades
  <2> QED BY <1>1, <2>1, <2>2, <2>3, RelayFades
<1> QED BY <1>1, <1>2

LEMMA SilentReadKeepsCalls ==
    ASSUME CallInv, NEW s \in Sockets, NEW type, Reads(s, type), type # "cancel",
           UNCHANGED <<nodeVars, client, remote, pending, down>>
    PROVE  DeadEnds' /\ \A r \in Requests : RequestSound(r)'
<1>1. DeadEnds'
  BY DEF CallInv, DeadEnds
<1>2. ASSUME NEW r \in Requests PROVE RequestSound(r)'
  <2>1. UpFades(r)
    BY ReadFades DEF Reads, IsOf
  <2>2. DownFades(r)
    BY DownChanges
  <2>3. PendingFades(r)
    BY DEF PendingFades
  <2> QED BY <1>1, <2>1, <2>2, <2>3, RelayFades
<1> QED BY <1>1, <1>2

LEMMA OnHelloKeepsCalls ==
    ASSUME CallInv, NEW s \in Sockets, OnHello(s), UNCHANGED nodeVars
    PROVE  DeadEnds' /\ \A r \in Requests : RequestSound(r)'
<1>1. PICK k \in Relays : k = RelayOf(s)
  BY SocketParts
<1>2. Reads(s, "hello")
  BY DEF OnHello
<1>3. PICK f \in Frames : f = Head(up[s]) /\ f.node \in Nodes /\ f.services \in SUBSET Services
  BY <1>2, ReadType, FrameParts DEF CallInv, WsInv
<1>4. PICK n \in Nodes : n = f.node
  BY <1>3
<1>5. PICK services \in SUBSET Services : services = f.services
  BY <1>3
<1>6. PICK was \in Nodes \cup {NoNode} : was = me[s].node
  BY DEF CallInv, WsInv, RelayInv, RelayTypes, Metadata
<1>7. PICK moved \in BOOLEAN : moved = (was \notin {NoNode, n})
  OBVIOUS
<1>8. moved => was \in Nodes
  BY <1>7
<1>9. PICK kept : kept = IF moved THEN [nodes EXCEPT ![k][was] = NoSocket] ELSE nodes
  OBVIOUS
<1>10. PICK registered : registered = [kept EXCEPT ![k][n] = s]
  OBVIOUS
<1>11. PICK metadata : metadata = [me EXCEPT ![s] = [node |-> n, services |-> services]]
  OBVIOUS
<1>12. PICK left : left = IF moved THEN Broadcast(Offline(was), s) ELSE Silence
  OBVIOUS
<1>13. PICK synced : synced = IF ShouldSync(k, n, services) THEN Sync(k, registered, metadata)
                              ELSE Silence
  OBVIOUS
<1>14. Deliver(Also(left, synced)) /\ UNCHANGED <<client, remote, pending>>
  BY <1>1, <1>3, <1>4, <1>5, <1>6, <1>7, <1>9, <1>10, <1>11, <1>12, <1>13 DEF OnHello
<1>15. kept \in Registry
  BY <1>8, <1>9 DEF CallInv, WsInv, RelayInv, RelayTypes, Registry
<1>16. registered \in Registry /\ metadata \in Metadata
  BY <1>10, <1>11, <1>15 DEF CallInv, WsInv, RelayInv, RelayTypes, Registry, Metadata
<1>17. left \in Letters /\ synced \in Letters
  BY <1>8, <1>12, <1>13, <1>16, LettersAreSent, FrameTypes, SyncType
<1>18. ASSUME NEW r \in Requests, NEW x \in Sockets
       PROVE  ~Holds(left[x], "request", r) /\ ~Holds(left[x], "cancel", r)
  <2>1. CASE moved
    <3>1. PICK off \in Frames : off = Offline(was) /\ off.type = "offline"
      BY <1>8, <2>1, FrameTypes DEF Offline
    <3>2. ~IsOf(off, "request", r) /\ ~IsOf(off, "cancel", r)
      BY <3>1 DEF IsOf
    <3> QED BY <1>12, <2>1, <3>1, <3>2, LettersHold
  <2>2. CASE ~moved
    BY <1>12, <2>2, LettersHold
  <2> QED BY <2>1, <2>2
<1>19. ASSUME NEW r \in Requests, NEW x \in Sockets
       PROVE  ~Holds(synced[x], "request", r) /\ ~Holds(synced[x], "cancel", r)
  BY <1>13, <1>16, LettersHold, SyncForeign DEF ForeignAll
<1>20. PICK letters \in Letters : letters = Also(left, synced)
  BY <1>17, LettersAreSent
<1>21. \A r \in Requests, x \in Sockets :
          ~Holds(letters[x], "request", r) /\ ~Holds(letters[x], "cancel", r)
  BY <1>17, <1>18, <1>19, <1>20, LettersHold
<1> QED BY <1>2, <1>14, <1>20, <1>21, ReadingKeepsCalls

LEMMA OnPublishKeepsCalls ==
    ASSUME CallInv, NEW s \in Sockets, OnPublish(s), UNCHANGED nodeVars
    PROVE  DeadEnds' /\ \A r \in Requests : RequestSound(r)'
<1>1. PICK f \in Frames : f = Head(up[s]) /\ f.type = "publish"
  BY ReadType DEF OnPublish, CallInv, WsInv
<1>2. PICK receivers : receivers = {nodes[RelayOf(s)][n] : n \in listeners[RelayOf(s)][f.topic]}
  OBVIOUS
<1>3. PICK letters : letters = [t \in Sockets |-> IF me[s].node # NoNode /\ t \in receivers
                                                  THEN <<f>> ELSE <<>>]
  OBVIOUS
<1>4. letters \in Letters
  <2>1. <<f>> \in Seq(Frames) /\ <<>> \in Seq(Frames)
    OBVIOUS
  <2> QED BY <1>3, <2>1 DEF Letters
<1>5. Deliver(letters) /\ Reads(s, "publish") /\ UNCHANGED <<client, remote, pending>>
  BY <1>1, <1>2, <1>3 DEF OnPublish, relayVars
<1>6. ASSUME NEW r \in Requests, NEW x \in Sockets
      PROVE  ~Holds(letters[x], "request", r) /\ ~Holds(letters[x], "cancel", r)
  <2>1. ~IsOf(f, "request", r) /\ ~IsOf(f, "cancel", r)
    BY <1>1 DEF IsOf
  <2>2. letters[x] = <<f>> \/ letters[x] = <<>>
    BY <1>3
  <2> QED BY <2>1, <2>2, HoldsEmpty, OneFrameHolds
<1> QED BY <1>4, <1>5, <1>6, ReadingKeepsCalls

LEMMA OnResponseKeepsCalls ==
    ASSUME CallInv, NEW s \in Sockets, OnResponse(s), UNCHANGED nodeVars
    PROVE  DeadEnds' /\ \A r \in Requests : RequestSound(r)'
<1>1. PICK f \in Frames : f = Head(up[s]) /\ f.type = "response" /\ f.request \in Requests
  BY ReadType, FrameParts DEF OnResponse, CallInv, WsInv
<1>2. PICK k \in Relays : k = RelayOf(s)
  BY SocketParts
<1>3. PICK target : target = IF f.destination = NoNode THEN NoSocket ELSE nodes[k][f.destination]
  OBVIOUS
<1>4. PICK letters : letters = IF IsOpen(target) THEN To(target, f) ELSE Silence
  OBVIOUS
<1>5. letters \in Letters
  BY <1>4, LettersAreSent
<1>6. /\ Reads(s, "response") /\ UNCHANGED <<client, remote>> /\ Deliver(letters)
      /\ \/ pending' = pending
         \/ f.end # "more" /\ pending' = [pending EXCEPT ![k][f.request] = NoEntry]
  BY <1>1, <1>2, <1>3, <1>4 DEF OnResponse
<1>7. DeadEnds'
  BY <1>5, <1>6, WriteKeepsDeadEnds DEF Deliver
<1>8. ASSUME NEW r \in Requests PROVE RequestSound(r)'
  <2>1. ~IsOf(f, "request", r) /\ ~IsOf(f, "cancel", r)
    BY <1>1 DEF IsOf
  <2>2. \A x \in Sockets : ~Holds(letters[x], "request", r) /\ ~Holds(letters[x], "cancel", r)
    BY <1>4, <2>1, LettersHold
  <2>3. UpFades(r)
    BY <1>1, <1>6, <2>1, ReadFades
  <2>4. DownFades(r)
    BY <1>5, <1>6, <2>2, WriteIsForeign DEF Deliver
  <2>5. PendingFades(r)
    <3>1. CASE pending' = pending
      BY <3>1 DEF PendingFades
    <3>2. CASE f.end # "more" /\ pending' = [pending EXCEPT ![k][f.request] = NoEntry]
      <4>1. \A h \in Relays : pending'[h][r] = pending[h][r]
                               \/ (pending'[h][r] = NoEntry /\ r = f.request)
        BY <1>1, <3>2 DEF CallInv, WsInv, RelayInv, RelayTypes
      <4>2. r = f.request => IsFinal(f, r)
        BY <1>1, <3>2 DEF IsFinal, IsOf
      <4>3. up[s] \in Seq(Frames) /\ up[s] # <<>>
        BY <1>6 DEF Reads, CallInv, WsInv, LinkTypeOK
      <4>4. r = f.request => HoldsFinal(up[s], r)
        BY <1>1, <4>2, <4>3, HoldsTail
      <4> QED BY <4>1, <4>4 DEF PendingFades, NoFinal
    <3> QED BY <1>6, <3>1, <3>2
  <2> QED BY <1>6, <1>7, <2>3, <2>4, <2>5, RelayFades
<1> QED BY <1>7, <1>8

\* A relay forgets a request whose caller is gone or has cancelled, and tells its provider.
LEMMA EntryCleared ==
    ASSUME CallInv, UNCHANGED <<nodeVars, client>>, NEW k \in Relays, NEW r \in Requests,
           call[r].phase # "idle", RelayOf(call[r].socket) = k,
           \A x \in Sockets : /\ Ordered(up'[x], r) /\ ~Holds(up'[x], "request", r)
                              /\ Holds(up'[x], "cancel", r) => Holds(up[x], "cancel", r)
                              /\ HoldsFinal(up'[x], r) => HoldsFinal(up[x], r),
           \A x \in Sockets : /\ Ordered(down'[x], r)
                              /\ Holds(down'[x], "request", r) => Holds(down[x], "request", r)
                              /\ Holds(down[x], "cancel", r) => Holds(down'[x], "cancel", r),
           pending'[k][r] = NoEntry,
           \A h \in Relays \ {k} : pending'[h][r] = pending[h][r],
           \A q \in Sockets :
              /\ pending[k][r].provider = q /\ remote'[q] = "open" /\ client[q] # "closed"
              => Holds(down'[q], "cancel", r),
           \A x \in Sockets : remote'[x] = "open" => remote[x] = "open"
    PROVE  RequestSound(r)'
<1>1. PICK c : c = call[r].socket
  OBVIOUS
<1>2. RequestSound(r) /\ UNCHANGED <<call, serving, inflight>>
  BY DEF CallInv, nodeVars
<1>3. NoFinal(r) => NoFinal(r)'
  BY DEF NoFinal
<1>4. ASSUME NEW q \in Sockets, Bound(r, q), remote'[q] = "open", client[q] # "closed"
      PROVE  Bound(r, q)'
  <2>1. PICK h \in Relays : h = RelayOf(q)
    BY SocketParts
  <2>2. CASE Holds(down[q], "cancel", r)
    BY <2>2 DEF Bound
  <2>3. CASE pending[h][r] = [caller |-> c, provider |-> q]
    <3>1. CASE h = k
      BY <1>4, <2>3, <3>1 DEF Bound
    <3>2. CASE h # k
      BY <1>1, <1>2, <2>1, <2>3, <3>2 DEF Bound
    <3> QED BY <3>1, <3>2
  <2> QED BY <1>1, <1>4, <2>1, <2>2, <2>3 DEF Bound
<1>5. Unstarted(r)' /\ Called(r)'
  BY <1>2 DEF RequestSound, Unstarted, Called
<1>6. GoingUp(r)'
  BY <1>2 DEF RequestSound, GoingUp
<1>7. GoingDown(r)'
  <2> SUFFICES ASSUME NEW q \in Sockets, Holds(down'[q], "request", r)
               PROVE  /\ NoFinal(r)' /\ serving'[r].by = NoNode
                      /\ remote'[q] = "open" => Bound(r, q)'
                      /\ \A x \in Sockets \ {q} : ~Holds(down'[x], "request", r)
    BY DEF GoingDown
  <2>1. /\ NoFinal(r) /\ serving[r].by = NoNode
        /\ remote[q] = "open" => Bound(r, q)
        /\ \A x \in Sockets \ {q} : ~Holds(down[x], "request", r)
    BY <1>2 DEF RequestSound, GoingDown
  <2>2. down[q] # <<>>
    BY HoldsEmpty
  <2>3. client[q] # "closed"
    BY <2>2 DEF CallInv, DeadEnds
  <2> QED BY <1>2, <1>3, <1>4, <2>1, <2>3
<1>8. Served(r)'
  <2> SUFFICES ASSUME serving[r].by # NoNode
               PROVE  /\ NoFinal(r)'
                      /\ serving[r].via \in Sockets /\ Owner(serving[r].via) = serving[r].by
                      /\ client[serving[r].via] \in {"open", "closed"}
                      /\ Healthy(serving[r].via)' => Bound(r, serving[r].via)'
    BY <1>2 DEF Served, Healthy, Bound
  <2>1. PICK v : v = serving[r].via
    OBVIOUS
  <2>2. NoFinal(r) /\ v \in Sockets /\ Owner(v) = serving[r].by
        /\ client[v] \in {"open", "closed"} /\ (Healthy(v) => Bound(r, v))
    BY <1>2, <2>1 DEF RequestSound, Served
  <2>3. ASSUME Healthy(v)' PROVE Bound(r, v)'
    BY <1>4, <2>2, <2>3 DEF Healthy
  <2> QED BY <1>2, <1>3, <2>1, <2>2, <2>3 DEF Healthy, Bound
<1>9. GivenUp(r)'
  BY <1>1, <1>2 DEF RequestSound, GivenUp, Called
<1>10. KeptForCaller(r)'
  BY <1>2 DEF RequestSound, KeptForCaller
<1> QED BY <1>5, <1>6, <1>7, <1>8, <1>9, <1>10 DEF RequestSound

LEMMA OnCancelKeepsCalls ==
    ASSUME CallInv, NEW s \in Sockets, OnCancel(s), UNCHANGED nodeVars
    PROVE  DeadEnds' /\ \A r \in Requests : RequestSound(r)'
<1>1. PICK f \in Frames : f = Head(up[s]) /\ f.type = "cancel"
  BY ReadType DEF OnCancel, CallInv, WsInv
<1>2. PICK own \in Requests : own = f.request
  BY <1>1, FrameParts
<1>3. PICK k \in Relays : k = RelayOf(s)
  BY SocketParts
<1>4. PICK p : p = pending[k][own].provider
  OBVIOUS
<1>5. PICK letters : letters = IF pending[k][own] = NoEntry THEN Silence ELSE To(p, Cancel(own))
  OBVIOUS
<1>6. letters \in Letters /\ Cancel(own) \in Frames
  BY <1>5, LettersAreSent, FrameTypes
<1>7. /\ Reads(s, "cancel") /\ UNCHANGED <<client, remote>> /\ Deliver(letters)
      /\ pending' = [pending EXCEPT ![k][own] = NoEntry]
  BY <1>1, <1>2, <1>3, <1>4, <1>5 DEF OnCancel
<1>8. /\ \A h \in Relays, r \in Requests :
            pending'[h][r] = IF h = k /\ r = own THEN NoEntry ELSE pending[h][r]
  BY <1>7 DEF CallInv, WsInv, RelayInv, RelayTypes
<1>9. DeadEnds'
  BY <1>6, <1>7, WriteKeepsDeadEnds DEF Deliver
<1>10. \A r \in Requests : ~IsOf(Cancel(own), "request", r) /\ (IsOf(Cancel(own), "cancel", r) <=> r = own)
  BY DEF Cancel, IsOf
<1>11. ASSUME NEW r \in Requests, NEW x \in Sockets
       PROVE  /\ ~Holds(letters[x], "request", r)
              /\ Holds(letters[x], "cancel", r) <=> r = own /\ x = p /\ pending[k][own] # NoEntry
  BY <1>5, <1>6, <1>10, LettersHold
<1>12. ASSUME NEW r \in Requests, r # own PROVE RequestSound(r)'
  <2>1. UpFades(r)
    BY <1>1, <1>2, <1>7, <1>12, ReadFades DEF IsOf
  <2>2. DownFades(r)
    BY <1>6, <1>7, <1>11, <1>12, WriteIsForeign DEF Deliver
  <2>3. PendingFades(r)
    BY <1>8, <1>12 DEF PendingFades
  <2> QED BY <1>7, <1>9, <2>1, <2>2, <2>3, RelayFades
<1>13. RequestSound(own)'
  <2>1. PICK queue \in Seq(Frames) : queue = up[s] /\ queue # <<>> /\ Head(queue) = f
    BY <1>1, <1>7 DEF Reads, CallInv, WsInv, LinkTypeOK
  <2>2. up'[s] = Tail(queue) /\ \A x \in Sockets \ {s} : up'[x] = up[x]
    BY <1>7, <2>1, ReadType DEF CallInv, WsInv
  <2>3. RequestSound(own)
    BY DEF CallInv
  <2>4. IsOf(f, "cancel", own)
    BY <1>1, <1>2 DEF IsOf
  <2>5. Ordered(queue, own) /\ Holds(queue, "cancel", own)
    BY <2>1, <2>3, <2>4, HoldsTail DEF RequestSound, GoingUp
  <2>6. s = call[own].socket /\ call[own].phase = "cancelled"
    BY <2>1, <2>3, <2>5 DEF RequestSound, GoingUp
  <2>7. Ordered(Tail(queue), own) /\ ~Holds(Tail(queue), "request", own)
        /\ (Holds(Tail(queue), "cancel", own) => Holds(queue, "cancel", own))
        /\ (HoldsFinal(Tail(queue), own) => HoldsFinal(queue, own))
    BY <2>1, <2>4, <2>5, HoldsTail
  <2>8. \A x \in Sockets : /\ Ordered(up'[x], own) /\ ~Holds(up'[x], "request", own)
                           /\ Holds(up'[x], "cancel", own) => Holds(up[x], "cancel", own)
                           /\ HoldsFinal(up'[x], own) => HoldsFinal(up[x], own)
    BY <2>1, <2>2, <2>3, <2>6, <2>7 DEF RequestSound, GoingUp
  <2>9. ASSUME NEW x \in Sockets
        PROVE  /\ Ordered(down'[x], own)
               /\ Holds(down'[x], "request", own) => Holds(down[x], "request", own)
               /\ Holds(down[x], "cancel", own) => Holds(down'[x], "cancel", own)
               /\ (remote[x] = "open" /\ client[x] # "closed" /\ Holds(letters[x], "cancel", own))
                     => Holds(down'[x], "cancel", own)
    <3>1. PICK old \in Seq(Frames) : old = down[x] /\ Ordered(old, own)
      BY <2>3 DEF CallInv, WsInv, LinkTypeOK, RequestSound, GoingDown
    <3>2. PICK new \in Seq(Frames) : new = letters[x]
      BY <1>6 DEF Letters
    <3>3. down'[x] = IF remote[x] = "open" /\ client[x] # "closed" THEN old \o new ELSE old
      BY <1>6, <1>7, <3>1, <3>2, Written DEF Deliver, CallInv, WsInv
    <3>4. ~Holds(new, "request", own)
      BY <1>11, <3>2
    <3> QED BY <3>1, <3>2, <3>3, <3>4, HoldsConcat
  <2>10. ASSUME NEW q \in Sockets, p = q, remote'[q] = "open", client[q] # "closed"
         PROVE  Holds(down'[q], "cancel", own)
    <3>1. NoEntry.provider = NoSocket /\ NoSocket \notin Sockets
      BY WsLinkAssumption DEF NoEntry
    <3>2. pending[k][own] # NoEntry
      BY <1>4, <2>10, <3>1
    <3>3. Holds(letters[q], "cancel", own)
      BY <1>11, <2>10, <3>2
    <3> QED BY <1>7, <2>9, <2>10, <3>3
  <2>11. pending'[k][own] = NoEntry /\ \A h \in Relays \ {k} : pending'[h][own] = pending[h][own]
    BY <1>8
  <2> QED BY <1>3, <1>4, <1>7, <2>6, <2>8, <2>9, <2>10, <2>11, EntryCleared
<1> QED BY <1>9, <1>12, <1>13

\* A request is passed on to a socket that is open, or answered at once.
LEMMA RequestRouted ==
    ASSUME WsInv, NEW s \in Sockets, OnRequest(s), NEW k \in Relays, k = RelayOf(s),
           NEW f \in Frames, f = Head(up[s]), NEW own \in Requests, own = f.request
    PROVE  \/ Deliver(To(s, OfflineAnswer(own))) /\ UNCHANGED pending
           \/ \E t \in Sockets : /\ remote[t] = "open" /\ RelayOf(t) = k
                                 /\ Deliver(To(t, f))
                                 /\ pending' = [pending EXCEPT ![k][own] =
                                                   [caller |-> s, provider |-> t]]
<1>1. f.type = "request"
  BY DEF OnRequest, Reads
<1>2. PICK picks \in BOOLEAN : picks = (f.destination = NoNode /\ Open(k, f.service) # {})
  OBVIOUS
<1>3. PICK target : target = IF f.destination # NoNode THEN nodes[k][f.destination]
                             ELSE IF picks THEN nodes[k][Picked(k, f.service)]
                             ELSE NoSocket
  OBVIOUS
<1>4. IF IsOpen(target)
      THEN /\ pending' = [pending EXCEPT ![k][own] = [caller |-> s, provider |-> target]]
           /\ Deliver(To(target, f))
      ELSE Deliver(To(s, OfflineAnswer(own))) /\ UNCHANGED pending
  BY <1>2, <1>3 DEF OnRequest
<1>5. target = NoSocket \/ (target \in Sockets /\ RelayOf(target) = k)
  <2>1. f.service \in Services /\ f.destination \in Nodes \cup {NoNode}
    BY <1>1, FrameParts
  <2>2. picks => Picked(k, f.service) \in Nodes
    BY <1>2, <2>1, PickedSound DEF WsInv, RelayInv
  <2>3. target = NoSocket \/ \E n \in Nodes : target = nodes[k][n]
    BY <1>3, <2>1, <2>2
  <2> QED BY <2>3 DEF WsInv, RelayInv, Registered, LiveAt
<1> QED BY <1>4, <1>5 DEF IsOpen

LEMMA OnRequestKeepsCalls ==
    ASSUME CallInv, NEW s \in Sockets, OnRequest(s), UNCHANGED nodeVars
    PROVE  DeadEnds' /\ \A r \in Requests : RequestSound(r)'
<1>1. PICK f \in Frames : f = Head(up[s]) /\ f.type = "request"
  BY ReadType DEF OnRequest, CallInv, WsInv
<1>2. PICK own \in Requests : own = f.request
  BY <1>1, FrameParts
<1>3. PICK k \in Relays : k = RelayOf(s)
  BY SocketParts
<1>4. Reads(s, "request") /\ UNCHANGED <<client, remote>>
  BY DEF OnRequest
<1>5. \/ Deliver(To(s, OfflineAnswer(own))) /\ UNCHANGED pending
      \/ \E t \in Sockets : /\ remote[t] = "open" /\ RelayOf(t) = k
                            /\ Deliver(To(t, f))
                            /\ pending' = [pending EXCEPT ![k][own] = [caller |-> s, provider |-> t]]
  BY <1>1, <1>2, <1>3, RequestRouted DEF CallInv
<1>6. ASSUME NEW letters \in Letters, Deliver(letters) PROVE DeadEnds'
  BY <1>4, <1>6, WriteKeepsDeadEnds DEF Deliver
<1>7. CASE Deliver(To(s, OfflineAnswer(own))) /\ UNCHANGED pending
  <2>1. PICK g \in Frames : g = OfflineAnswer(own) /\ g.type = "response"
    <3>1. OfflineAnswer(own) \in Frames
      BY FrameTypes DEF OfflineAnswer, Ends
    <3> QED BY <3>1 DEF OfflineAnswer, Response
  <2>2. PICK letters \in Letters : letters = To(s, g)
    BY LettersAreSent
  <2>3. DeadEnds'
    BY <1>6, <1>7, <2>1, <2>2
  <2>4. ASSUME NEW r \in Requests PROVE RequestSound(r)'
    <3>1. ~IsOf(g, "request", r) /\ ~IsOf(g, "cancel", r) /\ ~IsOf(f, "cancel", r)
      BY <1>1, <2>1 DEF IsOf
    <3>2. UpFades(r)
      BY <1>1, <1>4, <3>1, ReadFades
    <3>3. \A x \in Sockets : ~Holds(letters[x], "request", r) /\ ~Holds(letters[x], "cancel", r)
      BY <2>2, <3>1, LettersHold
    <3>4. DownFades(r)
      BY <1>7, <2>1, <2>2, <3>3, WriteIsForeign DEF Deliver
    <3>5. PendingFades(r)
      BY <1>7 DEF PendingFades
    <3> QED BY <1>4, <2>3, <3>2, <3>4, <3>5, RelayFades
  <2> QED BY <2>3, <2>4
<1>8. ASSUME NEW t \in Sockets, remote[t] = "open", RelayOf(t) = k, Deliver(To(t, f)),
             pending' = [pending EXCEPT ![k][own] = [caller |-> s, provider |-> t]]
      PROVE  DeadEnds' /\ \A r \in Requests : RequestSound(r)'
  <2>1. PICK letters \in Letters : letters = To(t, f)
    BY LettersAreSent
  <2>2. DeadEnds'
    BY <1>6, <1>8, <2>1
  <2>3. \A h \in Relays, r \in Requests :
           pending'[h][r] = IF h = k /\ r = own THEN [caller |-> s, provider |-> t]
                            ELSE pending[h][r]
    BY <1>8 DEF CallInv, WsInv, RelayInv, RelayTypes
  <2>4. ASSUME NEW r \in Requests, NEW x \in Sockets
        PROVE  /\ ~Holds(letters[x], "cancel", r)
               /\ Holds(letters[x], "request", r) <=> r = own /\ x = t
    <3>1. ~IsOf(f, "cancel", r) /\ (IsOf(f, "request", r) <=> r = own)
      BY <1>1, <1>2 DEF IsOf
    <3> QED BY <2>1, <3>1, LettersHold
  <2>5. ASSUME NEW r \in Requests, r # own PROVE RequestSound(r)'
    <3>1. UpFades(r)
      BY <1>1, <1>2, <1>4, <2>5, ReadFades DEF IsOf
    <3>2. DownFades(r)
      BY <1>8, <2>1, <2>4, <2>5, WriteIsForeign DEF Deliver
    <3>3. PendingFades(r)
      BY <2>3, <2>5 DEF PendingFades
    <3> QED BY <1>4, <2>2, <3>1, <3>2, <3>3, RelayFades
  <2>6. RequestSound(own)'
    <3>1. PICK queue \in Seq(Frames) : queue = up[s] /\ queue # <<>> /\ Head(queue) = f
      BY <1>1, <1>4 DEF Reads, CallInv, WsInv, LinkTypeOK
    <3>2. up'[s] = Tail(queue) /\ \A x \in Sockets \ {s} : up'[x] = up[x]
      BY <1>4, <3>1, ReadType DEF CallInv, WsInv
    <3>3. RequestSound(own) /\ UNCHANGED <<call, serving, inflight, client, remote>>
      BY <1>4 DEF CallInv, nodeVars
    <3>4. IsOf(f, "request", own)
      BY <1>1, <1>2 DEF IsOf
    <3>5. Ordered(queue, own) /\ Holds(queue, "request", own)
      BY <3>1, <3>3, <3>4, HoldsTail DEF RequestSound, GoingUp
    <3>6. s = call[own].socket /\ Quiet(own) /\ NoFinal(own) /\ serving[own].by = NoNode
          /\ call[own].phase # "idle"
      BY <3>1, <3>3, <3>5 DEF RequestSound, GoingUp, Unstarted
    <3>7. /\ Ordered(Tail(queue), own) /\ ~Holds(Tail(queue), "request", own)
          /\ Holds(Tail(queue), "cancel", own) <=> Holds(queue, "cancel", own)
          /\ ~HoldsFinal(Tail(queue), own)
      <4>1. ~HoldsFinal(queue, own)
        BY <3>1, <3>6 DEF NoFinal
      <4>2. ~IsOf(f, "cancel", own)
        BY <1>1 DEF IsOf
      <4> QED BY <3>1, <3>4, <3>5, <4>1, <4>2, HoldsTail
    <3>8. NoFinal(own)'
      BY <3>2, <3>6, <3>7 DEF NoFinal
    <3>9. \A x \in Sockets : /\ Ordered(up'[x], own) /\ ~Holds(up'[x], "request", own)
                             /\ Holds(up'[x], "cancel", own) <=> Holds(up[x], "cancel", own)
      BY <3>1, <3>2, <3>3, <3>6, <3>7 DEF RequestSound, GoingUp
    <3>10. ASSUME NEW x \in Sockets
           PROVE  Ordered(down'[x], own) /\ (Holds(down'[x], "request", own) => x = t)
      <4>1. PICK old \in Seq(Frames) : old = down[x] /\ Ordered(old, own)
        BY <3>3 DEF CallInv, WsInv, LinkTypeOK, RequestSound, GoingDown
      <4>2. ~Holds(old, "request", own) /\ ~Holds(old, "cancel", own)
        BY <3>6, <4>1 DEF Quiet
      <4>3. CASE x # t
        <5>1. PICK new \in Seq(Frames) : new = letters[x]
          BY DEF Letters
        <5>2. ~Holds(new, "request", own)
          BY <2>4, <4>3, <5>1
        <5>3. down'[x] = old \/ down'[x] = old \o new
          BY <1>8, <2>1, <4>1, <5>1, Written DEF Deliver, CallInv, WsInv
        <5>4. Ordered(old \o new, own) /\ ~Holds(old \o new, "request", own)
          BY <4>1, <4>2, <5>2, HoldsConcat
        <5> QED BY <4>1, <4>2, <5>3, <5>4
      <4>4. CASE x = t
        <5>1. letters[x] = <<f>> /\ old \o <<f>> = Append(old, f)
          BY <2>1, <4>4, ConcatFrames DEF To
        <5>2. down'[x] = old \/ down'[x] = Append(old, f)
          BY <1>8, <2>1, <4>1, <5>1, Written DEF Deliver, CallInv, WsInv
        <5> QED BY <4>1, <4>2, <4>4, <5>2, HoldsAppend
      <4> QED BY <4>3, <4>4
    <3>11. Bound(own, t)'
      BY <1>8, <2>3, <3>3, <3>6 DEF Bound
    <3>12. Unstarted(own)' /\ Called(own)'
      BY <3>3, <3>6 DEF RequestSound, Unstarted, Called
    <3>13. GoingUp(own)'
      BY <3>3, <3>9 DEF RequestSound, GoingUp
    <3>14. Served(own)'
      BY <3>3, <3>6 DEF Served
    <3>15. GivenUp(own)'
      <4>1. RelayOf(s) \in Relays
        BY SocketParts
      <4> QED BY <3>1, <3>3, <3>5, <3>6, <3>9 DEF RequestSound, GivenUp
    <3>16. KeptForCaller(own)'
      BY <2>3, <3>3, <3>6 DEF RequestSound, KeptForCaller
    <3>17. GoingDown(own)'
      BY <3>3, <3>6, <3>8, <3>10, <3>11 DEF GoingDown
    <3> QED BY <3>12, <3>13, <3>14, <3>15, <3>16, <3>17 DEF RequestSound
  <2> QED BY <2>2, <2>5, <2>6
<1> QED BY <1>5, <1>7, <1>8

\* What the close of a socket writes about requests is its farewell.
LEMMA CloseWrites ==
    ASSUME CallInv, NEW s \in Sockets, NEW k \in Relays, k = RelayOf(s), Close(s)
    PROVE  \E letters \in Letters :
              /\ Write([remote EXCEPT ![s] = "closed"], letters)
              /\ \A r \in Requests, x \in Sockets :
                    /\ ~Holds(letters[x], "request", r)
                    /\ Holds(letters[x], "cancel", r)
                          <=> r \in Involved(k, s) /\ pending[k][r].provider = x /\ x # s
                    /\ HoldsFinal(letters[x], r)
                          <=> r \in Involved(k, s) /\ pending[k][r].caller = x /\ x # s
<1>1. PICK n \in Nodes \cup {NoNode} : n = me[s].node
  BY DEF CallInv, WsInv, RelayInv, RelayTypes, Metadata
<1>2. PICK registered : registered = [nodes EXCEPT ![k][n] = NoSocket]
  OBVIOUS
<1>3. PICK after : after = [remote EXCEPT ![s] = "closed"]
  OBVIOUS
<1>4. PICK first \in Letters : first = Farewell(k, s)
  BY FarewellType
<1>5. \A r \in Requests, x \in Sockets :
         /\ ~Holds(first[x], "request", r)
         /\ Holds(first[x], "cancel", r)
               <=> r \in Involved(k, s) /\ pending[k][r].provider = x /\ x # s
         /\ HoldsFinal(first[x], r)
               <=> r \in Involved(k, s) /\ pending[k][r].caller = x /\ x # s
  BY <1>4, FarewellTells
<1>6. CASE n = NoNode
  <2>1. Write(after, first)
    BY <1>1, <1>3, <1>4, <1>6 DEF Close
  <2> QED BY <1>3, <1>5, <2>1
<1>7. CASE n # NoNode
  <2>1. Write(after, Also(Farewell(k, s), Also(Broadcast(Offline(n), s), Sync(k, registered, me))))
    BY <1>1, <1>2, <1>3, <1>7 DEF Close
  <2>2. PICK off \in Frames : off = Offline(n) /\ off.type = "offline"
    BY <1>7, FrameTypes DEF Offline
  <2>3. registered \in Registry /\ me \in Metadata
    BY <1>2, <1>7 DEF CallInv, WsInv, RelayInv, RelayTypes, Registry
  <2>4. PICK second \in Letters : second = Broadcast(off, s)
    BY LettersAreSent
  <2>5. PICK third \in Letters : third = Sync(k, registered, me)
    BY <2>3, SyncType
  <2>6. PICK rest \in Letters : rest = Also(second, third)
    BY LettersAreSent
  <2>7. PICK letters \in Letters : letters = Also(first, rest)
    BY LettersAreSent
  <2>8. ASSUME NEW r \in Requests, NEW x \in Sockets
        PROVE  /\ Holds(letters[x], "request", r) <=> Holds(first[x], "request", r)
               /\ Holds(letters[x], "cancel", r) <=> Holds(first[x], "cancel", r)
               /\ HoldsFinal(letters[x], r) <=> HoldsFinal(first[x], r)
    <3>1. ForeignAll(second[x], r)
      <4>1. Foreign(off, r)
        BY <2>2 DEF Foreign, IsOf, IsFinal
      <4> QED BY <2>4, <4>1, LettersForeign
    <3>2. ForeignAll(third[x], r)
      BY <2>3, <2>5, SyncForeign
    <3>3. ForeignAll(rest[x], r)
      BY <2>6, <3>1, <3>2, LettersForeign
    <3>4. PICK one \in Seq(Frames), two \in Seq(Frames) : one = first[x] /\ two = rest[x]
      BY DEF Letters
    <3>5. letters[x] = one \o two
      BY <2>7, <3>4 DEF Also
    <3>6. /\ Holds(one \o two, "request", r) <=> Holds(one, "request", r)
          /\ Holds(one \o two, "cancel", r) <=> Holds(one, "cancel", r)
          /\ HoldsFinal(one \o two, r) <=> HoldsFinal(one, r)
      BY <3>3, <3>4, HoldsConcat DEF ForeignAll
    <3> QED BY <3>4, <3>5, <3>6
  <2>9. Write(after, letters)
    BY <1>4, <2>1, <2>2, <2>4, <2>5, <2>6, <2>7
  <2> QED BY <1>3, <1>5, <2>8, <2>9
<1> QED BY <1>6, <1>7

LEMMA CloseKeepsCalls ==
    ASSUME CallInv, NEW s \in Sockets, Close(s), UNCHANGED nodeVars
    PROVE  DeadEnds' /\ \A r \in Requests : RequestSound(r)'
<1>1. PICK k \in Relays : k = RelayOf(s)
  BY SocketParts
<1>2. PICK after : after = [remote EXCEPT ![s] = "closed"]
  OBVIOUS
<1>3. PICK letters \in Letters :
              /\ Write(after, letters)
              /\ \A r \in Requests, x \in Sockets :
                    /\ ~Holds(letters[x], "request", r)
                    /\ Holds(letters[x], "cancel", r)
                          <=> r \in Involved(k, s) /\ pending[k][r].provider = x /\ x # s
  <2>1. PICK letters \in Letters :
              /\ Write([remote EXCEPT ![s] = "closed"], letters)
              /\ \A r \in Requests, x \in Sockets :
                    /\ ~Holds(letters[x], "request", r)
                    /\ Holds(letters[x], "cancel", r)
                          <=> r \in Involved(k, s) /\ pending[k][r].provider = x /\ x # s
    BY <1>1, CloseWrites
  <2>2. Write(after, letters)
    BY <1>2, <2>1
  <2> QED BY <2>1, <2>2
<1>4. /\ remote[s] = "open" /\ remote'[s] = "closed" /\ remote' = after /\ UNCHANGED client
      /\ \A x \in Sockets \ {s} : remote'[x] = remote[x]
      /\ after[s] = "closed" /\ \A x \in Sockets \ {s} : after[x] = remote[x]
      /\ up'[s] = <<>> /\ \A x \in Sockets \ {s} : up'[x] = up[x]
  BY <1>2 DEF Close, CallInv, WsInv, LinkTypeOK
<1>5. /\ \A h \in Relays \ {k}, r \in Requests : pending'[h][r] = pending[h][r]
      /\ \A r \in Requests : \/ r \in Involved(k, s) /\ pending'[k][r] = NoEntry
                             \/ r \notin Involved(k, s) /\ pending'[k][r] = pending[k][r]
  BY <1>1, CloseEffect DEF CallInv, WsInv
<1>6. DeadEnds'
  <2>1. \A x \in Sockets : after[x] = "open" => remote[x] = "open"
    BY <1>4
  <2>2. \A x \in Sockets : remote'[x] = "unused" => remote[x] = "unused"
    BY <1>4
  <2> QED BY <1>3, <1>4, <2>1, <2>2, WriteKeepsDeadEnds
<1>7. ASSUME NEW r \in Requests PROVE UpFades(r)
  BY <1>4, UpChanges
<1>8. ASSUME NEW r \in Requests, r \notin Involved(k, s) PROVE RequestSound(r)'
  <2>1. DownFades(r)
    BY <1>3, <1>8, WriteIsForeign
  <2>2. PendingFades(r)
    BY <1>5, <1>8 DEF PendingFades
  <2> QED BY <1>4, <1>6, <1>7, <2>1, <2>2, RelayFades
<1>9. ASSUME NEW r \in Requests, r \in Involved(k, s) PROVE RequestSound(r)'
  <2>1. RequestSound(r)
    BY DEF CallInv
  <2>2. pending[k][r] # NoEntry /\ LiveAt(pending[k][r].caller, k)
    <3>1. NoEntry.caller = NoSocket /\ NoEntry.provider = NoSocket /\ NoSocket \notin Sockets
      BY WsLinkAssumption DEF NoEntry
    <3>2. pending[k][r] # NoEntry
      BY <1>9, <3>1 DEF Involved
    <3> QED BY <3>2 DEF CallInv, WsInv, RelayInv, PendingSound
  <2>3. RelayOf(call[r].socket) = k
    BY <2>1, <2>2 DEF RequestSound, KeptForCaller, LiveAt
  <2>4. call[r].phase # "idle" /\ \A x \in Sockets : ~Holds(up[x], "request", r)
    BY <2>1, <2>2 DEF RequestSound, Unstarted, GoingUp, Quiet
  <2>5. \A x \in Sockets : /\ Ordered(up'[x], r) /\ ~Holds(up'[x], "request", r)
                           /\ Holds(up'[x], "cancel", r) => Holds(up[x], "cancel", r)
                           /\ HoldsFinal(up'[x], r) => HoldsFinal(up[x], r)
    BY <1>7, <2>4 DEF UpFades
  <2>6. ASSUME NEW x \in Sockets
        PROVE  /\ Ordered(down'[x], r)
               /\ Holds(down'[x], "request", r) => Holds(down[x], "request", r)
               /\ Holds(down[x], "cancel", r) => Holds(down'[x], "cancel", r)
               /\ (after[x] = "open" /\ client[x] # "closed" /\ Holds(letters[x], "cancel", r))
                     => Holds(down'[x], "cancel", r)
    <3>1. PICK old \in Seq(Frames) : old = down[x] /\ Ordered(old, r)
      BY <2>1 DEF CallInv, WsInv, LinkTypeOK, RequestSound, GoingDown
    <3>2. PICK new \in Seq(Frames) : new = letters[x]
      BY DEF Letters
    <3>3. down'[x] = IF after[x] = "open" /\ client[x] # "closed" THEN old \o new ELSE old
      BY <1>3, <3>1, <3>2, Written DEF CallInv, WsInv
    <3>4. ~Holds(new, "request", r)
      BY <1>3, <3>2
    <3> QED BY <3>1, <3>2, <3>3, <3>4, HoldsConcat
  <2>7. ASSUME NEW q \in Sockets, pending[k][r].provider = q, remote'[q] = "open",
               client[q] # "closed"
        PROVE  Holds(down'[q], "cancel", r)
    <3>1. q # s /\ after[q] = "open"
      BY <1>4, <2>7
    <3>2. Holds(letters[q], "cancel", r)
      BY <1>3, <1>9, <2>7, <3>1
    <3> QED BY <2>6, <2>7, <3>1, <3>2
  <2>8. pending'[k][r] = NoEntry /\ \A h \in Relays \ {k} : pending'[h][r] = pending[h][r]
    BY <1>5, <1>9
  <2>9. \A x \in Sockets : remote'[x] = "open" => remote[x] = "open"
    BY <1>4
  <2> QED BY <1>4, <2>3, <2>4, <2>5, <2>6, <2>7, <2>8, <2>9, EntryCleared
<1> QED BY <1>6, <1>8, <1>9

LEMMA RelayKeepsCalls ==
    ASSUME CallInv, RelayStep, UNCHANGED nodeVars
    PROVE  DeadEnds' /\ \A r \in Requests : RequestSound(r)'
<1>1. ASSUME NEW s \in Sockets, OnSubscribe(s) \/ OnUnsubscribe(s)
      PROVE  DeadEnds' /\ \A r \in Requests : RequestSound(r)'
  <2>1. UNCHANGED <<client, remote, down, pending>>
    BY <1>1 DEF OnSubscribe, OnUnsubscribe
  <2>2. Reads(s, "subscribe") \/ Reads(s, "unsubscribe")
    BY <1>1 DEF OnSubscribe, OnUnsubscribe
  <2> QED BY <2>1, <2>2, SilentReadKeepsCalls
<1> QED BY <1>1, AcceptKeepsCalls, CloseKeepsCalls, CrashKeepsCalls, OnHelloKeepsCalls,
           OnResponseKeepsCalls, OnRequestKeepsCalls, OnCancelKeepsCalls, OnPublishKeepsCalls
        DEF RelayStep, OnMessage

-----------------------------------------------------------------------------
(* Steps of a node.                                                        *)

LEMMA NodeKeepsDeadEnds ==
    ASSUME CallInv, UNCHANGED remote,
           \A x \in Sockets : client'[x] = "closed" => client[x] = "closed" \/ down'[x] = <<>>,
           \A x \in Sockets : down[x] = <<>> => down'[x] = <<>>
    PROVE  DeadEnds'
  BY DEF CallInv, DeadEnds

LEMMA NodeFades ==
    ASSUME CallInv, DeadEnds', UNCHANGED <<remote, relayVars>>, NEW r \in Requests,
           UpFades(r), DownFades(r), ServingFades(r), CallFades(r),
           \A x \in Sockets : /\ client[x] = "closed" => client'[x] = "closed"
                              /\ client[x] = "open" => client'[x] \in {"open", "closed"}
    PROVE  RequestSound(r)'
<1>1. LinksFade
  BY DEF LinksFade
<1>2. PendingFades(r)
  BY DEF PendingFades, relayVars
<1> QED BY <1>1, <1>2, RequestFades

\* Nothing of the calls changes.
LEMMA CallsStay ==
    ASSUME CallInv, DeadEnds', UNCHANGED <<remote, relayVars, inflight, call, serving>>,
           \A r \in Requests : UpFades(r) /\ DownFades(r),
           \A x \in Sockets : /\ client[x] = "closed" => client'[x] = "closed"
                              /\ client[x] = "open" => client'[x] \in {"open", "closed"}
    PROVE  \A r \in Requests : RequestSound(r)'
<1>1. ASSUME NEW r \in Requests PROVE RequestSound(r)'
  <2>1. ServingFades(r) /\ CallFades(r)
    BY DEF ServingFades, CallFades
  <2> QED BY <2>1, NodeFades
<1> QED BY <1>1

LEMMA SendAllIsForeign ==
    ASSUME CallInv, NEW n \in Nodes, NEW frames \in Seq(Frames), SendAll(n, frames),
           NEW r \in Requests, ForeignAll(frames, r)
    PROVE  UpFades(r)
<1>1. \A x \in Sockets : up'[x] = up[x] \/ up'[x] = up[x] \o frames
  BY SendAllType DEF CallInv, WsInv
<1> QED BY <1>1, UpChanges

LEMMA SendOnIsForeign ==
    ASSUME CallInv, NEW s \in Sockets, NEW f \in Frames, SendOn(s, f),
           NEW r \in Requests, Foreign(f, r)
    PROVE  UpFades(r)
<1>1. \A x \in Sockets : up'[x] = up[x] \/ up'[x] = Append(up[x], f)
  BY SendOnType DEF CallInv, WsInv
<1> QED BY <1>1, UpChanges

LEMMA AnnouncementIsForeign ==
    ASSUME NodeInv, NEW n \in Nodes, NEW services \in SUBSET Services, NEW r
    PROVE  ForeignAll(Announcement(n, services), r)
<1>1. PICK f \in Frames, g \in Frames :
              /\ f = Hello(n, f.services) /\ f.type = "hello"
              /\ g = Subscribe(Listened(n)) /\ g.type = "subscribe"
              /\ \A t : Tells(g, t) /\ (Says(g, t) <=> t \in Listened(n))
              /\ \A queue \in Seq(Frames) :
                    queue \o Announcement(n, services) =
                       IF Topics = {} THEN Append(queue, f) ELSE Append(Append(queue, f), g)
  BY AnnouncementSays
<1>2. PICK letter \in Seq(Frames) : letter = Announcement(n, services)
  <2>1. Announcement(n, services) \in Seq(Frames)
    BY AnnouncementType
  <2> QED BY <2>1
<1>3. PICK none \in Seq(Frames) : none = <<>>
  <2>1. <<>> \in Seq(Frames)
    OBVIOUS
  <2> QED BY <2>1
<1>4. none \o letter = letter
  BY <1>3, ConcatEmptySeq
<1>5. PICK one \in Seq(Frames) : one = Append(none, f)
  BY AppendProperties
<1>6. letter = one \/ letter = Append(one, g)
  BY <1>1, <1>2, <1>3, <1>4, <1>5
<1>7. Foreign(f, r) /\ Foreign(g, r)
  BY <1>1 DEF Foreign, IsOf, IsFinal
<1>8. ForeignAll(none, r)
  BY <1>3, HoldsEmpty DEF ForeignAll
<1>9. ForeignAll(one, r)
  BY <1>5, <1>7, <1>8, HoldsAppend DEF Foreign, ForeignAll
<1>10. ForeignAll(Append(one, g), r)
  BY <1>7, <1>9, HoldsAppend DEF Foreign, ForeignAll
<1> QED BY <1>2, <1>6, <1>9, <1>10

LEMMA OneIsForeign ==
    ASSUME NEW f \in Frames, f.type \notin {"request", "cancel", "response"}, NEW r
    PROVE  ForeignAll(<<f>>, r)
  BY OneFrameHolds DEF ForeignAll, IsOf, IsFinal

\* A node that reads.
LEMMA ReceivesFades ==
    ASSUME CallInv, NEW n \in Nodes, NEW k \in Relays, NEW type, Receives(n, k, type),
           UNCHANGED <<client, remote>>
    PROVE  /\ DeadEnds'
           /\ \A r \in Requests : ~IsOf(Packet(n, k), "cancel", r) => DownFades(r)
<1>1. PICK s \in Sockets : s = conn[n][k].socket
  BY ReceivesType DEF CallInv, WsInv
<1>2. /\ down[s] # <<>> /\ Packet(n, k) = Head(down[s])
      /\ down' = [down EXCEPT ![s] = Tail(down[s])]
  BY <1>1, ReceivesType DEF CallInv, WsInv
<1>3. down'[s] = Tail(down[s]) /\ \A x \in Sockets \ {s} : down'[x] = down[x]
  BY <1>2 DEF CallInv, WsInv, LinkTypeOK
<1>4. DeadEnds'
  BY <1>2, <1>3, NodeKeepsDeadEnds
<1>5. ASSUME NEW r \in Requests, ~IsOf(Packet(n, k), "cancel", r) PROVE DownFades(r)
  BY <1>2, <1>3, <1>5, DownChanges
<1> QED BY <1>4, <1>5

LEMMA DialKeepsCalls ==
    ASSUME CallInv, NEW n \in Nodes, NEW k \in Relays, Dial(n, k), UNCHANGED relayVars
    PROVE  DeadEnds' /\ \A r \in Requests : RequestSound(r)'
<1>1. PICK j : j = Min(Fresh(n, k))
  OBVIOUS
<1>2. PICK s : s = <<n, k, j>>
  OBVIOUS
<1>3. /\ client' = [client EXCEPT ![s] = "connecting"] /\ Fresh(n, k) # {}
      /\ UNCHANGED <<remote, up, down, inflight, call, serving>>
  BY <1>1, <1>2 DEF Dial, CreateSocket
<1>4. j \in Fresh(n, k)
  <2>1. PICK F : F = Fresh(n, k)
    OBVIOUS
  <2>2. PICK m \in Nat : m = MaxSockets[n]
    BY WsLinkAssumption
  <2>3. F \in SUBSET (1..m) /\ \A i \in 1..m : i \in Nat
    BY <2>1, <2>2 DEF Fresh
  <2>4. IsFiniteSet(1..m)
    BY FS_Interval
  <2>5. IsFiniteSet(F) /\ F \in SUBSET Nat
    BY <2>3, <2>4, FS_Subset
  <2> QED BY <1>1, <1>3, <2>1, <2>5, LeastExists
<1>5. client[s] = "unused"
  BY <1>2, <1>4 DEF Fresh
<1>6. \A x \in Sockets : (x = s /\ client'[x] = "connecting") \/ (x # s /\ client'[x] = client[x])
  BY <1>3 DEF CallInv, WsInv, LinkTypeOK
<1>7. DeadEnds'
  BY <1>3, <1>6, NodeKeepsDeadEnds
<1>8. \A r \in Requests : UpFades(r) /\ DownFades(r)
  BY <1>3, UpChanges, DownChanges
<1> QED BY <1>3, <1>5, <1>6, <1>7, <1>8, CallsStay

LEMMA OpenedKeepsCalls ==
    ASSUME CallInv, NEW n \in Nodes, NEW k \in Relays, Opened(n, k), UNCHANGED relayVars
    PROVE  DeadEnds' /\ \A r \in Requests : RequestSound(r)'
<1>1. PICK s : s = conn[n][k].socket
  OBVIOUS
<1>2. PICK services \in SUBSET Services : services = local[n].services
  BY DEF CallInv, WsInv, NodeInv, NodeTypes
<1>3. PICK frames \in Seq(Frames) : frames = Announcement(n, services)
  BY AnnouncementType DEF CallInv, WsInv
<1>4. /\ conn[n][k].phase = "connecting"
      /\ client' = [client EXCEPT ![s] = "open"]
      /\ \A x \in Sockets : up'[x] = up[x] \/ up'[x] = up[x] \o frames
      /\ UNCHANGED <<remote, down, inflight, call, serving>>
  BY <1>1, <1>2, <1>3 DEF Opened
<1>5. s \in Sockets /\ client[s] = "connecting"
  BY <1>1, <1>4 DEF CallInv, WsInv, NodeInv, ConnSound, Live
<1>6. client'[s] = "open" /\ \A x \in Sockets \ {s} : client'[x] = client[x]
  BY <1>4, <1>5 DEF CallInv, WsInv, LinkTypeOK
<1>7. DeadEnds'
  BY <1>4, <1>6, NodeKeepsDeadEnds
<1>8. ASSUME NEW r \in Requests PROVE UpFades(r) /\ DownFades(r)
  <2>1. ForeignAll(frames, r)
    BY <1>3, AnnouncementIsForeign DEF CallInv, WsInv
  <2> QED BY <1>4, <2>1, UpChanges, DownChanges
<1> QED BY <1>4, <1>5, <1>6, <1>7, <1>8, CallsStay

\* finalize(): what the node had not read is lost, and what the socket carried ends.
LEMMA FinalizedKeepsCalls ==
    ASSUME CallInv, NEW s \in Sockets, Finalized(s), UNCHANGED <<remote, up, serving, relayVars>>
    PROVE  DeadEnds' /\ \A r \in Requests : RequestSound(r)'
<1>1. /\ client'[s] = "closed" /\ down'[s] = <<>>
      /\ \A x \in Sockets \ {s} : client'[x] = client[x] /\ down'[x] = down[x]
  BY DEF Finalized, Disconnected, CallInv, WsInv, LinkTypeOK
<1>2. DeadEnds'
  BY <1>1, NodeKeepsDeadEnds
<1>3. ASSUME NEW r \in Requests PROVE RequestSound(r)'
  <2>1. UpFades(r)
    BY UpChanges
  <2>2. DownFades(r)
    BY <1>1, DownChanges
  <2>3. ServingFades(r)
    BY DEF ServingFades
  <2>4. PICK c \in CallRecords : c = call[r]
    BY DEF CallInv, WsInv, NodeInv, NodeTypes, CallRecords
  <2>5. /\ inflight'[r] \in {inflight[r], NoSocket}
        /\ \/ call'[r] = c
           \/ call'[r] = [c EXCEPT !.raced = TRUE]
           \/ inflight[r] = s /\ c.phase = "sent" /\ call'[r] = [c EXCEPT !.phase = "disconnected"]
    BY <2>4 DEF Finalized, FailInflight, Carried
  <2>6. s # NoSocket
    BY WsLinkAssumption
  <2>7. inflight[r] = s /\ c.phase = "sent" => c.socket = s
    BY <2>4, <2>6 DEF CallInv, RequestSound, Called
  <2>8. /\ [c EXCEPT !.raced = TRUE].socket = c.socket
        /\ [c EXCEPT !.raced = TRUE].phase = c.phase
        /\ [c EXCEPT !.phase = "disconnected"].socket = c.socket
        /\ [c EXCEPT !.phase = "disconnected"].phase = "disconnected"
    BY <2>4 DEF CallRecords
  <2>9. CallFades(r)
    BY <1>1, <2>4, <2>5, <2>7, <2>8 DEF CallFades
  <2> QED BY <1>1, <1>2, <2>1, <2>2, <2>3, <2>9, NodeFades
<1> QED BY <1>2, <1>3

LEMMA DisconnectingKeepsCalls ==
    ASSUME CallInv, NEW n \in Nodes, NEW k \in Relays, Lost(n, k) \/ CloseUrl(n, k),
           UNCHANGED relayVars
    PROVE  DeadEnds' /\ \A r \in Requests : RequestSound(r)'
<1>1. PICK s : s = conn[n][k].socket
  OBVIOUS
<1>2. /\ UNCHANGED <<remote, up, serving>>
      /\ Finalized(s) \/ UNCHANGED <<client, down, inflight, call>>
      /\ s = NoSocket => UNCHANGED <<client, down, inflight, call>>
  <2>1. CASE Lost(n, k)
    <3>1. conn[n][k].phase \in Live
      BY <2>1 DEF Lost, Live
    <3>2. s # NoSocket
      BY <1>1, <3>1, WsLinkAssumption DEF CallInv, WsInv, NodeInv, ConnSound
    <3> QED BY <1>1, <2>1, <3>2 DEF Lost
  <2>2. CASE CloseUrl(n, k)
    BY <1>1, <2>2 DEF CloseUrl
  <2> QED BY <2>1, <2>2
<1>3. CASE UNCHANGED <<client, down, inflight, call>>
  <2>1. DeadEnds'
    BY <1>2, <1>3, NodeKeepsDeadEnds
  <2>2. \A r \in Requests : UpFades(r) /\ DownFades(r)
    BY <1>2, <1>3, UpChanges, DownChanges
  <2> QED BY <1>2, <1>3, <2>1, <2>2, CallsStay
<1>4. CASE s # NoSocket /\ Finalized(s)
  <2>1. s \in Sockets
    BY <1>1, <1>4 DEF CallInv, WsInv, NodeInv, ConnSound
  <2> QED BY <1>2, <1>4, <2>1, FinalizedKeepsCalls
<1> QED BY <1>2, <1>3, <1>4

\* Frames about no request are sent to every relay.
LEMMA SpeakingKeepsCalls ==
    ASSUME CallInv, NEW n \in Nodes, UNCHANGED <<client, remote, down, relayVars>>,
           UNCHANGED <<inflight, call, serving>>,
           NEW frames \in Seq(Frames), SendAll(n, frames) \/ UNCHANGED up,
           \A r \in Requests : ForeignAll(frames, r)
    PROVE  DeadEnds' /\ \A r \in Requests : RequestSound(r)'
<1>1. DeadEnds'
  BY NodeKeepsDeadEnds
<1>2. \A r \in Requests : UpFades(r) /\ DownFades(r)
  BY SendAllIsForeign, UpChanges, DownChanges
<1> QED BY <1>1, <1>2, CallsStay

\* What a node says by itself is about no request.
LEMMA SpeaksUp ==
    ASSUME NodeInv, NEW n \in Nodes,
           \/ \E services \in SUBSET Services : Announce(n, services)
           \/ \E t \in Topics : Listen(n, t) \/ Unlisten(n, t) \/ LingerEnds(n, t)
                                \/ PublishTo(n, t)
    PROVE  /\ \E frames \in Seq(Frames) : /\ SendAll(n, frames) \/ UNCHANGED up
                                          /\ \A r : ForeignAll(frames, r)
           /\ UNCHANGED <<client, remote, down, inflight, call, serving>>
<1>1. ASSUME NEW services \in SUBSET Services, Announce(n, services)
      PROVE  /\ \E frames \in Seq(Frames) : /\ SendAll(n, frames) \/ UNCHANGED up
                                            /\ \A r : ForeignAll(frames, r)
             /\ UNCHANGED <<client, remote, down, inflight, call, serving>>
  <2>1. PICK frames \in Seq(Frames) : frames = Announcement(n, services)
    BY AnnouncementType
  <2>2. \A r : ForeignAll(frames, r)
    BY <2>1, AnnouncementIsForeign
  <2>3. SendAll(n, frames) /\ UNCHANGED <<client, remote, down, inflight, call, serving>>
    BY <1>1, <2>1 DEF Announce
  <2> QED BY <2>2, <2>3
<1>2. ASSUME NEW t \in Topics,
             Listen(n, t) \/ Unlisten(n, t) \/ LingerEnds(n, t) \/ PublishTo(n, t)
      PROVE  /\ \E frames \in Seq(Frames) : /\ SendAll(n, frames) \/ UNCHANGED up
                                            /\ \A r : ForeignAll(frames, r)
             /\ UNCHANGED <<client, remote, down, inflight, call, serving>>
  <2>1. \E f \in Frames : /\ f.type \notin {"request", "cancel", "response"}
                          /\ SendAll(n, <<f>>) \/ UNCHANGED up
    <3>1. CASE Listen(n, t)
      <4>1. Listened(n) \cup {t} \in SUBSET Topics
        BY DEF Listened
      <4>2. PICK f \in Frames : f = Subscribe(Listened(n) \cup {t}) /\ f.type = "subscribe"
        BY <4>1, FrameTypes DEF Subscribe
      <4> QED BY <3>1, <4>2 DEF Listen
    <3>2. CASE Unlisten(n, t)
      <4>1. PICK f \in Frames : f = Publish(t) /\ f.type = "publish"
        BY FrameTypes DEF Publish
      <4> QED BY <3>2, <4>1 DEF Unlisten, linkVars
    <3>3. CASE LingerEnds(n, t)
      <4>1. PICK f \in Frames : f = Unsubscribe(t) /\ f.type = "unsubscribe"
        BY FrameTypes DEF Unsubscribe
      <4> QED BY <3>3, <4>1 DEF LingerEnds
    <3>4. CASE PublishTo(n, t)
      <4>1. PICK f \in Frames : f = Publish(t) /\ f.type = "publish"
        BY FrameTypes DEF Publish
      <4> QED BY <3>4, <4>1 DEF PublishTo
    <3> QED BY <1>2, <3>1, <3>2, <3>3, <3>4
  <2>2. PICK f \in Frames : /\ f.type \notin {"request", "cancel", "response"}
                            /\ SendAll(n, <<f>>) \/ UNCHANGED up
    BY <2>1
  <2>3. PICK frames \in Seq(Frames) : frames = <<f>>
    BY OneFrame
  <2>4. \A r : ForeignAll(frames, r)
    BY <2>2, <2>3, OneIsForeign
  <2>5. UNCHANGED <<client, remote, down, inflight, call, serving>>
    BY <1>2 DEF Listen, Unlisten, LingerEnds, PublishTo, linkVars
  <2> QED BY <2>2, <2>3, <2>4, <2>5
<1> QED BY <1>1, <1>2

LEMMA SpeakingUpKeepsCalls ==
    ASSUME CallInv, NEW n \in Nodes, UNCHANGED relayVars,
           \/ \E services \in SUBSET Services : Announce(n, services)
           \/ \E t \in Topics : Listen(n, t) \/ Unlisten(n, t) \/ LingerEnds(n, t)
                                \/ PublishTo(n, t)
    PROVE  DeadEnds' /\ \A r \in Requests : RequestSound(r)'
<1>1. NodeInv
  BY DEF CallInv, WsInv
<1>2. PICK frames \in Seq(Frames) : /\ SendAll(n, frames) \/ UNCHANGED up
                                    /\ \A r : ForeignAll(frames, r)
  BY <1>1, SpeaksUp
<1>3. UNCHANGED <<client, remote, down, inflight, call, serving>>
  BY <1>1, SpeaksUp
<1> QED BY <1>2, <1>3, SpeakingKeepsCalls

\* Frames that are neither a request nor a cancel arrive.
LEMMA HearingKeepsCalls ==
    ASSUME CallInv, NEW n \in Nodes, NEW k \in Relays, UNCHANGED relayVars,
           \/ HelloArrives(n, k) \/ OfflineArrives(n, k) \/ ResponseArrives(n, k)
           \/ PublishArrives(n, k)
    PROVE  DeadEnds' /\ \A r \in Requests : RequestSound(r)'
<1>1. PICK type : Receives(n, k, type) /\ type \in {"hello", "offline", "response", "publish"}
  BY DEF HelloArrives, OfflineArrives, ResponseArrives, PublishArrives
<1>2. UNCHANGED <<client, remote, up, serving>>
  BY DEF HelloArrives, OfflineArrives, ResponseArrives, PublishArrives, nodeVars
<1>3. Packet(n, k).type = type
  BY <1>1, ReceivesType DEF CallInv, WsInv
<1>4. DeadEnds'
  BY <1>1, <1>2, ReceivesFades
<1>5. ASSUME NEW r \in Requests PROVE RequestSound(r)'
  <2>1. DownFades(r)
    BY <1>1, <1>2, <1>3, ReceivesFades DEF IsOf
  <2>2. UpFades(r) /\ ServingFades(r)
    BY <1>2, UpChanges DEF ServingFades
  <2>3. PICK c \in CallRecords : c = call[r]
    BY DEF CallInv, WsInv, NodeInv, NodeTypes, CallRecords
  <2>4. /\ inflight'[r] \in {inflight[r], NoSocket}
        /\ \/ call'[r] = c
           \/ c.phase = "sent" /\ call'[r] = [c EXCEPT !.phase = "offline"]
           \/ c.phase = "sent" /\ call'[r] = [c EXCEPT !.phase = "answered"]
           \/ \E d : call'[r] = [c EXCEPT !.destination = d]
    <3>1. CASE HelloArrives(n, k) \/ PublishArrives(n, k)
      BY <2>3, <3>1 DEF HelloArrives, PublishArrives, nodeVars
    <3>2. CASE OfflineArrives(n, k)
      <4>1. PICK i : i = Packet(n, k).node
        OBVIOUS
      <4>2. /\ inflight' = inflight
            /\ call' = [q \in Requests |->
                  IF CallerOf[q] = n /\ call[q].phase = "sent" /\ call[q].destination = i
                  THEN [call[q] EXCEPT !.phase = "offline"] ELSE call[q]]
        BY <3>2, <4>1 DEF OfflineArrives
      <4> QED BY <2>3, <4>2
    <3>3. CASE ResponseArrives(n, k)
      <4>1. PICK q : q = Packet(n, k).request
        OBVIOUS
      <4>2. PICK d : d = Packet(n, k).sender
        OBVIOUS
      <4>3. /\ inflight' = inflight \/ inflight' = [inflight EXCEPT ![q] = NoSocket]
            /\ \/ call' = call
               \/ call[q].phase = "sent" /\ call' = [call EXCEPT ![q].phase = "answered"]
               \/ call' = [call EXCEPT ![q].destination = d]
        BY <3>3, <4>1, <4>2 DEF ResponseArrives
      <4>4. inflight'[r] \in {inflight[r], NoSocket}
        BY <4>3 DEF CallInv, WsInv, NodeInv, NodeTypes
      <4>5. call \in [Requests -> CallRecords]
        BY DEF CallInv, WsInv, NodeInv, NodeTypes, CallRecords
      <4>6. \/ call'[r] = c
            \/ c.phase = "sent" /\ call'[r] = [c EXCEPT !.phase = "answered"]
            \/ call'[r] = [c EXCEPT !.destination = d]
        BY <2>3, <4>3, <4>5
      <4> QED BY <4>4, <4>6
    <3> QED BY <3>1, <3>2, <3>3
  <2>5. /\ \A p : [c EXCEPT !.phase = p].socket = c.socket /\ [c EXCEPT !.phase = p].phase = p
        /\ \A d : /\ [c EXCEPT !.destination = d].socket = c.socket
                  /\ [c EXCEPT !.destination = d].phase = c.phase
    BY <2>3 DEF CallRecords
  <2>6. call'[r].socket = c.socket /\ (\/ call'[r].phase = c.phase
                                       \/ c.phase = "sent" /\ call'[r].phase \in {"answered", "offline"})
    BY <2>4, <2>5
  <2>7. CallFades(r)
    BY <2>3, <2>4, <2>6 DEF CallFades
  <2> QED BY <1>2, <1>4, <2>1, <2>2, <2>7, NodeFades
<1> QED BY <1>4, <1>5

LEMMA RequestArrivesKeepsCalls ==
    ASSUME CallInv, NEW n \in Nodes, NEW k \in Relays, UNCHANGED relayVars, RequestArrives(n, k)
    PROVE  DeadEnds' /\ \A r \in Requests : RequestSound(r)'
<1>1. Receives(n, k, "request") /\ UNCHANGED <<client, remote, up, inflight, call>>
  BY DEF RequestArrives
<1>2. PICK f \in Frames : f = Packet(n, k) /\ f.type = "request" /\ f.request \in Requests
  BY <1>1, ReceivesType, FrameParts DEF CallInv, WsInv
<1>3. PICK s \in Sockets : s = conn[n][k].socket /\ Owner(s) = n /\ client[s] = "open"
  BY <1>1, ReceivesType DEF CallInv, WsInv
<1>4. DeadEnds'
  BY <1>1, ReceivesFades
<1>5. PICK e : e = [by |-> n, via |-> s, made |-> 0, mute |-> FALSE]
  OBVIOUS
<1>6. serving' = [serving EXCEPT ![f.request] = e] /\ e.by = n /\ e.via = s
  BY <1>2, <1>3, <1>5 DEF RequestArrives
<1>7. \A r \in Requests : serving'[r] = IF r = f.request THEN e ELSE serving[r]
  BY <1>6 DEF CallInv, WsInv, NodeInv, NodeTypes
<1>8. \A r \in Requests : DownFades(r)
  BY <1>1, <1>2, ReceivesFades DEF IsOf
<1>9. ASSUME NEW r \in Requests, r # f.request PROVE RequestSound(r)'
  <2>1. UpFades(r) /\ ServingFades(r) /\ CallFades(r)
    BY <1>1, <1>7, <1>9, UpChanges DEF ServingFades, CallFades
  <2> QED BY <1>1, <1>4, <1>8, <2>1, NodeFades
<1>10. ASSUME NEW r \in Requests, r = f.request PROVE RequestSound(r)'
  <2>1. PICK queue \in Seq(Frames) : queue = down[s] /\ queue # <<>> /\ f = Head(queue)
    BY <1>1, <1>2, <1>3, ReceivesType DEF CallInv, WsInv, LinkTypeOK
  <2>2. down'[s] = Tail(queue) /\ \A x \in Sockets \ {s} : down'[x] = down[x]
    BY <1>1, <1>3, <2>1, ReceivesType DEF CallInv, WsInv, LinkTypeOK
  <2>3. RequestSound(r)
    BY DEF CallInv
  <2>4. IsOf(f, "request", r)
    BY <1>2, <1>10 DEF IsOf
  <2>5. Holds(down[s], "request", r) /\ Ordered(down[s], r)
    BY <2>1, <2>3, <2>4, HoldsTail DEF RequestSound, GoingDown
  <2>6. /\ NoFinal(r) /\ serving[r].by = NoNode /\ (remote[s] = "open" => Bound(r, s))
        /\ \A x \in Sockets \ {s} : ~Holds(down[x], "request", r)
    BY <2>3, <2>5 DEF RequestSound, GoingDown
  <2>7. ~Holds(down'[s], "request", r)
    BY <2>1, <2>2, <2>4, <2>5, HoldsTail
  <2>8. \A x \in Sockets : ~Holds(down'[x], "request", r) /\ Ordered(down'[x], r)
    BY <1>8, <2>2, <2>6, <2>7 DEF DownFades
  <2>9. ~Quiet(r)
    BY <2>5 DEF Quiet
  <2>10. call[r].phase # "idle"
    BY <2>3, <2>9 DEF RequestSound, Unstarted
  <2>11. Unstarted(r)' /\ Called(r)'
    BY <1>1, <2>3, <2>10 DEF RequestSound, Unstarted, Called
  <2>12. GoingUp(r)'
    BY <1>1, <2>3, <2>9 DEF RequestSound, GoingUp
  <2>13. GoingDown(r)'
    BY <2>8 DEF GoingDown
  <2>14. NoFinal(r)'
    BY <1>1, <2>6 DEF NoFinal
  <2>15. pending' = pending
    BY DEF relayVars
  <2>16. remote'[s] = "open" => Bound(r, s)'
    <3>1. Holds(down[s], "cancel", r) => Holds(down'[s], "cancel", r)
      BY <1>1, <1>3, <1>8 DEF DownFades
    <3> QED BY <1>1, <2>6, <2>15, <3>1 DEF Bound
  <2>17. serving'[r].by = n /\ serving'[r].via = s
    BY <1>6, <1>7, <1>10
  <2>18. Served(r)'
    BY <1>1, <1>3, <2>14, <2>16, <2>17 DEF Served, Healthy, Bound
  <2>19. GivenUp(r)' /\ KeptForCaller(r)'
    BY <1>1, <2>3, <2>15 DEF RequestSound, GivenUp, KeptForCaller
  <2> QED BY <2>11, <2>12, <2>13, <2>18, <2>19 DEF RequestSound
<1> QED BY <1>4, <1>9, <1>10

LEMMA CancelArrivesKeepsCalls ==
    ASSUME CallInv, NEW n \in Nodes, NEW k \in Relays, UNCHANGED relayVars, CancelArrives(n, k)
    PROVE  DeadEnds' /\ \A r \in Requests : RequestSound(r)'
<1>1. Receives(n, k, "cancel") /\ UNCHANGED <<client, remote, up, inflight, call>>
  BY DEF CancelArrives
<1>2. PICK f \in Frames : f = Packet(n, k) /\ f.type = "cancel" /\ f.request \in Requests
  BY <1>1, ReceivesType, FrameParts DEF CallInv, WsInv
<1>3. PICK s \in Sockets : s = conn[n][k].socket /\ Owner(s) = n /\ client[s] = "open"
  BY <1>1, ReceivesType DEF CallInv, WsInv
<1>4. DeadEnds'
  BY <1>1, ReceivesFades
<1>5. serving' = IF serving[f.request].by = n THEN [serving EXCEPT ![f.request] = Unserved] ELSE serving
  BY <1>2 DEF CancelArrives
<1>6. Unserved.by = NoNode
  BY DEF Unserved
<1>7. \A r \in Requests : \/ serving'[r] = serving[r] /\ (r = f.request => serving[r].by # n)
                          \/ serving'[r] = Unserved
  BY <1>5 DEF CallInv, WsInv, NodeInv, NodeTypes
<1>8. ASSUME NEW r \in Requests, r # f.request PROVE RequestSound(r)'
  <2>1. UpFades(r) /\ ServingFades(r) /\ CallFades(r)
    BY <1>1, <1>6, <1>7, UpChanges DEF ServingFades, CallFades
  <2>2. DownFades(r)
    BY <1>1, <1>2, <1>8, ReceivesFades DEF IsOf
  <2> QED BY <1>1, <1>4, <2>1, <2>2, NodeFades
<1>9. ASSUME NEW r \in Requests, r = f.request PROVE RequestSound(r)'
  <2>1. PICK queue \in Seq(Frames) : queue = down[s] /\ queue # <<>> /\ f = Head(queue)
    BY <1>1, <1>2, <1>3, ReceivesType DEF CallInv, WsInv, LinkTypeOK
  <2>2. down'[s] = Tail(queue) /\ \A x \in Sockets \ {s} : down'[x] = down[x]
    BY <1>1, <1>3, <2>1, ReceivesType DEF CallInv, WsInv, LinkTypeOK
  <2>3. RequestSound(r)
    BY DEF CallInv
  <2>4. IsOf(f, "cancel", r)
    BY <1>2, <1>9 DEF IsOf
  <2>5. \A x \in Sockets : Ordered(down[x], r)
    BY <2>3 DEF RequestSound, GoingDown
  <2>6. Ordered(down'[s], r) /\ ~Holds(down'[s], "request", r)
    BY <2>1, <2>2, <2>4, <2>5, HoldsTail
  <2>7. Holds(down'[s], "cancel", r) => Holds(down[s], "cancel", r)
    BY <2>1, <2>2, HoldsTail
  <2>8. \A x \in Sockets : /\ Ordered(down'[x], r)
                           /\ Holds(down'[x], "request", r) => x # s /\ Holds(down[x], "request", r)
                           /\ Holds(down'[x], "cancel", r) => Holds(down[x], "cancel", r)
    BY <2>2, <2>5, <2>6, <2>7
  <2>9. pending' = pending
    BY DEF relayVars
  <2>10. Quiet(r) => Quiet(r)'
    BY <2>8, <2>9 DEF Quiet
  <2>11. NoFinal(r) <=> NoFinal(r)'
    BY <1>1 DEF NoFinal
  <2>12. serving[r].by = NoNode => serving'[r].by = NoNode
    BY <1>6, <1>7
  <2>13. Unstarted(r)' /\ Called(r)'
    BY <1>1, <2>3, <2>10, <2>11, <2>12 DEF RequestSound, Unstarted, Called
  <2>14. GoingUp(r)'
    BY <1>1, <2>3, <2>10, <2>11, <2>12 DEF RequestSound, GoingUp
  <2>15. \A q \in Sockets \ {s} : Bound(r, q) => Bound(r, q)'
    BY <1>1, <2>2, <2>9 DEF Bound
  <2>16. GoingDown(r)'
    <3>1. ASSUME NEW q \in Sockets, Holds(down'[q], "request", r)
          PROVE  /\ NoFinal(r)' /\ serving'[r].by = NoNode
                 /\ remote'[q] = "open" => Bound(r, q)'
                 /\ \A x \in Sockets \ {q} : ~Holds(down'[x], "request", r)
      <4>1. q # s /\ Holds(down[q], "request", r)
        BY <2>8, <3>1
      <4>2. /\ NoFinal(r) /\ serving[r].by = NoNode
            /\ remote[q] = "open" => Bound(r, q)
            /\ \A x \in Sockets \ {q} : ~Holds(down[x], "request", r)
        BY <2>3, <4>1 DEF RequestSound, GoingDown
      <4> QED BY <1>1, <2>8, <2>11, <2>12, <2>15, <4>1, <4>2
    <3> QED BY <2>8, <3>1 DEF GoingDown
  <2>17. Served(r)'
    <3>1. CASE serving'[r] = Unserved
      BY <1>6, <3>1 DEF Served
    <3>2. CASE serving'[r] = serving[r] /\ serving[r].by # n /\ serving[r].by # NoNode
      <4>1. PICK v \in Sockets : /\ v = serving[r].via /\ Owner(v) = serving[r].by /\ NoFinal(r)
                                 /\ client[v] \in {"open", "closed"} /\ (Healthy(v) => Bound(r, v))
        BY <2>3, <3>2 DEF RequestSound, Served
      <4>2. v # s
        BY <1>3, <3>2, <4>1
      <4>3. Healthy(v)' => Bound(r, v)'
        BY <1>1, <2>15, <4>1, <4>2 DEF Healthy
      <4> QED BY <1>1, <2>11, <3>2, <4>1, <4>3 DEF Served, Healthy, Bound
    <3>3. CASE serving'[r].by = NoNode
      BY <3>3 DEF Served
    <3> QED BY <1>7, <1>9, <3>1, <3>2, <3>3
  <2>18. GivenUp(r)' /\ KeptForCaller(r)'
    BY <1>1, <2>3, <2>9 DEF RequestSound, GivenUp, KeptForCaller
  <2> QED BY <2>13, <2>14, <2>16, <2>17, <2>18 DEF RequestSound
<1> QED BY <1>4, <1>8, <1>9

\* A frame that may have been written behind the others.
LEMMA MaybeAppended ==
    ASSUME NEW queue \in Seq(Frames), NEW f \in Frames, NEW more,
           more = queue \/ more = Append(queue, f), NEW r, Ordered(queue, r),
           IsOf(f, "request", r) => ~Holds(queue, "request", r) /\ ~Holds(queue, "cancel", r)
    PROVE  /\ Ordered(more, r)
           /\ \A type : /\ Holds(queue, type, r) => Holds(more, type, r)
                        /\ Holds(more, type, r) => Holds(queue, type, r) \/ IsOf(f, type, r)
                        /\ Holds(more, type, r) => Holds(queue, type, r) \/ more # queue
           /\ HoldsFinal(queue, r) => HoldsFinal(more, r)
           /\ HoldsFinal(more, r) => HoldsFinal(queue, r) \/ IsFinal(f, r)
<1>1. CASE more = queue
  BY <1>1
<1>2. CASE more = Append(queue, f)
  BY <1>2, HoldsAppend
<1> QED BY <1>1, <1>2

LEMMA SendKeepsCalls ==
    ASSUME CallInv, NEW n \in Nodes, NEW own \in Requests, NEW v \in Services,
           NEW d \in Nodes \cup {NoNode}, Send(n, own, v, d), UNCHANGED relayVars
    PROVE  DeadEnds' /\ \A r \in Requests : RequestSound(r)'
<1>1. PICK f \in Frames : f = Request(own, v, d) /\ f.type = "request" /\ f.request = own
  BY FrameTypes DEF Request
<1>2. PICK s \in RpcSockets(n, d) :
         /\ call' = [call EXCEPT ![own] = [phase |-> "sending", destination |-> d,
                                           socket |-> s, raced |-> FALSE]]
         /\ SendOn(s, f)
  BY <1>1 DEF Send
<1>3. s \in Sockets /\ client[s] = "open"
  BY RpcSocketsOpen, OpenSocketsOpen DEF CallInv, WsInv
<1>4. call[own].phase = "idle" /\ UNCHANGED <<client, remote, down, inflight, serving>>
  BY DEF Send
<1>5. PICK e : e = [phase |-> "sending", destination |-> d, socket |-> s, raced |-> FALSE]
  OBVIOUS
<1>6. /\ e.phase = "sending" /\ e.socket = s
      /\ \A r \in Requests : call'[r] = IF r = own THEN e ELSE call[r]
  BY <1>2, <1>5 DEF CallInv, WsInv, NodeInv, NodeTypes
<1>7. DeadEnds'
  BY <1>4, NodeKeepsDeadEnds
<1>8. ASSUME NEW r \in Requests, r # own PROVE RequestSound(r)'
  <2>1. Foreign(f, r)
    BY <1>1, <1>8 DEF Foreign, IsOf, IsFinal
  <2>2. UpFades(r)
    BY <1>2, <1>3, <2>1, SendOnIsForeign
  <2>3. DownFades(r)
    BY <1>4, DownChanges
  <2>4. ServingFades(r) /\ CallFades(r)
    BY <1>4, <1>6, <1>8 DEF ServingFades, CallFades
  <2> QED BY <1>4, <1>7, <2>2, <2>3, <2>4, NodeFades
<1>9. RequestSound(own)'
  <2>1. RequestSound(own)
    BY DEF CallInv
  <2>2. /\ \A x \in Sockets : ~Holds(up[x], "request", own) /\ ~Holds(up[x], "cancel", own)
        /\ Quiet(own) /\ NoFinal(own) /\ serving[own].by = NoNode /\ inflight[own] = NoSocket
    BY <1>4, <2>1 DEF RequestSound, Unstarted
  <2>3. call'[own].phase = "sending" /\ call'[own].socket = s
    BY <1>6
  <2>4. \A x \in Sockets : /\ up[x] \in Seq(Frames) /\ Ordered(up[x], own) /\ Ordered(down[x], own)
                           /\ up'[x] = up[x] \/ (x = s /\ up'[x] = Append(up[x], f))
    BY <1>2, <1>3, <2>1, SendOnType DEF CallInv, WsInv, LinkTypeOK, RequestSound, GoingUp, GoingDown
  <2>5. IsOf(f, "request", own) /\ ~IsOf(f, "cancel", own) /\ ~IsFinal(f, own)
    BY <1>1 DEF IsOf, IsFinal
  <2>6. ASSUME NEW x \in Sockets
        PROVE  /\ Ordered(up'[x], own) /\ (Holds(up'[x], "request", own) => x = s)
               /\ ~Holds(up'[x], "cancel", own) /\ ~HoldsFinal(up'[x], own)
    <3>1. PICK queue \in Seq(Frames) :
             /\ queue = up[x] /\ Ordered(queue, own) /\ ~Holds(queue, "request", own)
             /\ ~Holds(queue, "cancel", own) /\ ~HoldsFinal(queue, own)
      BY <2>2, <2>4 DEF NoFinal
    <3>2. PICK more : more = up'[x]
      OBVIOUS
    <3>3. (more = queue \/ more = Append(queue, f)) /\ (more # queue => x = s)
      BY <2>4, <3>1, <3>2
    <3>4. /\ Ordered(more, own) /\ (Holds(more, "request", own) => more # queue)
          /\ ~Holds(more, "cancel", own) /\ ~HoldsFinal(more, own)
      BY <2>5, <3>1, <3>3, MaybeAppended
    <3> QED BY <3>2, <3>3, <3>4
  <2>7. NoFinal(own)'
    BY <2>6 DEF NoFinal
  <2>8. Quiet(own)'
    BY <1>4, <2>2 DEF Quiet, relayVars
  <2>9. Unstarted(own)' /\ Served(own)' /\ GivenUp(own)'
    BY <1>4, <2>2, <2>3 DEF Unstarted, Served, GivenUp
  <2>10. Called(own)'
    BY <1>3, <1>4, <2>2, <2>3 DEF Called
  <2>11. GoingUp(own)'
    BY <1>4, <2>2, <2>3, <2>6, <2>7, <2>8 DEF GoingUp
  <2>12. GoingDown(own)' /\ KeptForCaller(own)'
    BY <1>4, <2>4, <2>8 DEF Quiet, GoingDown, KeptForCaller
  <2> QED BY <2>9, <2>10, <2>11, <2>12 DEF RequestSound
<1> QED BY <1>7, <1>8, <1>9

LEMMA ResolveKeepsCalls ==
    ASSUME CallInv, NEW own \in Requests, Resolve(own), UNCHANGED relayVars
    PROVE  DeadEnds' /\ \A r \in Requests : RequestSound(r)'
<1>1. /\ call[own].phase = "sending" /\ UNCHANGED <<client, remote, up, down, serving>>
      /\ inflight' = [inflight EXCEPT ![own] = call[own].socket]
      /\ call' = [call EXCEPT ![own].phase = "sent"]
  BY DEF Resolve
<1>2. DeadEnds'
  BY <1>1, NodeKeepsDeadEnds
<1>3. ASSUME NEW r \in Requests PROVE RequestSound(r)'
  <2>1. UpFades(r) /\ DownFades(r) /\ ServingFades(r)
    BY <1>1, UpChanges, DownChanges DEF ServingFades
  <2>2. /\ inflight'[r] = IF r = own THEN call[own].socket ELSE inflight[r]
        /\ call'[r].socket = call[r].socket
        /\ call'[r].phase = IF r = own THEN "sent" ELSE call[r].phase
    BY <1>1 DEF CallInv, WsInv, NodeInv, NodeTypes
  <2>3. CallFades(r)
    BY <1>1, <2>2 DEF CallFades
  <2> QED BY <1>1, <1>2, <2>1, <2>3, NodeFades
<1> QED BY <1>2, <1>3

LEMMA CancelKeepsCalls ==
    ASSUME CallInv, NEW n \in Nodes, NEW own \in Requests, CancelCall(n, own), UNCHANGED relayVars
    PROVE  DeadEnds' /\ \A r \in Requests : RequestSound(r)'
<1>1. PICK f \in Frames : f = Cancel(own) /\ f.type = "cancel" /\ f.request = own
  BY FrameTypes DEF Cancel
<1>2. PICK s : s = call[own].socket
  OBVIOUS
<1>3. /\ call[own].phase = "sent" /\ UNCHANGED <<client, remote, down, serving>>
      /\ call' = [call EXCEPT ![own].phase = "cancelled"]
      /\ inflight' = [inflight EXCEPT ![own] = NoSocket]
      /\ SendOn(s, f)
  BY <1>1, <1>2 DEF CancelCall
<1>4. s \in Sockets /\ client[s] \in {"open", "closed"}
  BY <1>2, <1>3 DEF CallInv, RequestSound, Called
<1>5. \A r \in Requests :
         /\ inflight'[r] = IF r = own THEN NoSocket ELSE inflight[r]
         /\ call'[r].socket = call[r].socket
         /\ call'[r].phase = IF r = own THEN "cancelled" ELSE call[r].phase
  BY <1>3 DEF CallInv, WsInv, NodeInv, NodeTypes
<1>6. DeadEnds'
  BY <1>3, NodeKeepsDeadEnds
<1>7. ASSUME NEW r \in Requests, r # own PROVE RequestSound(r)'
  <2>1. Foreign(f, r)
    BY <1>1, <1>7 DEF Foreign, IsOf, IsFinal
  <2>2. UpFades(r)
    BY <1>3, <1>4, <2>1, SendOnIsForeign
  <2>3. DownFades(r)
    BY <1>3, DownChanges
  <2>4. ServingFades(r) /\ CallFades(r)
    BY <1>3, <1>5, <1>7 DEF ServingFades, CallFades
  <2> QED BY <1>3, <1>6, <2>2, <2>3, <2>4, NodeFades
<1>8. RequestSound(own)'
  <2>1. RequestSound(own)
    BY DEF CallInv
  <2>2. call'[own].phase = "cancelled" /\ call'[own].socket = s /\ inflight'[own] = NoSocket
    BY <1>2, <1>5
  <2>3. \A x \in Sockets : /\ up[x] \in Seq(Frames) /\ Ordered(up[x], own)
                           /\ up'[x] = up[x] \/ (x = s /\ up'[x] = Append(up[x], f))
    BY <1>3, <1>4, <2>1, SendOnType DEF CallInv, WsInv, LinkTypeOK, RequestSound, GoingUp
  <2>4. ~IsOf(f, "request", own) /\ IsOf(f, "cancel", own) /\ ~IsFinal(f, own)
    BY <1>1 DEF IsOf, IsFinal
  <2>5. \A x \in Sockets : ~Holds(up[x], "cancel", own)
    BY <1>3, <2>1 DEF RequestSound, GoingUp
  <2>6. ASSUME NEW x \in Sockets
        PROVE  /\ Ordered(up'[x], own)
               /\ Holds(up'[x], "request", own) <=> Holds(up[x], "request", own)
               /\ Holds(up'[x], "cancel", own) => x = s
               /\ HoldsFinal(up'[x], own) <=> HoldsFinal(up[x], own)
    <3>1. PICK queue \in Seq(Frames) :
             queue = up[x] /\ Ordered(queue, own) /\ ~Holds(queue, "cancel", own)
      BY <2>3, <2>5
    <3>2. PICK more : more = up'[x]
      OBVIOUS
    <3>3. (more = queue \/ more = Append(queue, f)) /\ (more # queue => x = s)
      BY <2>3, <3>1, <3>2
    <3>4. /\ Ordered(more, own)
          /\ Holds(more, "request", own) <=> Holds(queue, "request", own)
          /\ Holds(more, "cancel", own) => more # queue
          /\ HoldsFinal(more, own) <=> HoldsFinal(queue, own)
      BY <2>4, <3>1, <3>3, MaybeAppended
    <3> QED BY <3>1, <3>2, <3>3, <3>4
  <2>7. NoFinal(own) <=> NoFinal(own)'
    BY <2>6 DEF NoFinal
  <2>8. pending' = pending
    BY DEF relayVars
  <2>9. Quiet(own) <=> Quiet(own)'
    BY <1>3, <2>8 DEF Quiet
  <2>10. \A q \in Sockets : Bound(own, q) <=> Bound(own, q)'
    BY <1>2, <1>3, <2>2, <2>8 DEF Bound
  <2>11. Unstarted(own)' /\ Called(own)'
    BY <1>3, <1>4, <2>2 DEF Unstarted, Called
  <2>12. GoingUp(own)'
    BY <1>2, <1>3, <2>1, <2>2, <2>6, <2>7, <2>9 DEF RequestSound, GoingUp
  <2>13. GoingDown(own)'
    <3>1. ASSUME NEW q \in Sockets
          PROVE  /\ Ordered(down'[q], own)
                 /\ Holds(down'[q], "request", own) =>
                       /\ NoFinal(own)' /\ serving'[own].by = NoNode
                       /\ remote'[q] = "open" => Bound(own, q)'
                       /\ \A x \in Sockets \ {q} : ~Holds(down'[x], "request", own)
      BY <1>3, <2>1, <2>7, <2>10 DEF RequestSound, GoingDown
    <3> QED BY <3>1 DEF GoingDown
  <2>14. Served(own)'
    <3> SUFFICES ASSUME serving'[own].by # NoNode
                 PROVE  /\ NoFinal(own)'
                        /\ serving'[own].via \in Sockets
                        /\ Owner(serving'[own].via) = serving'[own].by
                        /\ client'[serving'[own].via] \in {"open", "closed"}
                        /\ Healthy(serving[own].via)' => Bound(own, serving[own].via)'
      BY DEF Served
    <3>1. PICK q \in Sockets : /\ q = serving[own].via /\ Owner(q) = serving[own].by /\ NoFinal(own)
                               /\ client[q] \in {"open", "closed"} /\ (Healthy(q) => Bound(own, q))
      BY <1>3, <2>1 DEF RequestSound, Served
    <3>2. Healthy(q)' => Bound(own, q)'
      BY <1>3, <2>10, <3>1 DEF Healthy
    <3> QED BY <1>3, <2>7, <3>1, <3>2 DEF Healthy, Bound
  <2>15. GivenUp(own)'
    <3>1. ASSUME client'[s] # "closed", remote'[s] = "open" PROVE Holds(up'[s], "cancel", own)
      <4>1. up'[s] = Append(up[s], f)
        BY <1>3, <1>4, <3>1, SendOnType DEF CallInv, WsInv
      <4> QED BY <1>4, <2>3, <2>4, <4>1, HoldsAppend
    <3> QED BY <2>2, <3>1 DEF GivenUp
  <2>16. KeptForCaller(own)'
    BY <1>2, <2>1, <2>2, <2>8 DEF RequestSound, KeptForCaller
  <2> QED BY <2>11, <2>12, <2>13, <2>14, <2>15, <2>16 DEF RequestSound
<1> QED BY <1>6, <1>7, <1>8

LEMMA ReplyKeepsCalls ==
    ASSUME CallInv, NEW n \in Nodes, NEW own \in Requests, NEW end \in {"more", "completed"},
           Reply(n, own, end), UNCHANGED relayVars
    PROVE  DeadEnds' /\ \A r \in Requests : RequestSound(r)'
<1>1. PICK caller \in Nodes : caller = CallerOf[own]
  BY WsLinkAssumption
<1>2. PICK f \in Frames : /\ f = Response(own, n, caller, end)
                          /\ f.type = "response" /\ f.request = own /\ f.end = end
  <2>1. PICK f : f = Response(own, n, caller, end)
    OBVIOUS
  <2>2. f \in Frames
    BY <2>1, FrameTypes DEF Ends
  <2>3. f.type = "response" /\ f.request = own /\ f.end = end
    BY <2>1 DEF Response
  <2> QED BY <2>1, <2>2, <2>3
<1>3. UNCHANGED <<client, remote, down, inflight, call>> /\ serving[own].by = n
  BY DEF Reply
<1>4. \A x \in Sockets : up'[x] = up[x] \/ up'[x] = Append(up[x], f)
  <2>1. CASE up' = up
    BY <2>1
  <2>2. ASSUME NEW s \in RpcSockets(n, caller), SendOn(s, f)
        PROVE  \A x \in Sockets : up'[x] = up[x] \/ up'[x] = Append(up[x], f)
    <3>1. s \in Sockets
      BY RpcSocketsOpen, OpenSocketsOpen DEF CallInv, WsInv
    <3> QED BY <2>2, <3>1, SendOnType DEF CallInv, WsInv
  <2> QED BY <1>1, <1>2, <2>1, <2>2 DEF Reply
<1>5. PICK made, mute : serving' = IF end = "more"
                                   THEN [serving EXCEPT ![own].made = made, ![own].mute = mute]
                                   ELSE [serving EXCEPT ![own] = Unserved]
  <2>1. PICK made : made = serving[own].made + 1
    OBVIOUS
  <2>2. PICK mute : mute = (serving[own].mute \/ RpcSockets(n, caller) = {})
    OBVIOUS
  <2> QED BY <1>1, <2>1, <2>2 DEF Reply
<1>6. Unserved.by = NoNode
  BY DEF Unserved
<1>7. \A r \in Requests : \/ /\ serving'[r].by = serving[r].by /\ serving'[r].via = serving[r].via
                             /\ r = own => end = "more"
                          \/ r = own /\ serving'[r].by = NoNode
  BY <1>5, <1>6 DEF CallInv, WsInv, NodeInv, NodeTypes
<1>8. DeadEnds'
  BY <1>3, NodeKeepsDeadEnds
<1>9. ASSUME NEW r \in Requests, r # own \/ end = "more" PROVE RequestSound(r)'
  <2>1. Foreign(f, r)
    BY <1>2, <1>9 DEF Foreign, IsOf, IsFinal
  <2>2. UpFades(r)
    BY <1>4, <2>1, UpChanges
  <2>3. DownFades(r) /\ CallFades(r)
    BY <1>3, DownChanges DEF CallFades
  <2>4. ServingFades(r)
    BY <1>7 DEF ServingFades
  <2> QED BY <1>3, <1>8, <2>2, <2>3, <2>4, NodeFades
<1>10. ASSUME end # "more" PROVE RequestSound(own)'
  <2>1. RequestSound(own) /\ serving'[own].by = NoNode
    BY <1>7, <1>10 DEF CallInv
  <2>2. serving[own].by # NoNode
    BY <1>3, WsLinkAssumption
  <2>3. call[own].phase # "idle"
    BY <2>1, <2>2 DEF RequestSound, Unstarted
  <2>4. \A x \in Sockets : ~Holds(up[x], "request", own) /\ ~Holds(down[x], "request", own)
    BY <2>1, <2>2 DEF RequestSound, GoingUp, GoingDown
  <2>5. ~IsOf(f, "request", own) /\ ~IsOf(f, "cancel", own)
    BY <1>2 DEF IsOf
  <2>6. \A x \in Sockets : /\ Ordered(up'[x], own) /\ ~Holds(up'[x], "request", own)
                           /\ Holds(up'[x], "cancel", own) <=> Holds(up[x], "cancel", own)
    <3> SUFFICES ASSUME NEW x \in Sockets
                 PROVE  /\ Ordered(up'[x], own) /\ ~Holds(up'[x], "request", own)
                        /\ Holds(up'[x], "cancel", own) <=> Holds(up[x], "cancel", own)
      OBVIOUS
    <3>1. PICK queue \in Seq(Frames) :
             queue = up[x] /\ Ordered(queue, own) /\ ~Holds(queue, "request", own)
      BY <2>1, <2>4 DEF RequestSound, GoingUp, CallInv, WsInv, LinkTypeOK
    <3>2. PICK more : more = up'[x]
      OBVIOUS
    <3>3. more = queue \/ more = Append(queue, f)
      BY <1>4, <3>1, <3>2
    <3>4. /\ Ordered(more, own) /\ ~Holds(more, "request", own)
          /\ Holds(more, "cancel", own) <=> Holds(queue, "cancel", own)
      BY <2>5, <3>1, <3>3, MaybeAppended
    <3> QED BY <3>1, <3>2, <3>4
  <2>7. pending' = pending
    BY DEF relayVars
  <2>8. Unstarted(own)' /\ Called(own)' /\ Served(own)'
    BY <1>3, <2>1, <2>3 DEF RequestSound, Unstarted, Called, Served
  <2>9. GoingUp(own)'
    BY <1>3, <2>1, <2>6 DEF RequestSound, GoingUp
  <2>10. GoingDown(own)'
    BY <1>3, <2>1, <2>4 DEF RequestSound, GoingDown
  <2>11. GivenUp(own)' /\ KeptForCaller(own)'
    BY <1>3, <2>1, <2>3, <2>6, <2>7 DEF RequestSound, GivenUp, KeptForCaller, Called
  <2> QED BY <2>1, <2>8, <2>9, <2>10, <2>11 DEF RequestSound
<1> QED BY <1>8, <1>9, <1>10

LEMMA NodeKeepsCalls ==
    ASSUME CallInv, NEW n \in Nodes, NodeStep(n), UNCHANGED relayVars
    PROVE  DeadEnds' /\ \A r \in Requests : RequestSound(r)'
<1>1. ASSUME NEW k \in Relays, Connect(n, k) \/ Reconnect(n, k)
      PROVE  DeadEnds' /\ \A r \in Requests : RequestSound(r)'
  BY <1>1, DialKeepsCalls DEF Connect, Reconnect
<1>2. ASSUME NEW k \in Relays, Lost(n, k) \/ CloseUrl(n, k)
      PROVE  DeadEnds' /\ \A r \in Requests : RequestSound(r)'
  BY <1>2, DisconnectingKeepsCalls
<1>3. ASSUME NEW k \in Relays,
             \/ HelloArrives(n, k) \/ OfflineArrives(n, k) \/ ResponseArrives(n, k)
             \/ PublishArrives(n, k)
      PROVE  DeadEnds' /\ \A r \in Requests : RequestSound(r)'
  BY <1>3, HearingKeepsCalls
<1>4. ASSUME \/ \E services \in SUBSET Services : Announce(n, services)
             \/ \E t \in Topics : Listen(n, t) \/ Unlisten(n, t) \/ LingerEnds(n, t)
                                  \/ PublishTo(n, t)
      PROVE  DeadEnds' /\ \A r \in Requests : RequestSound(r)'
  BY <1>4, SpeakingUpKeepsCalls
<1>5. ASSUME NEW r \in Requests,
             \/ \E v \in Services, d \in Nodes \cup {NoNode} : Send(n, r, v, d)
             \/ CallerOf[r] = n /\ Resolve(r)
             \/ CancelCall(n, r)
             \/ \E end \in {"more", "completed"} : Reply(n, r, end)
      PROVE  DeadEnds' /\ \A q \in Requests : RequestSound(q)'
  BY <1>5, SendKeepsCalls, ResolveKeepsCalls, CancelKeepsCalls, ReplyKeepsCalls
<1> QED BY <1>1, <1>2, <1>3, <1>4, <1>5, OpenedKeepsCalls, RequestArrivesKeepsCalls,
           CancelArrivesKeepsCalls DEF NodeStep

LEMMA CallInvInit == Init => CallInv
<1> SUFFICES ASSUME Init PROVE CallInv
  OBVIOUS
<1>1. WsInv
  BY WsInvInit
<1>2. \A x \in Sockets : /\ client[x] = "unused" /\ remote[x] = "unused"
                         /\ up[x] = <<>> /\ down[x] = <<>>
  BY DEF Init, LinkInit
<1>3. DeadEnds
  BY <1>2 DEF DeadEnds
<1>4. ASSUME NEW r \in Requests PROVE RequestSound(r)
  <2>1. call[r].phase = "idle" /\ inflight[r] = NoSocket /\ serving[r].by = NoNode
    BY DEF Init, NodeInit, Uncalled, Unserved
  <2>2. \A k \in Relays : pending[k][r] = NoEntry
    BY DEF Init, RelayInit
  <2>3. \A x \in Sockets :
           /\ \A type : ~Holds(up[x], type, r) /\ ~Holds(down[x], type, r)
           /\ ~HoldsFinal(up[x], r) /\ Ordered(up[x], r) /\ Ordered(down[x], r)
    BY <1>2, HoldsEmpty
  <2>4. Quiet(r) /\ NoFinal(r)
    BY <2>2, <2>3 DEF Quiet, NoFinal
  <2>5. Unstarted(r) /\ Called(r) /\ GoingUp(r) /\ GoingDown(r)
    BY <2>1, <2>3, <2>4 DEF Unstarted, Called, GoingUp, GoingDown
  <2>6. Served(r) /\ GivenUp(r) /\ KeptForCaller(r)
    BY <2>1, <2>2 DEF Served, GivenUp, KeptForCaller
  <2> QED BY <2>5, <2>6 DEF RequestSound
<1> QED BY <1>1, <1>3, <1>4 DEF CallInv

LEMMA CallInvNext == CallInv /\ [Next]_vars => CallInv'
<1> SUFFICES ASSUME CallInv, [Next]_vars PROVE CallInv'
  OBVIOUS
<1>1. WsInv'
  BY WsInvNext DEF CallInv
<1>2. DeadEnds' /\ \A r \in Requests : RequestSound(r)'
  <2>1. CASE RelayActs
    BY <2>1, RelayKeepsCalls DEF RelayActs
  <2>2. CASE NodeActs
    BY <2>2, NodeKeepsCalls DEF NodeActs
  <2>3. CASE UNCHANGED vars
    <3>1. UNCHANGED <<client, remote, up, down, relayVars, inflight, call, serving>>
      BY <2>3 DEF vars, linkVars, nodeVars
    <3>2. DeadEnds'
      BY <3>1, NodeKeepsDeadEnds
    <3>3. \A r \in Requests : UpFades(r) /\ DownFades(r)
      BY <3>1, UpChanges, DownChanges
    <3> QED BY <3>1, <3>2, <3>3, CallsStay
  <2> QED BY <2>1, <2>2, <2>3 DEF Next
<1> QED BY <1>1, <1>2 DEF CallInv

LEMMA CallsAreSound == Spec => []CallInv
  BY CallInvInit, CallInvNext, PTL DEF Spec

\* A provider whose connection is healthy does not work for a caller that has gone: a cancel
\* is on its way to it, or the relay has yet to read one or to notice the loss, whatever
\* sockets are lost, however often both ends reconnect and whichever relays crash.
THEOREM AbandonedStop == Spec => []AbandonedStreamsStop
<1>1. CallInv => AbandonedStreamsStop
  <2> SUFFICES ASSUME CallInv, NEW r \in Requests,
                      serving[r].by # NoNode, Healthy(serving[r].via),
                      call[r].phase \in {"cancelled", "disconnected"}
               PROVE  \/ Holds(down[serving[r].via], "cancel", r)
                      \/ /\ remote[call[r].socket] = "open"
                         /\ \/ client[call[r].socket] = "closed"
                            \/ Holds(up[call[r].socket], "cancel", r)
    BY DEF AbandonedStreamsStop
  <2>1. PICK s \in Sockets : s = call[r].socket
    BY DEF CallInv, RequestSound, Called
  <2>2. PICK q \in Sockets : q = serving[r].via /\ Bound(r, q)
    BY DEF CallInv, RequestSound, Served
  <2>3. CASE Holds(down[q], "cancel", r)
    BY <2>2, <2>3
  <2>4. CASE pending[RelayOf(q)][r] = [caller |-> s, provider |-> q]
    <3>1. PICK k \in Relays : k = RelayOf(q)
      BY SocketParts
    <3>2. pending[k][r].caller = s /\ pending[k][r].provider = q
      BY <2>4, <3>1
    <3>3. pending[k][r] # NoEntry
      <4>1. q # NoSocket /\ NoEntry.provider = NoSocket
        BY WsLinkAssumption DEF NoEntry
      <4> QED BY <3>2, <4>1
    <3>4. remote[s] = "open" /\ RelayOf(s) = k
      BY <3>2, <3>3 DEF CallInv, WsInv, RelayInv, PendingSound, LiveAt
    <3>5. client[s] = "closed" \/ Holds(up[s], "cancel", r)
      BY <2>1, <3>3, <3>4 DEF CallInv, RequestSound, GivenUp
    <3> QED BY <2>1, <3>4, <3>5
  <2> QED BY <2>1, <2>2, <2>3, <2>4 DEF Bound
<1> QED BY <1>1, CallsAreSound, PTL

-----------------------------------------------------------------------------
(* Calls in good hands.  What a caller waits for is in one place: the      *)
(* request under way to the relay, the relay's entry with a provider that  *)
(* owes the answer, or the last frame of the answer under way to the       *)
(* socket that carries the call; and that socket is the one registered.    *)

\* A socket opens when the relay has accepted it.
Accepted == \A s \in Sockets : client[s] = "open" => remote[s] # "unused"

Enlisted(s) == nodes[RelayOf(s)][Owner(s)] = s

\* The first thing a node says on a socket is hello.
Enlisting ==
    \A s \in Sockets :
        Alone(s) => Enlisted(s) \/ (up[s] # <<>> /\ Head(up[s]).type = "hello")

\* A call is carried by a socket of its caller, and answered on one.
Owned(r) == call[r].phase # "idle" => Owner(call[r].socket) = CallerOf[r]

Addressed(r) ==
    \A x \in Sockets :
        /\ \A f : Has(up[x], f) /\ IsFinal(f, r) => f.destination = CallerOf[r]
        /\ HoldsFinal(down[x], r) => Owner(x) = CallerOf[r]

\* No cancel without a reason.
Reasoned(r) ==
    \A x \in Sockets : Holds(down[x], "cancel", r) =>
        call[r].phase = "cancelled" \/ remote[call[r].socket] = "closed"

\* The request is with the provider the relay has in mind.
Placed(r) ==
    \A k \in Relays : pending[k][r] # NoEntry =>
       /\ \A x \in Sockets : Holds(down[x], "request", r) => pending[k][r].provider = x
       /\ serving[r].by # NoNode => pending[k][r].provider = serving[r].via

\* A stream falls silent when its node has lost the connection it was asked on.
Silenced(r) == serving[r].by # NoNode /\ serving[r].mute => client[serving[r].via] = "closed"

Owed(r, q) ==
    \/ client[q] = "closed"
    \/ Holds(down[q], "request", r)
    \/ serving[r].by = Owner(q)
    \/ HoldsFinal(up[q], r)

Entered(r, s) ==
    LET k == RelayOf(s)
    IN pending[k][r] # NoEntry /\ Enlisted(s) /\ Owed(r, pending[k][r].provider)

Handled(r, s) ==
    \/ remote[s] = "closed"
    \/ Holds(up[s], "request", r)
    \/ Entered(r, s)
    \/ HoldsFinal(down[s], r)
    \/ <<Owner(s), RelayOf(s)>> \in overlap

Waiting(r) == call[r].phase \in {"sending", "sent"} /\ ~call[r].raced

InHands(r) ==
    Waiting(r) =>
       /\ client[call[r].socket] = "open"
       /\ call[r].phase = "sent" => inflight[r] = call[r].socket
       /\ Handled(r, call[r].socket)

Kept(r) == /\ Owned(r) /\ Addressed(r) /\ Reasoned(r)
           /\ Placed(r) /\ Silenced(r) /\ InHands(r)

HandsInv ==
    /\ CallInv /\ TopicInv /\ Accepted /\ Enlisting
    /\ \A r \in Requests : Kept(r)

\* The frames of a queue that has changed.
LEMMA HasChanges ==
    ASSUME NEW queue \in Seq(Frames)
    PROVE  /\ \A f : ~Has(<<>>, f)
           /\ \A f \in Frames : \A g : Has(Append(queue, f), g) <=> Has(queue, g) \/ g = f
           /\ \A frames \in Seq(Frames) : \A g :
                 Has(queue \o frames, g) <=> Has(queue, g) \/ Has(frames, g)
           /\ queue # <<>> =>
                 \A g : Has(queue, g) <=> g = Head(queue) \/ Has(Tail(queue), g)
<1>1. PICK m \in Nat : m = Len(queue) /\ DOMAIN queue = 1..m
  OBVIOUS
<1>2. \A f : ~Has(<<>>, f)
  BY DEF Has
<1>3. ASSUME NEW frames \in Seq(Frames), NEW g
      PROVE  Has(queue \o frames, g) <=> Has(queue, g) \/ Has(frames, g)
  <2>1. PICK l \in Nat : l = Len(frames) /\ DOMAIN frames = 1..l
    OBVIOUS
  <2>2. PICK more : more = queue \o frames
    OBVIOUS
  <2>3. /\ DOMAIN more = 1..(m + l) /\ \A j \in 1..m : more[j] = queue[j]
        /\ \A j \in 1..l : more[m + j] = frames[j]
    BY <1>1, <2>1, <2>2
  <2>4. /\ \A j \in 1..m : j \in 1..(m + l)
        /\ \A j \in 1..l : m + j \in 1..(m + l)
    OBVIOUS
  <2>5. \A j \in 1..(m + l) : j \in 1..m \/ \E i \in 1..l : j = m + i
    <3> SUFFICES ASSUME NEW j \in 1..(m + l), j \notin 1..m PROVE \E i \in 1..l : j = m + i
      OBVIOUS
    <3>1. j - m \in 1..l /\ j = m + (j - m)
      OBVIOUS
    <3> QED BY <3>1
  <2>6. ASSUME NEW j \in 1..(m + l), more[j] = g PROVE Has(queue, g) \/ Has(frames, g)
    <3>1. CASE j \in 1..m
      BY <1>1, <2>3, <2>6, <3>1 DEF Has
    <3>2. ASSUME NEW i \in 1..l, j = m + i PROVE Has(frames, g)
      BY <2>1, <2>3, <2>6, <3>2 DEF Has
    <3> QED BY <2>5, <3>1, <3>2
  <2>7. ASSUME NEW j \in 1..m, queue[j] = g PROVE Has(more, g)
    BY <2>3, <2>4, <2>7 DEF Has
  <2>8. ASSUME NEW j \in 1..l, frames[j] = g PROVE Has(more, g)
    BY <2>3, <2>4, <2>8 DEF Has
  <2> QED BY <1>1, <2>1, <2>2, <2>3, <2>6, <2>7, <2>8 DEF Has
<1>4. ASSUME NEW f \in Frames, NEW g PROVE Has(Append(queue, f), g) <=> Has(queue, g) \/ g = f
  <2>1. PICK one \in Seq(Frames) : one = <<f>> /\ Len(one) = 1 /\ one[1] = f
    BY OneFrame
  <2>2. Has(one, g) <=> g = f
    <3>1. DOMAIN one = {1}
      BY <2>1
    <3> QED BY <2>1, <3>1 DEF Has
  <2>3. Append(queue, f) = queue \o one
    BY <2>1, AppendIsConcat
  <2> QED BY <1>3, <2>2, <2>3
<1>5. ASSUME queue # <<>>, NEW g
      PROVE  Has(queue, g) <=> g = Head(queue) \/ Has(Tail(queue), g)
  <2>1. m > 0
    BY <1>1, <1>5, EmptySeq
  <2>2. PICK rest : rest = Tail(queue)
    OBVIOUS
  <2>3. DOMAIN rest = 1..(m - 1) /\ \A j \in 1..(m - 1) : rest[j] = queue[j + 1]
    BY <1>1, <1>5, <2>2
  <2>4. Head(queue) = queue[1] /\ 1 \in 1..m
    BY <1>1, <2>1
  <2>5. \A j \in 1..(m - 1) : j + 1 \in 1..m
    BY <2>1
  <2>6. \A j \in 1..m : j = 1 \/ \E i \in 1..(m - 1) : j = i + 1
    <3> SUFFICES ASSUME NEW j \in 1..m, j # 1 PROVE \E i \in 1..(m - 1) : j = i + 1
      OBVIOUS
    <3>1. j - 1 \in 1..(m - 1) /\ j = (j - 1) + 1
      BY <2>1
    <3> QED BY <3>1
  <2>7. ASSUME NEW j \in 1..m, queue[j] = g PROVE g = Head(queue) \/ Has(rest, g)
    BY <2>3, <2>4, <2>6, <2>7 DEF Has
  <2>8. ASSUME NEW j \in 1..(m - 1), rest[j] = g PROVE Has(queue, g)
    BY <1>1, <2>3, <2>5, <2>8 DEF Has
  <2>9. Has(queue, Head(queue))
    BY <1>1, <2>4 DEF Has
  <2> QED BY <1>1, <2>2, <2>3, <2>7, <2>8, <2>9 DEF Has
<1> QED BY <1>2, <1>3, <1>4, <1>5

\* The frames a caller waits for: its request and the last one of the answer.
Weighs(f, r) == IsOf(f, "request", r) \/ IsFinal(f, r)

UpStays(r) ==
    \A x \in Sockets :
        /\ \A f : Weighs(f, r) /\ Has(up'[x], f) => Has(up[x], f)
        /\ remote'[x] = "open" => \A f : Weighs(f, r) /\ Has(up[x], f) => Has(up'[x], f)

DownStays(r) ==
    \A x \in Sockets :
        /\ \A f : ~Foreign(f, r) /\ Has(down'[x], f) => Has(down[x], f)
        /\ client'[x] # "closed" => \A f : Weighs(f, r) /\ Has(down[x], f) => Has(down'[x], f)

LEMMA UpStay ==
    ASSUME LinkTypeOK, NEW r,
           \A x \in Sockets :
              \/ up'[x] = up[x]
              \/ up'[x] = <<>> /\ remote'[x] # "open"
              \/ \E f \in Frames : up'[x] = Append(up[x], f) /\ ~Weighs(f, r)
              \/ \E frames \in Seq(Frames) : up'[x] = up[x] \o frames /\ ForeignAll(frames, r)
              \/ up[x] # <<>> /\ up'[x] = Tail(up[x]) /\ ~Weighs(Head(up[x]), r)
    PROVE  UpStays(r)
<1> SUFFICES ASSUME NEW x \in Sockets
             PROVE  /\ \A f : Weighs(f, r) /\ Has(up'[x], f) => Has(up[x], f)
                    /\ remote'[x] = "open" =>
                          \A f : Weighs(f, r) /\ Has(up[x], f) => Has(up'[x], f)
  BY DEF UpStays
<1>1. PICK queue \in Seq(Frames) : queue = up[x]
  BY DEF LinkTypeOK
<1>2. CASE up'[x] = up[x]
  BY <1>2
<1>3. CASE up'[x] = <<>> /\ remote'[x] # "open"
  BY <1>1, <1>3, HasChanges
<1>4. ASSUME NEW f \in Frames, up'[x] = Append(up[x], f), ~Weighs(f, r)
      PROVE  \A g : Weighs(g, r) => (Has(up'[x], g) <=> Has(up[x], g))
  BY <1>1, <1>4, HasChanges
<1>5. ASSUME NEW frames \in Seq(Frames), up'[x] = up[x] \o frames, ForeignAll(frames, r)
      PROVE  \A g : Weighs(g, r) => (Has(up'[x], g) <=> Has(up[x], g))
  <2>1. \A g : Has(frames, g) => ~Weighs(g, r)
    BY <1>5, ForeignHas DEF Foreign, Weighs
  <2> QED BY <1>1, <1>5, <2>1, HasChanges
<1>6. CASE up[x] # <<>> /\ up'[x] = Tail(up[x]) /\ ~Weighs(Head(up[x]), r)
  BY <1>1, <1>6, HasChanges
<1> QED BY <1>2, <1>3, <1>4, <1>5, <1>6

LEMMA DownStay ==
    ASSUME LinkTypeOK, NEW r,
           \A x \in Sockets :
              \/ down'[x] = down[x]
              \/ down'[x] = <<>> /\ client'[x] = "closed"
              \/ \E frames \in Seq(Frames) : down'[x] = down[x] \o frames /\ ForeignAll(frames, r)
              \/ down[x] # <<>> /\ down'[x] = Tail(down[x]) /\ ~Weighs(Head(down[x]), r)
    PROVE  DownStays(r)
<1> SUFFICES ASSUME NEW x \in Sockets
             PROVE  /\ \A f : ~Foreign(f, r) /\ Has(down'[x], f) => Has(down[x], f)
                    /\ client'[x] # "closed" =>
                          \A f : Weighs(f, r) /\ Has(down[x], f) => Has(down'[x], f)
  BY DEF DownStays
<1>1. PICK queue \in Seq(Frames) : queue = down[x]
  BY DEF LinkTypeOK
<1>2. CASE down'[x] = down[x]
  BY <1>2
<1>3. CASE down'[x] = <<>> /\ client'[x] = "closed"
  BY <1>1, <1>3, HasChanges
<1>4. ASSUME NEW frames \in Seq(Frames), down'[x] = down[x] \o frames, ForeignAll(frames, r)
      PROVE  /\ \A g : ~Foreign(g, r) /\ Has(down'[x], g) => Has(down[x], g)
             /\ \A g : Has(down[x], g) => Has(down'[x], g)
  <2>1. \A g : Has(frames, g) => Foreign(g, r)
    BY <1>4, ForeignHas
  <2> QED BY <1>1, <1>4, <2>1, HasChanges
<1>5. CASE down[x] # <<>> /\ down'[x] = Tail(down[x]) /\ ~Weighs(Head(down[x]), r)
  BY <1>1, <1>5, HasChanges
<1> QED BY <1>2, <1>3, <1>4, <1>5

-----------------------------------------------------------------------------
(* What a step has to leave alone.                                         *)

\* Sockets that were lost stay lost, and a socket alone at its relay stays enlisted.
GroundStays ==
    /\ Accepted' /\ Enlisting' /\ overlap \subseteq overlap'
    /\ \A x \in Sockets : /\ client[x] = "closed" => client'[x] = "closed"
                          /\ remote[x] = "closed" => remote'[x] = "closed"
                          /\ Enlisted(x) /\ Alone(x)' => Enlisted(x)'

PendingStays(r) ==
    \A k \in Relays :
        \/ pending'[k][r] = pending[k][r]
        \/ /\ pending'[k][r] = NoEntry
           /\ \A x \in Sockets : RelayOf(x) = k => remote'[x] # "open"

ServingStays(r) ==
    /\ serving'[r].by = serving[r].by /\ serving'[r].via = serving[r].via
    /\ serving'[r].mute => serving[r].mute \/ client[serving[r].via] = "closed"

CallStays(r) ==
    /\ call'[r].socket = call[r].socket
    /\ call'[r].phase # "idle" => call[r].phase # "idle"
    /\ call[r].phase = "cancelled" => call'[r].phase = "cancelled"
    /\ Waiting(r)' =>
          /\ Waiting(r) /\ client'[call[r].socket] = "open"
          /\ call'[r].phase = "sent" => inflight'[r] = call[r].socket

LEMMA AddressedKept ==
    ASSUME NEW r \in Requests, Addressed(r),
           \A x \in Sockets :
              /\ \A f : Has(up'[x], f) /\ IsFinal(f, r) =>
                    Has(up[x], f) \/ f.destination = CallerOf[r]
              /\ HoldsFinal(down'[x], r) => HoldsFinal(down[x], r) \/ Owner(x) = CallerOf[r]
    PROVE  Addressed(r)'
  BY DEF Addressed

LEMMA ReasonedKept ==
    ASSUME CallInv, NEW r \in Requests, Reasoned(r),
           \A x \in Sockets : remote[x] = "closed" => remote'[x] = "closed",
           call[r].phase # "idle" => call'[r].socket = call[r].socket,
           call[r].phase = "cancelled" => call'[r].phase = "cancelled",
           \A x \in Sockets : Holds(down'[x], "cancel", r) =>
              \/ Holds(down[x], "cancel", r)
              \/ call'[r].phase = "cancelled" \/ remote'[call'[r].socket] = "closed"
    PROVE  Reasoned(r)'
<1> SUFFICES ASSUME NEW x \in Sockets, Holds(down[x], "cancel", r)
             PROVE  call'[r].phase = "cancelled" \/ remote'[call'[r].socket] = "closed"
  BY DEF Reasoned
<1>1. call[r].phase # "idle"
  BY DEF CallInv, RequestSound, Unstarted, Quiet
<1>2. call[r].socket \in Sockets
  BY <1>1 DEF CallInv, RequestSound, Called
<1>3. call[r].phase = "cancelled" \/ remote[call[r].socket] = "closed"
  BY DEF Reasoned
<1> QED BY <1>1, <1>2, <1>3

LEMMA PlacedKept ==
    ASSUME NEW r \in Requests, Placed(r),
           \A k \in Relays : pending'[k][r] \in {pending[k][r], NoEntry},
           \A x \in Sockets : Holds(down'[x], "request", r) => Holds(down[x], "request", r),
           \/ serving'[r].by = NoNode
           \/ serving'[r].by = serving[r].by /\ serving'[r].via = serving[r].via
    PROVE  Placed(r)'
  BY DEF Placed

LEMMA SilencedKept ==
    ASSUME CallInv, NEW r \in Requests, Silenced(r),
           \A x \in Sockets : client[x] = "closed" => client'[x] = "closed",
           \/ serving'[r].by = NoNode
           \/ ServingStays(r)
    PROVE  Silenced(r)'
<1>1. serving[r].by # NoNode => serving[r].via \in Sockets
  BY DEF CallInv, RequestSound, Served
<1> QED BY <1>1 DEF Silenced, ServingStays

\* Whoever has to answer keeps having to.
LEMMA OwedKept ==
    ASSUME NEW r \in Requests, NEW q \in Sockets, Owed(r, q), UpStays(r), DownStays(r),
           client[q] = "closed" => client'[q] = "closed", remote'[q] = "open",
           serving'[r].by = serving[r].by
    PROVE  Owed(r, q)'
<1>1. CASE client'[q] = "closed"
  BY <1>1 DEF Owed
<1>2. CASE client'[q] # "closed"
  <2>1. Holds(down[q], "request", r) => Holds(down'[q], "request", r)
    BY <1>2, HoldsHas DEF DownStays, Weighs
  <2>2. HoldsFinal(up[q], r) => HoldsFinal(up'[q], r)
    BY HoldsHas DEF UpStays, Weighs
  <2> QED BY <1>2, <2>1, <2>2 DEF Owed
<1> QED BY <1>1, <1>2

LEMMA HandledKept ==
    ASSUME HandsInv, CallInv', GroundStays, NEW r \in Requests, NEW s \in Sockets,
           Handled(r, s), UpStays(r), DownStays(r), PendingStays(r), client'[s] = "open",
           serving'[r].by = serving[r].by
    PROVE  Handled(r, s)'
<1>1. CASE remote'[s] = "closed" \/ <<Owner(s), RelayOf(s)>> \in overlap'
  BY <1>1 DEF Handled
<1>2. CASE remote'[s] # "closed" /\ <<Owner(s), RelayOf(s)>> \notin overlap'
  <2>1. remote'[s] = "open"
    BY <1>2 DEF GroundStays, Accepted, CallInv, WsInv, LinkTypeOK, RemoteStates
  <2>2. Alone(s)'
    BY <1>2, <2>1 DEF Alone
  <2>3. remote[s] # "closed" /\ <<Owner(s), RelayOf(s)>> \notin overlap
    BY <1>2 DEF GroundStays
  <2>4. CASE Holds(up[s], "request", r)
    <3>1. Holds(up'[s], "request", r)
      BY <2>1, <2>4, HoldsHas DEF UpStays, Weighs
    <3> QED BY <3>1 DEF Handled
  <2>5. CASE HoldsFinal(down[s], r)
    <3>1. HoldsFinal(down'[s], r)
      BY <2>5, HoldsHas DEF DownStays, Weighs
    <3> QED BY <3>1 DEF Handled
  <2>6. CASE Entered(r, s)
    <3>1. PICK k \in Relays : k = RelayOf(s)
      BY SocketParts
    <3>2. pending[k][r] # NoEntry /\ Enlisted(s) /\ Owed(r, pending[k][r].provider)
      BY <2>6, <3>1 DEF Entered
    <3>3. pending'[k][r] = pending[k][r]
      BY <2>1, <3>1 DEF PendingStays
    <3>4. Enlisted(s)'
      BY <2>2, <3>2 DEF GroundStays
    <3>5. PICK q \in Sockets : q = pending[k][r].provider /\ remote'[q] = "open"
      BY <3>2, <3>3 DEF CallInv, WsInv, RelayInv, PendingSound, LiveAt
    <3>6. Owed(r, q)'
      BY <3>2, <3>5, OwedKept DEF GroundStays
    <3>7. Owed(r, pending[k][r].provider)'
      BY <3>3, <3>5, <3>6 DEF Owed
    <3> QED BY <3>1, <3>2, <3>3, <3>4, <3>7 DEF Entered, Handled
  <2> QED BY <2>3, <2>4, <2>5, <2>6 DEF Handled
<1> QED BY <1>1, <1>2

\* Nothing about the request moves.
LEMMA CalmKeeps ==
    ASSUME HandsInv, CallInv', GroundStays, NEW r \in Requests, UpStays(r), DownStays(r),
           PendingStays(r), ServingStays(r), CallStays(r)
    PROVE  Kept(r)'
<1>1. Kept(r) /\ CallInv
  BY DEF HandsInv
<1>2. \A x \in Sockets : /\ client[x] = "closed" => client'[x] = "closed"
                         /\ remote[x] = "closed" => remote'[x] = "closed"
  BY DEF GroundStays
<1>3. \A x \in Sockets : /\ Holds(down'[x], "request", r) => Holds(down[x], "request", r)
                         /\ Holds(down'[x], "cancel", r) => Holds(down[x], "cancel", r)
                         /\ HoldsFinal(down'[x], r) => HoldsFinal(down[x], r)
  BY HoldsHas DEF DownStays, Foreign
<1>4. Owned(r)'
  BY <1>1 DEF Kept, Owned, CallStays
<1>5. Addressed(r)'
  <2>1. \A x \in Sockets : \A f : Has(up'[x], f) /\ IsFinal(f, r) => Has(up[x], f)
    BY DEF UpStays, Weighs
  <2> QED BY <1>1, <1>3, <2>1, AddressedKept DEF Kept
<1>6. Reasoned(r)'
  BY <1>1, <1>2, <1>3, ReasonedKept DEF Kept, CallStays
<1>7. Placed(r)'
  <2>1. \A k \in Relays : pending'[k][r] \in {pending[k][r], NoEntry}
    BY DEF PendingStays
  <2> QED BY <1>1, <1>3, <2>1, PlacedKept DEF Kept, ServingStays
<1>8. Silenced(r)'
  BY <1>1, <1>2, SilencedKept DEF Kept
<1>9. InHands(r)'
  <2> SUFFICES ASSUME Waiting(r)' PROVE InHands(r)'
    BY DEF InHands
  <2>1. PICK s : s = call[r].socket /\ s = call'[r].socket
    BY DEF CallStays
  <2>2. s \in Sockets
    BY <2>1 DEF CallInv, RequestSound, Called, Waiting
  <2>3. Waiting(r) /\ client'[s] = "open" /\ (call'[r].phase = "sent" => inflight'[r] = s)
    BY <2>1 DEF CallStays
  <2>4. Handled(r, s)
    BY <1>1, <2>1, <2>3 DEF Kept, InHands
  <2>5. Handled(r, s)'
    BY <2>2, <2>3, <2>4, HandledKept DEF ServingStays
  <2>6. Handled(r, call[r].socket)'
    BY <2>1, <2>5 DEF Handled, Entered, Enlisted
  <2> QED BY <2>1, <2>3, <2>6 DEF InHands
<1> QED BY <1>4, <1>5, <1>6, <1>7, <1>8, <1>9 DEF Kept

-----------------------------------------------------------------------------
(* The ground: sockets accepted, lost and enlisted.                        *)

Ground == TopicInv /\ Accepted /\ Enlisting

LEMMA AcceptKeepsGround ==
    ASSUME Ground, NEW s \in Sockets, Accept(s), overlap \subseteq overlap'
    PROVE  GroundStays
<1>1. /\ client[s] = "connecting" /\ remote[s] = "unused" /\ remote'[s] = "open"
      /\ \A x \in Sockets \ {s} : remote'[x] = remote[x]
      /\ UNCHANGED <<client, up, nodes>>
  BY DEF Accept, Ground, TopicInv, WsInv, LinkTypeOK
<1>2. Accepted'
  BY <1>1 DEF Ground, Accepted
<1>3. \A x \in Sockets : Alone(x)' => Alone(x)
  BY <1>1 DEF Alone
<1>4. Enlisting'
  BY <1>1, <1>3 DEF Ground, Enlisting, Enlisted
<1>5. \A x \in Sockets : remote[x] = "closed" => remote'[x] = "closed"
  BY <1>1
<1> QED BY <1>1, <1>2, <1>4, <1>5 DEF GroundStays, Enlisted

LEMMA CloseKeepsGround ==
    ASSUME Ground, NEW s \in Sockets, Close(s), overlap \subseteq overlap'
    PROVE  GroundStays
<1>1. PICK k \in Relays : k = RelayOf(s)
  BY SocketParts
<1>2. PICK n : n = me[s].node
  OBVIOUS
<1>3. n \in {NoNode, Owner(s)}
  BY <1>2 DEF Ground, TopicInv, OwnNames
<1>4. /\ remote[s] = "open" /\ client' = client
      /\ remote' = [remote EXCEPT ![s] = "closed"] /\ up' = [up EXCEPT ![s] = <<>>]
      /\ \/ nodes' = nodes
         \/ n # NoNode /\ nodes' = [nodes EXCEPT ![k][n] = NoSocket]
  BY <1>1, <1>2 DEF Close
<1>5. /\ remote'[s] = "closed"
      /\ \A x \in Sockets \ {s} : remote'[x] = remote[x] /\ up'[x] = up[x]
  BY <1>4 DEF Ground, TopicInv, WsInv, LinkTypeOK
<1>6. Accepted'
  BY <1>4, <1>5 DEF Ground, Accepted
<1>7. ASSUME NEW x \in Sockets, Alone(x)'
      PROVE  Alone(x) /\ up'[x] = up[x] /\ (Enlisted(x)' <=> Enlisted(x))
  <2>1. Alone(x) /\ x # s
    BY <1>4, <1>5, <1>7 DEF Alone
  <2>2. Owner(x) # Owner(s) \/ RelayOf(x) # k
    BY <1>1, <1>4, <2>1 DEF Ground, TopicInv, OverlapSound, Rivals, Alone
  <2>3. PICK h \in Relays, m \in Nodes : h = RelayOf(x) /\ m = Owner(x)
    BY SocketParts
  <2>4. nodes'[h][m] = nodes[h][m]
    BY <1>3, <1>4, <2>2, <2>3 DEF Ground, TopicInv, WsInv, RelayInv, RelayTypes, Registry
  <2> QED BY <1>5, <2>1, <2>3, <2>4 DEF Enlisted
<1>8. Enlisting'
  BY <1>7 DEF Ground, Enlisting
<1>9. \A x \in Sockets : remote[x] = "closed" => remote'[x] = "closed"
  BY <1>5
<1> QED BY <1>4, <1>6, <1>7, <1>8, <1>9 DEF GroundStays

LEMMA CrashKeepsGround ==
    ASSUME Ground, NEW k \in Relays, Crash(k), overlap \subseteq overlap'
    PROVE  GroundStays
<1>1. /\ client' = client
      /\ \A x \in Sockets :
            /\ remote'[x] = remote[x] \/ (remote[x] # "unused" /\ remote'[x] = "closed")
            /\ IF RelayOf(x) = k THEN remote'[x] # "open"
               ELSE remote'[x] = remote[x] /\ up'[x] = up[x]
  BY DEF Crash
<1>2. \A h \in Relays : h # k => nodes'[h] = nodes[h]
  BY DEF Crash, Ground, TopicInv, WsInv, RelayInv, RelayTypes, Registry
<1>3. Accepted'
  BY <1>1 DEF Ground, Accepted
<1>4. ASSUME NEW x \in Sockets, Alone(x)'
      PROVE  Alone(x) /\ up'[x] = up[x] /\ (Enlisted(x)' <=> Enlisted(x))
  BY <1>1, <1>2, <1>4, SocketParts DEF Alone, Enlisted
<1>5. Enlisting'
  BY <1>4 DEF Ground, Enlisting
<1> QED BY <1>1, <1>3, <1>4, <1>5 DEF GroundStays

LEMMA OnMessageKeepsGround ==
    ASSUME Ground, NEW s \in Sockets, OnMessage(s), overlap \subseteq overlap'
    PROVE  GroundStays
<1>1. PICK k \in Relays, n \in Nodes : k = RelayOf(s) /\ n = Owner(s)
  BY SocketParts
<1>2. PICK f : f = Head(up[s])
  OBVIOUS
<1>3. /\ UNCHANGED <<client, remote>> /\ remote[s] = "open" /\ up[s] # <<>>
      /\ up[s] \in Seq(Frames) /\ \A x \in Sockets \ {s} : up'[x] = up[x]
  BY OnMessageTells DEF Ground, TopicInv
<1>4. nodes' = IF f.type = "hello" THEN [nodes EXCEPT ![k][n] = s] ELSE nodes
  <2>1. CASE OnHello(s)
    <3>1. f.type = "hello"
      BY <1>2, <2>1 DEF OnHello, Reads
    <3>2. f.node = n /\ me[s].node \in {NoNode, n}
      <4>1. f = up[s][1] /\ 1 \in DOMAIN up[s]
        BY <1>2, <1>3
      <4> QED BY <1>1, <3>1, <4>1 DEF Ground, TopicInv, OwnNames
    <3> QED BY <1>1, <1>2, <2>1, <3>1, <3>2 DEF OnHello
  <2>2. CASE OnSubscribe(s) \/ OnUnsubscribe(s) \/ OnResponse(s) \/ OnRequest(s) \/ OnCancel(s)
             \/ OnPublish(s)
    <3>1. f.type # "hello"
      BY <1>2, <2>2 DEF OnSubscribe, OnUnsubscribe, OnResponse, OnRequest, OnCancel, OnPublish, Reads
    <3>2. nodes' = nodes
      BY <2>2 DEF OnSubscribe, OnUnsubscribe, OnResponse, OnRequest, OnCancel, OnPublish, relayVars
    <3> QED BY <3>1, <3>2
  <2> QED BY <2>1, <2>2 DEF OnMessage
<1>5. Accepted'
  BY <1>3 DEF Ground, Accepted
<1>6. \A h \in Relays, m \in Nodes :
         nodes'[h][m] = IF f.type = "hello" /\ h = k /\ m = n THEN s ELSE nodes[h][m]
  BY <1>4 DEF Ground, TopicInv, WsInv, RelayInv, RelayTypes, Registry
<1>7. ASSUME NEW x \in Sockets, Alone(x)'
      PROVE  /\ Alone(x) /\ (Enlisted(x) => Enlisted(x)')
             /\ IF x = s THEN f.type = "hello" => Enlisted(x)'
                ELSE Enlisted(x)' <=> Enlisted(x)
  <2>1. Alone(x)
    BY <1>3, <1>7 DEF Alone
  <2>2. PICK h \in Relays, m \in Nodes : h = RelayOf(x) /\ m = Owner(x)
    BY SocketParts
  <2>3. x # s => h # k \/ m # n
    BY <1>1, <1>3, <2>1, <2>2 DEF Ground, TopicInv, OverlapSound, Rivals, Alone
  <2> QED BY <1>1, <1>6, <2>1, <2>2, <2>3 DEF Enlisted
<1>8. Enlisting'
  <2> SUFFICES ASSUME NEW x \in Sockets, Alone(x)'
               PROVE  Enlisted(x)' \/ (up'[x] # <<>> /\ Head(up'[x]).type = "hello")
    BY DEF Enlisting
  <2>1. Alone(x)
    BY <1>7
  <2>2. Enlisted(x) \/ (up[x] # <<>> /\ Head(up[x]).type = "hello")
    BY <2>1 DEF Ground, Enlisting
  <2> QED BY <1>2, <1>3, <1>7, <2>2
<1> QED BY <1>3, <1>5, <1>7, <1>8 DEF GroundStays

LEMMA RelayKeepsGround ==
    ASSUME Ground, RelayActs
    PROVE  GroundStays
<1>1. RelayStep /\ overlap \subseteq overlap'
  BY DEF RelayActs
<1> QED BY <1>1, AcceptKeepsGround, CloseKeepsGround, CrashKeepsGround, OnMessageKeepsGround
        DEF RelayStep

\* A node writes behind what is there, and first of all its hello.
LEMMA WritingKeepsGround ==
    ASSUME Ground, UNCHANGED <<remote, nodes, overlap>>,
           \A x \in Sockets :
              /\ client[x] = "closed" => client'[x] = "closed"
              /\ client'[x] = "open" =>
                    \/ client[x] = "open"
                    \/ /\ remote[x] # "unused"
                       /\ remote[x] = "open" => up'[x] # <<>> /\ Head(up'[x]).type = "hello"
              /\ \/ up'[x] = up[x]
                 \/ \E frames \in Seq(Frames) : up'[x] = up[x] \o frames
    PROVE  GroundStays
<1>1. Accepted'
  BY DEF Ground, Accepted
<1>2. \A x \in Sockets : Enlisted(x)' <=> Enlisted(x)
  BY DEF Enlisted
<1>3. Enlisting'
  <2> SUFFICES ASSUME NEW x \in Sockets, Alone(x)'
               PROVE  Enlisted(x) \/ (up'[x] # <<>> /\ Head(up'[x]).type = "hello")
    BY <1>2 DEF Enlisting
  <2>1. CASE client[x] # "open"
    BY <2>1 DEF Alone
  <2>2. CASE client[x] = "open"
    <3>1. Enlisted(x) \/ (up[x] # <<>> /\ Head(up[x]).type = "hello")
      BY <2>2 DEF Alone, Ground, Enlisting
    <3>2. ASSUME NEW frames \in Seq(Frames), up'[x] = up[x] \o frames, up[x] # <<>>
          PROVE  up'[x] # <<>> /\ Head(up'[x]) = Head(up[x])
      <4>1. PICK queue \in Seq(Frames) : queue = up[x]
        BY DEF Ground, TopicInv, WsInv, LinkTypeOK
      <4>2. PICK m \in Nat, l \in Nat : m = Len(queue) /\ l = Len(frames)
        OBVIOUS
      <4>3. m > 0
        BY <3>2, <4>1, <4>2, EmptySeq
      <4>4. PICK more : more = queue \o frames
        OBVIOUS
      <4>5. more \in Seq(Frames) /\ Len(more) = m + l /\ more[1] = queue[1]
        BY <4>2, <4>3, <4>4
      <4>6. more # <<>>
        BY <4>2, <4>3, <4>5
      <4> QED BY <3>2, <4>1, <4>4, <4>5, <4>6
    <3> QED BY <3>1, <3>2
  <2> QED BY <2>1, <2>2
<1> QED BY <1>1, <1>2, <1>3 DEF GroundStays

\* Frames that a node has ready to write.
LEMMA AppendWrites ==
    ASSUME NEW queue \in Seq(Frames), NEW f \in Frames, NEW more, more = Append(queue, f)
    PROVE  \E frames \in Seq(Frames) : more = queue \o frames
<1>1. PICK frames \in Seq(Frames) : frames = <<f>>
  BY OneFrame
<1> QED BY <1>1, ConcatFrames

\* A socket that a node opens has not been used.
LEMMA DialsFresh ==
    ASSUME NEW n \in Nodes, NEW k \in Relays, Dial(n, k)
    PROVE  client[<<n, k, Min(Fresh(n, k))>>] = "unused"
<1>1. PICK j : j = Min(Fresh(n, k))
  OBVIOUS
<1>2. j \in Fresh(n, k)
  <2>1. PICK F : F = Fresh(n, k)
    OBVIOUS
  <2>2. PICK m \in Nat : m = MaxSockets[n]
    BY WsLinkAssumption
  <2>3. F \in SUBSET (1..m) /\ \A i \in 1..m : i \in Nat
    BY <2>1, <2>2 DEF Fresh
  <2>4. IsFiniteSet(1..m)
    BY FS_Interval
  <2>5. IsFiniteSet(F) /\ F \in SUBSET Nat
    BY <2>3, <2>4, FS_Subset
  <2>6. F # {}
    BY <2>1 DEF Dial
  <2> QED BY <1>1, <2>1, <2>5, <2>6, LeastExists
<1>3. client[<<n, k, j>>] = "unused"
  BY <1>2 DEF Fresh
<1> QED BY <1>1, <1>3

\* No node but one that opens a socket changes its ends, and none but by losing it.
LEMMA NodeWrites ==
    ASSUME WsInv, NEW n \in Nodes, NodeStep(n), \A k \in Relays : ~Opened(n, k)
    PROVE  \A x \in Sockets :
              /\ client[x] = "closed" => client'[x] = "closed"
              /\ client'[x] = "open" => client[x] = "open"
              /\ \/ up'[x] = up[x]
                 \/ \E frames \in Seq(Frames) : up'[x] = up[x] \o frames
<1> DEFINE Goal == \A x \in Sockets :
              /\ client[x] = "closed" => client'[x] = "closed"
              /\ client'[x] = "open" => client[x] = "open"
              /\ \/ up'[x] = up[x]
                 \/ \E frames \in Seq(Frames) : up'[x] = up[x] \o frames
<1>1. /\ LinkTypeOK /\ NodeInv /\ client \in [Sockets -> ClientStates]
      /\ \A x \in Sockets : up[x] \in Seq(Frames)
  BY DEF WsInv, LinkTypeOK
<1>2. ASSUME NEW frames \in Seq(Frames), SendAll(n, frames), client' = client PROVE Goal
  BY <1>1, <1>2, SendAllType
<1>3. ASSUME NEW s \in Sockets, NEW f \in Frames, SendOn(s, f), client' = client PROVE Goal
  <2>1. \A x \in Sockets : up'[x] = up[x] \/ up'[x] = Append(up[x], f)
    BY <1>1, <1>3, SendOnType
  <2>2. ASSUME NEW x \in Sockets
        PROVE  up'[x] = up[x] \/ \E frames \in Seq(Frames) : up'[x] = up[x] \o frames
    <3>1. PICK queue \in Seq(Frames) : queue = up[x]
      BY <1>1
    <3>2. PICK more : more = up'[x]
      OBVIOUS
    <3>3. more = queue \/ more = Append(queue, f)
      BY <2>1, <3>1, <3>2
    <3>4. more = Append(queue, f) => \E frames \in Seq(Frames) : more = queue \o frames
      BY AppendWrites
    <3> QED BY <3>1, <3>2, <3>3, <3>4
  <2> QED BY <1>3, <2>2
<1>4. ASSUME NEW k \in Relays, Connect(n, k) \/ Reconnect(n, k) PROVE Goal
  <2>1. Dial(n, k)
    BY <1>4 DEF Connect, Reconnect
  <2>2. PICK s : s = <<n, k, Min(Fresh(n, k))>>
    OBVIOUS
  <2>3. up' = up /\ Fresh(n, k) # {} /\ client' = [client EXCEPT ![s] = "connecting"]
    BY <2>1, <2>2 DEF Dial, CreateSocket
  <2>4. client[s] = "unused"
    BY <1>1, <2>1, <2>2, DialsFresh
  <2>5. \A x \in Sockets : \/ client'[x] = client[x]
                           \/ x = s /\ client[x] = "unused" /\ client'[x] = "connecting"
    BY <1>1, <2>3, <2>4
  <2> QED BY <2>3, <2>5
<1>5. ASSUME NEW k \in Relays, Lost(n, k) \/ CloseUrl(n, k) PROVE Goal
  <2>1. up' = up /\ (client' = client \/ \E s : client' = [client EXCEPT ![s] = "closed"])
    BY <1>5 DEF Lost, CloseUrl, Finalized, Disconnected
  <2>2. \A x \in Sockets : client'[x] = client[x] \/ client'[x] = "closed"
    BY <1>1, <2>1
  <2> QED BY <2>1, <2>2
<1>6. ASSUME NEW k \in Relays,
             \/ HelloArrives(n, k) \/ OfflineArrives(n, k) \/ ResponseArrives(n, k)
             \/ RequestArrives(n, k) \/ CancelArrives(n, k) \/ PublishArrives(n, k)
      PROVE  Goal
  BY <1>6 DEF HelloArrives, OfflineArrives, ResponseArrives, RequestArrives, CancelArrives,
              PublishArrives, nodeVars
<1>7. ASSUME NEW services \in SUBSET Services, Announce(n, services) PROVE Goal
  <2>1. PICK frames \in Seq(Frames) : frames = Announcement(n, services)
    BY <1>1, AnnouncementType
  <2>2. SendAll(n, frames) /\ client' = client
    BY <1>7, <2>1 DEF Announce
  <2> QED BY <1>2, <2>2
<1>8. ASSUME NEW r \in Requests,
             \/ \E v \in Services, d \in Nodes \cup {NoNode} : Send(n, r, v, d)
             \/ CallerOf[r] = n /\ Resolve(r)
             \/ CancelCall(n, r)
             \/ \E end \in {"more", "completed"} : Reply(n, r, end)
      PROVE  Goal
  <2>1. \/ up' = up
        \/ \E s : \E f \in Frames : SendOn(s, f)
    <3>1. CASE \E v \in Services, d \in Nodes \cup {NoNode} : Send(n, r, v, d)
      <4>1. PICK v \in Services, d \in Nodes \cup {NoNode} : Send(n, r, v, d)
        BY <3>1
      <4>2. \E s \in RpcSockets(n, d) : SendOn(s, Request(r, v, d))
        BY <4>1 DEF Send
      <4>3. Request(r, v, d) \in Frames
        BY FrameTypes
      <4> QED BY <4>2, <4>3
    <3>2. CASE Resolve(r)
      BY <3>2 DEF Resolve
    <3>3. CASE CancelCall(n, r)
      <4>1. SendOn(call[r].socket, Cancel(r)) /\ Cancel(r) \in Frames
        BY <3>3, FrameTypes DEF CancelCall
      <4> QED BY <4>1
    <3>4. ASSUME NEW end \in {"more", "completed"}, Reply(n, r, end)
          PROVE  up' = up \/ \E s : \E f \in Frames : SendOn(s, f)
      <4>1. PICK d \in Nodes : d = CallerOf[r]
        BY WsLinkAssumption
      <4>2. up' = up \/ \E s \in RpcSockets(n, d) : SendOn(s, Response(r, n, d, end))
        BY <3>4, <4>1 DEF Reply
      <4>3. Response(r, n, d, end) \in Frames
        BY FrameTypes DEF Ends
      <4> QED BY <4>2, <4>3
    <3> QED BY <1>8, <3>1, <3>2, <3>3, <3>4
  <2>2. client' = client
    BY <1>8 DEF Send, Resolve, CancelCall, Reply
  <2>3. ASSUME NEW s, NEW f \in Frames, SendOn(s, f), s \notin Sockets PROVE Goal
    <3>1. client[s] = client[s] /\ \A x \in Sockets : up'[x] = up[x]
      BY <1>1, <2>3 DEF SendOn, LinkTypeOK
    <3> QED BY <2>2, <3>1
  <2> QED BY <1>3, <2>1, <2>2, <2>3
<1>9. ASSUME NEW t \in Topics,
             Listen(n, t) \/ Unlisten(n, t) \/ LingerEnds(n, t) \/ PublishTo(n, t)
      PROVE  Goal
  <2>1. client' = client /\ (up' = up \/ \E f \in Frames : SendAll(n, <<f>>))
    <3>1. CASE Listen(n, t)
      <4>1. Listened(n) \cup {t} \in SUBSET Topics
        BY DEF Listened
      <4>2. Subscribe(Listened(n) \cup {t}) \in Frames
        BY <4>1, FrameTypes
      <4> QED BY <3>1, <4>2 DEF Listen
    <3>2. CASE Unlisten(n, t)
      BY <3>2 DEF Unlisten, linkVars
    <3>3. CASE LingerEnds(n, t)
      BY <3>3, FrameTypes DEF LingerEnds
    <3>4. CASE PublishTo(n, t)
      BY <3>4, FrameTypes DEF PublishTo
    <3> QED BY <1>9, <3>1, <3>2, <3>3, <3>4
  <2>2. ASSUME NEW f \in Frames, SendAll(n, <<f>>) PROVE Goal
    <3>1. PICK frames \in Seq(Frames) : frames = <<f>>
      BY OneFrame
    <3> QED BY <1>2, <2>1, <2>2, <3>1
  <2> QED BY <2>1, <2>2
<1> QED BY <1>4, <1>5, <1>6, <1>7, <1>8, <1>9 DEF NodeStep

LEMMA OpenedKeepsGround ==
    ASSUME Ground, NEW n \in Nodes, NEW k \in Relays, Opened(n, k), UNCHANGED <<relayVars, overlap>>
    PROVE  GroundStays
<1>1. PICK s : s = conn[n][k].socket
  OBVIOUS
<1>2. PICK services \in SUBSET Services : services = local[n].services
  BY DEF Ground, TopicInv, WsInv, NodeInv, NodeTypes
<1>3. PICK frames \in Seq(Frames) : frames = Announcement(n, services)
  BY AnnouncementType DEF Ground, TopicInv, WsInv
<1>4. /\ conn[n][k].phase = "connecting" /\ remote[s] # "unused"
      /\ client' = [client EXCEPT ![s] = "open"]
      /\ up' = [t \in Sockets |-> IF t \in OpenSockets(n) \cup {s} /\ remote[t] = "open"
                                  THEN up[t] \o frames ELSE up[t]]
      /\ UNCHANGED remote
  BY <1>1, <1>2, <1>3 DEF Opened
<1>5. s \in Sockets /\ client[s] = "connecting" /\ up[s] = <<>>
  BY <1>1, <1>4 DEF Ground, TopicInv, WsInv, NodeInv, ConnSound, Live
<1>6. client'[s] = "open" /\ \A x \in Sockets \ {s} : client'[x] = client[x]
  BY <1>4, <1>5 DEF Ground, TopicInv, WsInv, LinkTypeOK
<1>7. remote[s] = "open" => up'[s] # <<>> /\ Head(up'[s]).type = "hello"
  <2>1. PICK f \in Frames, g \in Frames :
            /\ f = Hello(n, f.services) /\ f.type = "hello"
            /\ g = Subscribe(Listened(n)) /\ g.type = "subscribe"
            /\ \A t : Tells(g, t) /\ (Says(g, t) <=> t \in Listened(n))
            /\ \A queue \in Seq(Frames) :
                  queue \o Announcement(n, services) =
                     IF Topics = {} THEN Append(queue, f) ELSE Append(Append(queue, f), g)
    BY AnnouncementSays DEF Ground, TopicInv, WsInv
  <2>2. PICK none \in Seq(Frames) : none = up[s] /\ none = <<>>
    BY <1>5 DEF Ground, TopicInv, WsInv, LinkTypeOK
  <2>3. PICK one \in Seq(Frames) : one = Append(none, f) /\ Len(one) = 1 /\ one[1] = f
    <3>1. Len(none) = 0
      BY <2>2, EmptySeq
    <3>2. PICK one : one = Append(none, f)
      OBVIOUS
    <3>3. one \in Seq(Frames) /\ Len(one) = 1 /\ one[1] = f
      BY <3>1, <3>2
    <3> QED BY <3>2, <3>3
  <2>4. PICK two \in Seq(Frames) : two = Append(one, g) /\ Len(two) = 2 /\ two[1] = f
    <3>1. PICK two : two = Append(one, g)
      OBVIOUS
    <3>2. two \in Seq(Frames) /\ Len(two) = 2 /\ two[1] = f
      BY <2>3, <3>1
    <3> QED BY <3>1, <3>2
  <2>5. none \o frames = one \/ none \o frames = two
    BY <1>3, <2>1, <2>2, <2>3, <2>4
  <2>6. one # <<>> /\ Head(one) = f /\ two # <<>> /\ Head(two) = f
    BY <2>3, <2>4
  <2>7. remote[s] = "open" => up'[s] = none \o frames
    BY <1>4, <1>5, <2>2
  <2> QED BY <2>1, <2>5, <2>6, <2>7
<1>8. \A x \in Sockets : up'[x] = up[x] \/ \E letter \in Seq(Frames) : up'[x] = up[x] \o letter
  BY <1>4
<1>9. UNCHANGED nodes
  BY DEF relayVars
<1> QED BY <1>4, <1>5, <1>6, <1>7, <1>8, <1>9, WritingKeepsGround

LEMMA NodeKeepsGround ==
    ASSUME Ground, NodeActs
    PROVE  GroundStays
<1>1. PICK n \in Nodes : NodeStep(n)
  BY DEF NodeActs
<1>2. UNCHANGED <<relayVars, overlap, remote>>
  BY <1>1, NodeLeavesRemote DEF NodeActs
<1>3. CASE \E k \in Relays : Opened(n, k)
  BY <1>2, <1>3, OpenedKeepsGround
<1>4. CASE \A k \in Relays : ~Opened(n, k)
  <2>1. UNCHANGED nodes
    BY <1>2 DEF relayVars
  <2> QED BY <1>1, <1>2, <1>4, <2>1, NodeWrites, WritingKeepsGround DEF Ground, TopicInv
<1> QED BY <1>3, <1>4

-----------------------------------------------------------------------------
(* What a relay writes about a request.                                    *)

LEMMA WriteStays ==
    ASSUME LinkTypeOK, NEW readyState, NEW frames \in Letters, Write(readyState, frames), NEW r,
           \A x \in Sockets : ForeignAll(frames[x], r)
    PROVE  DownStays(r)
<1>1. \A x \in Sockets : frames[x] \in Seq(Frames) /\ (down'[x] = down[x] \/ down'[x] = down[x] \o frames[x])
  BY Written
<1>2. ASSUME NEW x \in Sockets
      PROVE  \/ down'[x] = down[x]
             \/ \E more \in Seq(Frames) : down'[x] = down[x] \o more /\ ForeignAll(more, r)
  BY <1>1
<1> QED BY <1>2, DownStay

-----------------------------------------------------------------------------
(* Steps of a relay that leave a request where it is.                      *)

LEMMA RelayCalm ==
    ASSUME HandsInv, CallInv', GroundStays, UNCHANGED <<nodeVars, client>>, NEW r \in Requests,
           UpStays(r), DownStays(r), PendingStays(r)
    PROVE  Kept(r)'
<1>1. ServingStays(r) /\ CallStays(r)
  BY DEF nodeVars, ServingStays, CallStays, Waiting, HandsInv, Kept, InHands
<1> QED BY <1>1, CalmKeeps

LEMMA ReadStays ==
    ASSUME LinkTypeOK, NEW s \in Sockets, NEW type, Reads(s, type), NEW r,
           ~Weighs(Head(up[s]), r)
    PROVE  UpStays(r)
<1>1. up[s] # <<>> /\ up'[s] = Tail(up[s]) /\ \A x \in Sockets \ {s} : up'[x] = up[x]
  BY ReadType
<1> QED BY <1>1, UpStay

LEMMA AcceptKeepsHands ==
    ASSUME HandsInv, CallInv', GroundStays, NEW s \in Sockets, Accept(s), UNCHANGED nodeVars,
           NEW r \in Requests
    PROVE  Kept(r)'
<1>1. /\ UNCHANGED <<client, up, pending>>
      /\ \A x \in Sockets \ {s} : down'[x] = down[x]
      /\ down'[s] = down[s] \o Directory(s, nodes, me)
  BY DEF Accept, HandsInv, CallInv, WsInv, LinkTypeOK
<1>2. LinkTypeOK /\ nodes \in Registry /\ me \in Metadata
  BY DEF HandsInv, CallInv, WsInv, RelayInv, RelayTypes
<1>3. PICK frames \in Seq(Frames) : frames = Directory(s, nodes, me)
  BY <1>2, DirectoryType
<1>4. ForeignAll(frames, r)
  BY <1>2, <1>3, DirectoryHellos, HellosForeign
<1>5. DownStays(r)
  BY <1>1, <1>2, <1>3, <1>4, DownStay
<1>6. UpStays(r)
  BY <1>1, <1>2, UpStay
<1> QED BY <1>1, <1>5, <1>6, RelayCalm DEF PendingStays

LEMMA CrashKeepsHands ==
    ASSUME HandsInv, CallInv', GroundStays, NEW k \in Relays, Crash(k), UNCHANGED nodeVars,
           NEW r \in Requests
    PROVE  Kept(r)'
<1>1. /\ UNCHANGED <<client, down>>
      /\ \A x \in Sockets : RelayOf(x) = k => remote'[x] # "open"
      /\ \A x \in Sockets : up'[x] = up[x] \/ (up'[x] = <<>> /\ remote'[x] # "open")
  BY DEF Crash
<1>2. LinkTypeOK
  BY DEF HandsInv, CallInv, WsInv
<1>3. \A h \in Relays : pending'[h][r] = IF h = k THEN NoEntry ELSE pending[h][r]
  BY DEF Crash, HandsInv, CallInv, WsInv, RelayInv, RelayTypes
<1>4. UpStays(r) /\ DownStays(r)
  BY <1>1, <1>2, UpStay, DownStay
<1>5. PendingStays(r)
  BY <1>1, <1>3 DEF PendingStays
<1> QED BY <1>1, <1>4, <1>5, RelayCalm

\* A frame that is not what the caller waits for is read, and nothing about the request written.
LEMMA ReadingKeepsHands ==
    ASSUME HandsInv, CallInv', GroundStays, NEW s \in Sockets, NEW type, Reads(s, type),
           UNCHANGED <<nodeVars, client, remote>>, NEW r \in Requests,
           ~Weighs(Head(up[s]), r), \A k \in Relays : pending'[k][r] = pending[k][r],
           \/ UNCHANGED down
           \/ \E letters \in Letters :
                 Deliver(letters) /\ \A x \in Sockets : ForeignAll(letters[x], r)
    PROVE  Kept(r)'
<1>1. LinkTypeOK
  BY DEF HandsInv, CallInv, WsInv
<1>2. UpStays(r)
  BY <1>1, ReadStays
<1>3. DownStays(r)
  BY <1>1, DownStay, WriteStays DEF Deliver
<1> QED BY <1>2, <1>3, RelayCalm DEF PendingStays

LEMMA OnHelloKeepsHands ==
    ASSUME HandsInv, CallInv', GroundStays, NEW s \in Sockets, OnHello(s), UNCHANGED nodeVars,
           NEW r \in Requests
    PROVE  Kept(r)'
<1>1. LinkTypeOK /\ nodes \in Registry /\ me \in Metadata
  BY DEF HandsInv, CallInv, WsInv, RelayInv, RelayTypes
<1>2. PICK f \in Frames : f = Head(up[s]) /\ f.type = "hello"
  BY <1>1, ReadType DEF OnHello
<1>3. PICK n \in Nodes, services \in SUBSET Services : n = f.node /\ services = f.services
  BY <1>2, FrameParts
<1>4. PICK k \in Relays : k = RelayOf(s)
  BY SocketParts
<1>5. PICK was \in Nodes \cup {NoNode} : was = me[s].node
  BY <1>1 DEF Metadata
<1>6. PICK moved \in BOOLEAN : moved = (was \notin {NoNode, n})
  OBVIOUS
<1>7. PICK kept \in Registry : kept = IF moved THEN [nodes EXCEPT ![k][was] = NoSocket] ELSE nodes
  BY <1>1, <1>6 DEF Registry
<1>8. PICK registered \in Registry : registered = [kept EXCEPT ![k][n] = s]
  BY <1>7 DEF Registry
<1>9. PICK metadata \in Metadata : metadata = [me EXCEPT ![s] = [node |-> n, services |-> services]]
  BY <1>1, <1>3 DEF Metadata
<1>10. PICK left \in Letters : /\ left = IF moved THEN Broadcast(Offline(was), s) ELSE Silence
                               /\ \A x \in Sockets : ForeignAll(left[x], r)
  <2>1. CASE moved
    <3>1. PICK g \in Frames : g = Offline(was) /\ g.type = "offline"
      BY <1>6, <2>1, FrameTypes DEF Offline
    <3>2. Foreign(g, r)
      BY <3>1 DEF Foreign, IsOf, IsFinal
    <3> QED BY <2>1, <3>1, <3>2, LettersAreSent, LettersForeign
  <2>2. CASE ~moved
    BY <2>2, LettersAreSent, LettersForeign
  <2> QED BY <2>1, <2>2
<1>11. PICK synced \in Letters :
          /\ synced = IF ShouldSync(k, n, services) THEN Sync(k, registered, metadata) ELSE Silence
          /\ \A x \in Sockets : ForeignAll(synced[x], r)
  <2>1. PICK all \in Letters : all = Sync(k, registered, metadata)
    BY SyncType
  <2>2. \A x \in Sockets : ForeignAll(all[x], r)
    BY <2>1, SyncForeign
  <2>3. CASE ShouldSync(k, n, services)
    BY <2>1, <2>2, <2>3
  <2>4. CASE ~ShouldSync(k, n, services)
    BY <2>4, LettersAreSent, LettersForeign
  <2> QED BY <2>3, <2>4
<1>12. PICK letters \in Letters : letters = Also(left, synced)
  BY LettersAreSent
<1>13. Reads(s, "hello") /\ UNCHANGED <<client, remote, pending>> /\ Deliver(letters)
  BY <1>2, <1>3, <1>4, <1>5, <1>6, <1>7, <1>8, <1>9, <1>10, <1>11, <1>12 DEF OnHello
<1>14. \A x \in Sockets : ForeignAll(letters[x], r)
  BY <1>10, <1>11, <1>12, LettersForeign
<1>15. ~Weighs(f, r)
  BY <1>2 DEF Weighs, IsOf, IsFinal
<1> QED BY <1>2, <1>13, <1>14, <1>15, ReadingKeepsHands

LEMMA OnPublishKeepsHands ==
    ASSUME HandsInv, CallInv', GroundStays, NEW s \in Sockets, OnPublish(s), UNCHANGED nodeVars,
           NEW r \in Requests
    PROVE  Kept(r)'
<1>1. PICK f \in Frames : f = Head(up[s]) /\ f.type = "publish"
  BY ReadType DEF OnPublish, HandsInv, CallInv, WsInv
<1>2. PICK receivers : receivers = {nodes[RelayOf(s)][n] : n \in listeners[RelayOf(s)][f.topic]}
  OBVIOUS
<1>3. PICK letters : letters = [t \in Sockets |-> IF me[s].node # NoNode /\ t \in receivers
                                                  THEN <<f>> ELSE <<>>]
  OBVIOUS
<1>4. letters \in Letters
  <2>1. <<f>> \in Seq(Frames) /\ <<>> \in Seq(Frames)
    OBVIOUS
  <2> QED BY <1>3, <2>1 DEF Letters
<1>5. Deliver(letters) /\ Reads(s, "publish") /\ UNCHANGED <<client, remote, pending>>
  BY <1>1, <1>2, <1>3 DEF OnPublish, relayVars
<1>6. \A x \in Sockets : ForeignAll(letters[x], r)
  <2>1. ForeignAll(<<f>>, r) /\ ForeignAll(<<>>, r)
    BY <1>1, OneIsForeign, HoldsEmpty DEF ForeignAll
  <2> QED BY <1>3, <2>1
<1>7. ~Weighs(f, r)
  BY <1>1 DEF Weighs, IsOf, IsFinal
<1> QED BY <1>1, <1>4, <1>5, <1>6, <1>7, ReadingKeepsHands

LEMMA OnTopicKeepsHands ==
    ASSUME HandsInv, CallInv', GroundStays, NEW s \in Sockets,
           OnSubscribe(s) \/ OnUnsubscribe(s), UNCHANGED nodeVars, NEW r \in Requests
    PROVE  Kept(r)'
<1>1. UNCHANGED <<client, remote, down, pending>>
  BY DEF OnSubscribe, OnUnsubscribe
<1>2. Reads(s, "subscribe") \/ Reads(s, "unsubscribe")
  BY DEF OnSubscribe, OnUnsubscribe
<1>3. ~Weighs(Head(up[s]), r)
  BY <1>2 DEF Reads, Weighs, IsOf, IsFinal
<1> QED BY <1>1, <1>2, <1>3, ReadingKeepsHands

-----------------------------------------------------------------------------
(* Steps about the request itself.                                         *)

\* What is left to show when nothing about the request is made up.
LEMMA KeptWith ==
    ASSUME HandsInv, GroundStays, NEW r \in Requests, InHands(r)', Addressed(r)',
           call'[r].phase # "idle" => call[r].phase # "idle",
           call[r].phase # "idle" => call'[r].socket = call[r].socket,
           call[r].phase = "cancelled" => call'[r].phase = "cancelled",
           \A k \in Relays : pending'[k][r] \in {pending[k][r], NoEntry},
           \A x \in Sockets :
              /\ Holds(down'[x], "request", r) => Holds(down[x], "request", r)
              /\ Holds(down'[x], "cancel", r) =>
                    \/ Holds(down[x], "cancel", r)
                    \/ call'[r].phase = "cancelled" \/ remote'[call'[r].socket] = "closed",
           serving'[r].by = NoNode \/ ServingStays(r)
    PROVE  Kept(r)'
<1>1. Kept(r) /\ CallInv
  BY DEF HandsInv
<1>2. \A x \in Sockets : /\ client[x] = "closed" => client'[x] = "closed"
                         /\ remote[x] = "closed" => remote'[x] = "closed"
  BY DEF GroundStays
<1>3. Owned(r)'
  BY <1>1 DEF Kept, Owned
<1>4. Reasoned(r)'
  BY <1>1, <1>2, ReasonedKept DEF Kept
<1>5. Placed(r)'
  BY <1>1, PlacedKept DEF Kept, ServingStays
<1>6. Silenced(r)'
  BY <1>1, <1>2, SilencedKept DEF Kept
<1> QED BY <1>3, <1>4, <1>5, <1>6 DEF Kept

\* The last frame of an answer, if it is addressed to the caller, is for its socket.
LEMMA FinalRead ==
    ASSUME HandsInv, NEW s \in Sockets, up[s] # <<>>, NEW r \in Requests, IsFinal(Head(up[s]), r)
    PROVE  /\ HoldsFinal(up[s], r) /\ Head(up[s]).destination = CallerOf[r]
           /\ ~NoFinal(r) /\ \A x \in Sockets : ~Holds(up[x], "request", r)
<1>1. PICK queue \in Seq(Frames) : queue = up[s]
  BY DEF HandsInv, CallInv, WsInv, LinkTypeOK
<1>2. Has(queue, Head(queue))
  BY <1>1, HasChanges
<1>3. HoldsFinal(up[s], r)
  BY <1>1, <1>2, HoldsHas
<1>4. Head(up[s]).destination = CallerOf[r]
  BY <1>1, <1>2 DEF HandsInv, Kept, Addressed
<1> QED BY <1>3, <1>4 DEF NoFinal, HandsInv, CallInv, RequestSound, GoingUp

LEMMA RegisteredOwner ==
    ASSUME TopicInv, NEW k \in Relays, NEW n \in Nodes, nodes[k][n] # NoSocket
    PROVE  /\ nodes[k][n] \in Sockets /\ Owner(nodes[k][n]) = n /\ RelayOf(nodes[k][n]) = k
           /\ remote[nodes[k][n]] = "open"
<1>1. PICK x : x = nodes[k][n]
  OBVIOUS
<1>2. x \in Sockets /\ RelayOf(x) = k /\ remote[x] = "open" /\ me[x].node = n
  BY <1>1 DEF TopicInv, WsInv, RelayInv, Registered, LiveAt
<1>3. n # NoNode
  BY WsLinkAssumption
<1>4. Owner(x) = n
  BY <1>2, <1>3 DEF TopicInv, OwnNames
<1> QED BY <1>1, <1>2, <1>4

LEMMA OnResponseKeepsHands ==
    ASSUME NEW only, Relays = {only},
           HandsInv, CallInv', GroundStays, NEW s \in Sockets, OnResponse(s), UNCHANGED nodeVars,
           NEW r \in Requests
    PROVE  Kept(r)'
<1>1. PICK f \in Frames : f = Head(up[s]) /\ f.type = "response" /\ f.request \in Requests
                          /\ f.destination \in Nodes \cup {NoNode}
  BY ReadType, FrameParts DEF OnResponse, HandsInv, CallInv, WsInv
<1>2. PICK k \in Relays : k = RelayOf(s)
  BY SocketParts
<1>3. PICK target : target = IF f.destination = NoNode THEN NoSocket ELSE nodes[k][f.destination]
  OBVIOUS
<1>4. PICK letters : letters = IF IsOpen(target) THEN To(target, f) ELSE Silence
  OBVIOUS
<1>5. letters \in Letters
  BY <1>4, LettersAreSent
<1>6. /\ Reads(s, "response") /\ UNCHANGED <<client, remote>> /\ Deliver(letters)
      /\ \/ pending' = pending
         \/ f.end # "more" /\ pending' = [pending EXCEPT ![k][f.request] = NoEntry]
  BY <1>1, <1>2, <1>3, <1>4 DEF OnResponse
<1>7. ASSUME ~IsFinal(f, r) PROVE Kept(r)'
  <2>1. Foreign(f, r) /\ ~Weighs(f, r)
    BY <1>1, <1>7 DEF Foreign, Weighs, IsOf, IsFinal
  <2>2. \A x \in Sockets : ForeignAll(letters[x], r)
    BY <1>4, <2>1, LettersForeign
  <2>3. r # f.request \/ f.end = "more"
    BY <1>1, <1>7 DEF IsFinal, IsOf
  <2>4. \A h \in Relays : pending'[h][r] = pending[h][r]
    BY <1>6, <2>3 DEF HandsInv, CallInv, WsInv, RelayInv, RelayTypes
  <2> QED BY <1>1, <1>5, <1>6, <2>1, <2>2, <2>4, ReadingKeepsHands
<1>8. ASSUME IsFinal(f, r) PROVE Kept(r)'
  <2>1. /\ up[s] \in Seq(Frames) /\ up[s] # <<>> /\ up'[s] = Tail(up[s])
        /\ \A x \in Sockets \ {s} : up'[x] = up[x]
    BY <1>6, ReadType DEF HandsInv, CallInv, WsInv, LinkTypeOK
  <2>2. f.destination = CallerOf[r] /\ \A x \in Sockets : ~Holds(up[x], "request", r)
    BY <1>1, <1>8, <2>1, FinalRead
  <2>3. \A x \in Sockets : \A g : Has(up'[x], g) => Has(up[x], g)
    BY <2>1, HasChanges
  <2>4. UNCHANGED <<call, inflight, serving>>
    BY DEF nodeVars
  <2>5. PICK n \in Nodes : n = CallerOf[r] /\ n # NoNode
    BY WsLinkAssumption
  <2>6. target = nodes[k][n]
    BY <1>3, <2>2, <2>5
  <2>7. ASSUME NEW x \in Sockets
        PROVE  /\ letters[x] \in Seq(Frames) /\ down[x] \in Seq(Frames)
               /\ down'[x] = IF remote[x] = "open" /\ client[x] # "closed"
                             THEN down[x] \o letters[x] ELSE down[x]
    BY <1>5, <1>6, Written DEF Deliver, HandsInv, CallInv, WsInv
  <2>8. ASSUME NEW x \in Sockets
        PROVE  /\ ~Holds(letters[x], "request", r) /\ ~Holds(letters[x], "cancel", r)
               /\ HoldsFinal(letters[x], r) => x = nodes[k][n]
               /\ x = nodes[k][n] /\ remote[x] = "open" => HoldsFinal(letters[x], r)
    <3>1. ~IsOf(f, "request", r) /\ ~IsOf(f, "cancel", r)
      BY <1>1 DEF IsOf
    <3>2. /\ ~Holds(letters[x], "request", r) /\ ~Holds(letters[x], "cancel", r)
      BY <1>4, <3>1, LettersHold
    <3>3. letters[x] = IF IsOpen(target) /\ x = target THEN <<f>> ELSE <<>>
      BY <1>4 DEF To, Silence
    <3>4. HoldsFinal(letters[x], r) <=> IsOpen(target) /\ x = target
      BY <1>8, <3>3, HoldsEmpty, OneFrameHolds
    <3>5. x # NoSocket
      BY SocketParts
    <3> QED BY <2>6, <3>2, <3>4, <3>5 DEF IsOpen
  <2>9. ASSUME NEW x \in Sockets
        PROVE  /\ Holds(down'[x], "request", r) => Holds(down[x], "request", r)
               /\ Holds(down'[x], "cancel", r) => Holds(down[x], "cancel", r)
               /\ HoldsFinal(down'[x], r) => HoldsFinal(down[x], r) \/ x = nodes[k][n]
               /\ HoldsFinal(down[x], r) => HoldsFinal(down'[x], r)
               /\ x = nodes[k][n] /\ remote[x] = "open" /\ client[x] # "closed"
                     => HoldsFinal(down'[x], r)
    <3>1. PICK old \in Seq(Frames), new \in Seq(Frames) : old = down[x] /\ new = letters[x]
      BY <2>7
    <3> QED BY <2>7, <2>8, <3>1, HoldsConcat
  <2>10. Addressed(r)'
    <3>1. \A x \in Sockets : x = nodes[k][n] => Owner(x) = CallerOf[r]
      BY <2>5, SocketParts, RegisteredOwner DEF HandsInv
    <3> QED BY <2>3, <2>9, <3>1, AddressedKept DEF HandsInv, Kept
  <2>11. InHands(r)'
    <3> SUFFICES ASSUME Waiting(r)' PROVE InHands(r)'
      BY DEF InHands
    <3>1. Waiting(r) /\ InHands(r) /\ Owned(r)
      BY <2>4 DEF Waiting, HandsInv, Kept
    <3>2. PICK c \in Sockets : c = call[r].socket
      BY <3>1 DEF HandsInv, CallInv, RequestSound, Called, Waiting
    <3>3. /\ client[c] = "open" /\ (call[r].phase = "sent" => inflight[r] = c)
          /\ Handled(r, c) /\ Owner(c) = n
      BY <2>5, <3>1, <3>2 DEF InHands, Owned, Waiting
    <3>4. RelayOf(c) = k
      BY <3>2, SocketParts
    <3>5. ASSUME remote[c] = "closed" \/ <<Owner(c), RelayOf(c)>> \in overlap PROVE Handled(r, c)'
      BY <1>6, <3>5 DEF Handled, GroundStays
    <3>6. ASSUME HoldsFinal(down[c], r) PROVE Handled(r, c)'
      BY <2>9, <3>2, <3>6 DEF Handled
    <3>7. ASSUME Entered(r, c) PROVE Handled(r, c)'
      <4>1. c = nodes[k][n] /\ c # NoSocket
        BY <3>2, <3>3, <3>4, <3>7, SocketParts DEF Entered, Enlisted
      <4>2. remote[c] = "open"
        BY <4>1, RegisteredOwner DEF HandsInv
      <4>3. HoldsFinal(down'[c], r)
        BY <2>9, <3>2, <3>3, <4>1, <4>2
      <4> QED BY <4>3 DEF Handled
    <3>8. Handled(r, c)'
      BY <2>2, <3>2, <3>3, <3>5, <3>6, <3>7 DEF Handled
    <3>9. Handled(r, call[r].socket)'
      BY <2>4, <3>2, <3>8 DEF Handled, Entered, Enlisted
    <3> QED BY <1>6, <2>4, <3>2, <3>3, <3>9 DEF InHands
  <2>12. \A h \in Relays : pending'[h][r] \in {pending[h][r], NoEntry}
    BY <1>1, <1>6 DEF HandsInv, CallInv, WsInv, RelayInv, RelayTypes
  <2>13. ServingStays(r)
    BY <2>4 DEF ServingStays
  <2> QED BY <2>4, <2>9, <2>10, <2>11, <2>12, <2>13, KeptWith
<1> QED BY <1>7, <1>8

LEMMA OnCancelKeepsHands ==
    ASSUME HandsInv, CallInv', GroundStays, NEW s \in Sockets, OnCancel(s), UNCHANGED nodeVars,
           NEW r \in Requests
    PROVE  Kept(r)'
<1>1. PICK f \in Frames : f = Head(up[s]) /\ f.type = "cancel"
  BY ReadType DEF OnCancel, HandsInv, CallInv, WsInv
<1>2. PICK own \in Requests : own = f.request
  BY <1>1, FrameParts
<1>3. PICK k \in Relays : k = RelayOf(s)
  BY SocketParts
<1>4. PICK p : p = pending[k][own].provider
  OBVIOUS
<1>5. PICK letters : letters = IF pending[k][own] = NoEntry THEN Silence ELSE To(p, Cancel(own))
  OBVIOUS
<1>6. letters \in Letters /\ Cancel(own) \in Frames
  BY <1>5, LettersAreSent, FrameTypes
<1>7. /\ Reads(s, "cancel") /\ UNCHANGED <<client, remote>> /\ Deliver(letters)
      /\ pending' = [pending EXCEPT ![k][own] = NoEntry]
  BY <1>1, <1>2, <1>3, <1>4, <1>5 DEF OnCancel
<1>8. \A h \in Relays : pending'[h][r] = IF h = k /\ r = own THEN NoEntry ELSE pending[h][r]
  BY <1>7 DEF HandsInv, CallInv, WsInv, RelayInv, RelayTypes
<1>9. CASE r # own
  <2>1. Foreign(Cancel(own), r) /\ ~Weighs(f, r)
    BY <1>1, <1>9 DEF Foreign, Cancel, Weighs, IsOf, IsFinal
  <2>2. \A x \in Sockets : ForeignAll(letters[x], r)
    BY <1>5, <1>6, <2>1, LettersForeign
  <2> QED BY <1>1, <1>6, <1>7, <1>8, <1>9, <2>2, <2>1, ReadingKeepsHands
<1>10. CASE r = own
  <2>1. /\ up[s] \in Seq(Frames) /\ up[s] # <<>> /\ up'[s] = Tail(up[s])
        /\ \A x \in Sockets \ {s} : up'[x] = up[x]
    BY <1>7, ReadType DEF HandsInv, CallInv, WsInv, LinkTypeOK
  <2>2. IsOf(f, "cancel", r)
    BY <1>1, <1>2, <1>10 DEF IsOf
  <2>3. Holds(up[s], "cancel", r)
    BY <1>1, <2>1, <2>2, HoldsTail
  <2>4. call[r].phase = "cancelled" /\ UNCHANGED <<call, inflight, serving>>
    BY <2>3 DEF HandsInv, CallInv, RequestSound, GoingUp, nodeVars
  <2>5. InHands(r)'
    BY <2>4 DEF InHands, Waiting
  <2>6. \A x \in Sockets : \A g : Has(up'[x], g) => Has(up[x], g)
    BY <2>1, HasChanges
  <2>7. ASSUME NEW x \in Sockets
        PROVE  /\ Holds(down'[x], "request", r) => Holds(down[x], "request", r)
               /\ HoldsFinal(down'[x], r) => HoldsFinal(down[x], r)
    <3>1. PICK old \in Seq(Frames), new \in Seq(Frames) :
             /\ old = down[x] /\ new = letters[x]
             /\ down'[x] = old \/ down'[x] = old \o new
      BY <1>6, <1>7, Written DEF Deliver, HandsInv, CallInv, WsInv
    <3>2. PICK g \in Frames : g = Cancel(own) /\ (new = <<>> \/ new = <<g>>)
      BY <1>5, <1>6, <3>1 DEF To, Silence
    <3>3. ~IsOf(g, "request", r) /\ ~IsFinal(g, r)
      BY <3>2 DEF Cancel, IsOf, IsFinal
    <3>4. ~Holds(new, "request", r) /\ ~HoldsFinal(new, r)
      <4>1. CASE new = <<>>
        BY <4>1, HoldsEmpty
      <4>2. CASE new = <<g>>
        <5>1. ~Holds(<<g>>, "request", r) /\ ~HoldsFinal(<<g>>, r)
          BY <3>3, OneFrameHolds
        <5> QED BY <4>2, <5>1
      <4> QED BY <3>2, <4>1, <4>2
    <3>5. /\ Holds(old \o new, "request", r) => Holds(old, "request", r)
          /\ HoldsFinal(old \o new, r) => HoldsFinal(old, r)
      BY <3>4, HoldsConcat
    <3> QED BY <3>1, <3>5
  <2>8. Addressed(r)'
    BY <2>6, <2>7, AddressedKept DEF HandsInv, Kept
  <2>9. \A h \in Relays : pending'[h][r] \in {pending[h][r], NoEntry}
    BY <1>8
  <2>10. ServingStays(r)
    BY <2>4 DEF ServingStays
  <2> QED BY <2>4, <2>5, <2>7, <2>8, <2>9, <2>10, KeptWith
<1> QED BY <1>9, <1>10

\* The request of a caller whose sockets never overlap finds it enlisted: its hello came first.
LEMMA RequestRead ==
    ASSUME HandsInv, NEW s \in Sockets, Reads(s, "request"), NEW r \in Requests,
           Head(up[s]).request = r
    PROVE  /\ s = call[r].socket /\ call[r].phase # "idle" /\ Owner(s) = CallerOf[r]
           /\ Quiet(r) /\ NoFinal(r) /\ serving[r].by = NoNode
           /\ Alone(s) => Enlisted(s)
<1>1. PICK queue \in Seq(Frames) : queue = up[s] /\ queue # <<>> /\ remote[s] = "open"
  BY DEF Reads, HandsInv, CallInv, WsInv, LinkTypeOK
<1>2. IsOf(Head(queue), "request", r)
  BY <1>1 DEF Reads, IsOf
<1>3. Holds(up[s], "request", r)
  <2>1. PICK h : h = Head(queue) /\ IsOf(h, "request", r)
    BY <1>2
  <2>2. Has(queue, h)
    BY <1>1, <2>1, HasChanges
  <2>3. Holds(queue, "request", r)
    BY <2>1, <2>2, HoldsHas
  <2> QED BY <1>1, <2>3
<1>4. s = call[r].socket /\ Quiet(r) /\ NoFinal(r) /\ serving[r].by = NoNode
  BY <1>3 DEF HandsInv, CallInv, RequestSound, GoingUp
<1>5. call[r].phase # "idle"
  BY <1>3 DEF HandsInv, CallInv, RequestSound, Unstarted
<1>6. Owner(s) = CallerOf[r]
  BY <1>4, <1>5 DEF HandsInv, Kept, Owned
<1>7. Alone(s) => Enlisted(s)
  BY DEF Reads, HandsInv, Enlisting
<1> QED BY <1>4, <1>5, <1>6, <1>7

\* The frames of a socket to which one frame may be written.
LEMMA OneWritten ==
    ASSUME CallInv, NEW t \in Sockets, NEW f \in Frames, Deliver(To(t, f)), NEW x \in Sockets,
           NEW r
    PROVE  /\ \A type : /\ Holds(down[x], type, r) => Holds(down'[x], type, r)
                        /\ Holds(down'[x], type, r) =>
                              Holds(down[x], type, r) \/ (x = t /\ IsOf(f, type, r))
           /\ HoldsFinal(down[x], r) => HoldsFinal(down'[x], r)
           /\ HoldsFinal(down'[x], r) => HoldsFinal(down[x], r) \/ (x = t /\ IsFinal(f, r))
           /\ x = t /\ remote[x] = "open" /\ client[x] # "closed" =>
                 /\ \A type : IsOf(f, type, r) => Holds(down'[x], type, r)
                 /\ IsFinal(f, r) => HoldsFinal(down'[x], r)
<1>1. PICK letters \in Letters : letters = To(t, f)
  BY LettersAreSent
<1>2. PICK old \in Seq(Frames), new \in Seq(Frames) :
         /\ old = down[x] /\ new = letters[x]
         /\ down'[x] = IF remote[x] = "open" /\ client[x] # "closed" THEN old \o new ELSE old
  BY <1>1, Written DEF Deliver, CallInv, WsInv
<1>3. new = IF x = t THEN <<f>> ELSE <<>>
  BY <1>1, <1>2 DEF To
<1>4. /\ \A type : Holds(new, type, r) <=> x = t /\ IsOf(f, type, r)
      /\ HoldsFinal(new, r) <=> x = t /\ IsFinal(f, r)
  <2>1. CASE x = t
    <3>1. /\ \A type : Holds(<<f>>, type, r) <=> IsOf(f, type, r)
          /\ HoldsFinal(<<f>>, r) <=> IsFinal(f, r)
      BY OneFrameHolds
    <3> QED BY <1>3, <2>1, <3>1
  <2>2. CASE x # t
    BY <1>3, <2>2, HoldsEmpty
  <2> QED BY <2>1, <2>2
<1>5. /\ \A type : Holds(old \o new, type, r) <=> Holds(old, type, r) \/ Holds(new, type, r)
      /\ HoldsFinal(old \o new, r) <=> HoldsFinal(old, r) \/ HoldsFinal(new, r)
  BY HoldsConcat
<1>6. CASE remote[x] = "open" /\ client[x] # "closed"
  BY <1>2, <1>4, <1>5, <1>6
<1>7. CASE ~(remote[x] = "open" /\ client[x] # "closed")
  BY <1>2, <1>7
<1> QED BY <1>6, <1>7

\* A request that no provider can be found for is answered at once.
LEMMA RefusedKeepsHands ==
    ASSUME HandsInv, CallInv', GroundStays, NEW s \in Sockets, Reads(s, "request"),
           NEW r \in Requests, Head(up[s]).request = r, Deliver(To(s, OfflineAnswer(r))),
           UNCHANGED <<nodeVars, client, remote, pending>>
    PROVE  Kept(r)'
<1>1. PICK g \in Frames : g = OfflineAnswer(r) /\ IsFinal(g, r)
  <2>1. OfflineAnswer(r) \in Frames
    BY FrameTypes DEF OfflineAnswer, Ends
  <2> QED BY <2>1 DEF OfflineAnswer, Response, IsFinal, IsOf
<1>2. ~IsOf(g, "request", r) /\ ~IsOf(g, "cancel", r)
  BY <1>1 DEF IsFinal, IsOf
<1>3. /\ s = call[r].socket /\ Owner(s) = CallerOf[r] /\ remote[s] = "open"
      /\ UNCHANGED <<call, inflight, serving>>
  BY RequestRead DEF nodeVars, Reads
<1>4. CallInv /\ Deliver(To(s, g))
  BY <1>1 DEF HandsInv
<1>5. \A x \in Sockets : \A f : Has(up'[x], f) => Has(up[x], f)
  <2>1. /\ up[s] \in Seq(Frames) /\ up[s] # <<>> /\ up'[s] = Tail(up[s])
        /\ \A x \in Sockets \ {s} : up'[x] = up[x]
    BY ReadType DEF HandsInv, CallInv, WsInv, LinkTypeOK
  <2> QED BY <2>1, HasChanges
<1>6. \A x \in Sockets :
         /\ Holds(down'[x], "request", r) => Holds(down[x], "request", r)
         /\ Holds(down'[x], "cancel", r) => Holds(down[x], "cancel", r)
         /\ HoldsFinal(down'[x], r) => HoldsFinal(down[x], r) \/ x = s
  BY <1>2, <1>4, OneWritten
<1>7. client[s] # "closed" => HoldsFinal(down'[s], r)
  BY <1>1, <1>3, <1>4, OneWritten
<1>8. Addressed(r)'
  BY <1>3, <1>5, <1>6, AddressedKept DEF HandsInv, Kept
<1>9. InHands(r)'
  <2> SUFFICES ASSUME Waiting(r)' PROVE InHands(r)'
    BY DEF InHands
  <2>1. client[s] = "open" /\ (call[r].phase = "sent" => inflight[r] = s)
    BY <1>3 DEF Waiting, HandsInv, Kept, InHands
  <2>2. Handled(r, call[r].socket)'
    BY <1>3, <1>7, <2>1 DEF Handled
  <2> QED BY <1>3, <2>1, <2>2 DEF InHands
<1>10. ServingStays(r)
  BY <1>3 DEF ServingStays
<1> QED BY <1>3, <1>6, <1>8, <1>9, <1>10, KeptWith

LEMMA PassedOnKeepsHands ==
    ASSUME HandsInv, CallInv', GroundStays, NEW s \in Sockets, Reads(s, "request"),
           NEW r \in Requests, Head(up[s]).request = r, NEW t \in Sockets, remote[t] = "open",
           Deliver(To(t, Head(up[s]))),
           NEW k \in Relays, k = RelayOf(s), pending'[k][r] = [caller |-> s, provider |-> t],
           \A h \in Relays \ {k} : pending'[h][r] = pending[h][r],
           UNCHANGED <<nodeVars, client, remote, nodes>>
    PROVE  Kept(r)'
<1>1. PICK f \in Frames : f = Head(up[s]) /\ f.type = "request" /\ f.request = r
  BY ReadType DEF HandsInv, CallInv, WsInv
<1>2. IsOf(f, "request", r) /\ ~IsOf(f, "cancel", r) /\ ~IsFinal(f, r)
  BY <1>1 DEF IsFinal, IsOf
<1>3. /\ s = call[r].socket /\ Owner(s) = CallerOf[r] /\ remote[s] = "open"
      /\ call[r].phase # "idle" /\ Quiet(r) /\ serving[r].by = NoNode
      /\ Alone(s) => Enlisted(s)
      /\ UNCHANGED <<call, inflight, serving>>
  BY RequestRead DEF nodeVars, Reads
<1>4. CallInv /\ Deliver(To(t, f)) /\ Kept(r)
  BY <1>1 DEF HandsInv
<1>5. \A x \in Sockets : \A g : Has(up'[x], g) => Has(up[x], g)
  <2>1. /\ up[s] \in Seq(Frames) /\ up[s] # <<>> /\ up'[s] = Tail(up[s])
        /\ \A x \in Sockets \ {s} : up'[x] = up[x]
    BY ReadType DEF HandsInv, CallInv, WsInv, LinkTypeOK
  <2> QED BY <2>1, HasChanges
<1>6. \A x \in Sockets :
         /\ Holds(down'[x], "request", r) => x = t
         /\ Holds(down'[x], "cancel", r) => Holds(down[x], "cancel", r)
         /\ HoldsFinal(down'[x], r) => HoldsFinal(down[x], r)
  BY <1>2, <1>3, <1>4, OneWritten DEF Quiet
<1>7. client[t] # "closed" => Holds(down'[t], "request", r)
  BY <1>2, <1>4, OneWritten
<1>8. \A x \in Sockets : remote[x] = "closed" => remote'[x] = "closed"
  OBVIOUS
<1>9. Addressed(r)'
  BY <1>4, <1>5, <1>6, AddressedKept DEF Kept
<1>10. Owned(r)'
  BY <1>3, <1>4 DEF Kept, Owned
<1>11. Reasoned(r)'
  BY <1>3, <1>4, <1>6, <1>8, ReasonedKept DEF Kept
<1>12. Silenced(r)'
  BY <1>3 DEF Silenced
<1>13. Placed(r)'
  <2>1. \A h \in Relays : pending'[h][r] # NoEntry => pending'[h][r].provider = t
    BY <1>3 DEF Quiet
  <2> QED BY <1>3, <1>6, <2>1 DEF Placed
<1>14. InHands(r)'
  <2> SUFFICES ASSUME Waiting(r)' PROVE InHands(r)'
    BY DEF InHands
  <2>1. client[s] = "open" /\ (call[r].phase = "sent" => inflight[r] = s)
    BY <1>3, <1>4 DEF Waiting, Kept, InHands
  <2>2. CASE <<Owner(s), RelayOf(s)>> \in overlap
    <3>1. Handled(r, call[r].socket)'
      BY <1>3, <2>2 DEF Handled, GroundStays
    <3> QED BY <1>3, <2>1, <3>1 DEF InHands
  <2>3. CASE <<Owner(s), RelayOf(s)>> \notin overlap
    <3>1. Enlisted(s)'
      BY <1>3, <2>1, <2>3 DEF Alone, Enlisted
    <3>2. PICK e : e = [caller |-> s, provider |-> t] /\ e.provider = t /\ pending'[k][r] = e
      OBVIOUS
    <3>3. e # NoEntry
      <4>1. t # NoSocket /\ NoEntry.provider = NoSocket
        BY SocketParts DEF NoEntry
      <4> QED BY <3>2, <4>1
    <3>4. Owed(r, t)'
      BY <1>7 DEF Owed
    <3>5. Owed(r, pending[k][r].provider)'
      BY <3>2, <3>4 DEF Owed
    <3>6. Entered(r, s)'
      BY <3>1, <3>2, <3>3, <3>5 DEF Entered
    <3>7. Handled(r, call[r].socket)'
      BY <1>3, <3>6 DEF Handled, Entered, Enlisted
    <3> QED BY <1>3, <2>1, <3>7 DEF InHands
  <2> QED BY <2>2, <2>3
<1> QED BY <1>9, <1>10, <1>11, <1>12, <1>13, <1>14 DEF Kept

LEMMA OnRequestKeepsHands ==
    ASSUME HandsInv, CallInv', GroundStays, NEW s \in Sockets, OnRequest(s), UNCHANGED nodeVars,
           NEW r \in Requests
    PROVE  Kept(r)'
<1>1. PICK f \in Frames : f = Head(up[s]) /\ f.type = "request"
  BY ReadType DEF OnRequest, HandsInv, CallInv, WsInv
<1>2. PICK own \in Requests : own = f.request
  BY <1>1, FrameParts
<1>3. PICK k \in Relays : k = RelayOf(s)
  BY SocketParts
<1>4. Reads(s, "request") /\ UNCHANGED <<client, remote, nodes>>
  BY DEF OnRequest
<1>5. \/ Deliver(To(s, OfflineAnswer(own))) /\ UNCHANGED pending
      \/ \E t \in Sockets : /\ remote[t] = "open" /\ RelayOf(t) = k
                            /\ Deliver(To(t, f))
                            /\ pending' = [pending EXCEPT ![k][own] =
                                              [caller |-> s, provider |-> t]]
  BY <1>1, <1>2, <1>3, RequestRouted DEF HandsInv, CallInv
<1>6. CASE Deliver(To(s, OfflineAnswer(own))) /\ UNCHANGED pending
  <2>1. CASE r = own
    BY <1>1, <1>2, <1>4, <1>6, <2>1, RefusedKeepsHands
  <2>2. CASE r # own
    <3>1. PICK g \in Frames : g = OfflineAnswer(own) /\ g.request = own
      <4>1. OfflineAnswer(own) \in Frames
        BY FrameTypes DEF OfflineAnswer, Ends
      <4> QED BY <4>1 DEF OfflineAnswer, Response
    <3>2. Foreign(g, r) /\ ~Weighs(f, r)
      BY <1>2, <2>2, <3>1 DEF Foreign, Weighs, IsOf, IsFinal
    <3>3. PICK letters \in Letters : letters = To(s, g)
      BY LettersAreSent
    <3>4. Deliver(letters) /\ \A x \in Sockets : ForeignAll(letters[x], r)
      BY <1>6, <3>1, <3>2, <3>3, LettersForeign
    <3> QED BY <1>1, <1>4, <1>6, <3>2, <3>4, ReadingKeepsHands
  <2> QED BY <2>1, <2>2
<1>7. ASSUME NEW t \in Sockets, remote[t] = "open", Deliver(To(t, f)),
             pending' = [pending EXCEPT ![k][own] = [caller |-> s, provider |-> t]]
      PROVE  Kept(r)'
  <2>1. \A h \in Relays, q \in Requests :
           pending'[h][q] = IF h = k /\ q = own THEN [caller |-> s, provider |-> t]
                            ELSE pending[h][q]
    BY <1>7 DEF HandsInv, CallInv, WsInv, RelayInv, RelayTypes
  <2>2. CASE r = own
    <3>1. /\ pending'[k][r] = [caller |-> s, provider |-> t]
          /\ \A h \in Relays \ {k} : pending'[h][r] = pending[h][r]
      BY <2>1, <2>2
    <3> QED BY <1>1, <1>2, <1>3, <1>4, <1>7, <2>2, <3>1, PassedOnKeepsHands
  <2>3. CASE r # own
    <3>1. Foreign(f, r) /\ ~Weighs(f, r)
      BY <1>2, <2>3 DEF Foreign, Weighs, IsOf, IsFinal
    <3>2. PICK letters \in Letters : letters = To(t, f)
      BY LettersAreSent
    <3>3. Deliver(letters) /\ \A x \in Sockets : ForeignAll(letters[x], r)
      BY <1>7, <3>1, <3>2, LettersForeign
    <3>4. \A h \in Relays : pending'[h][r] = pending[h][r]
      BY <2>1, <2>3
    <3> QED BY <1>1, <1>4, <3>1, <3>3, <3>4, ReadingKeepsHands
  <2> QED BY <2>2, <2>3
<1> QED BY <1>5, <1>6, <1>7

LEMMA CloseKeepsHands ==
    ASSUME HandsInv, CallInv', GroundStays, NEW s \in Sockets, Close(s), UNCHANGED nodeVars,
           NEW r \in Requests
    PROVE  Kept(r)'
<1>1. PICK k \in Relays : k = RelayOf(s)
  BY SocketParts
<1>2. PICK after : after = [remote EXCEPT ![s] = "closed"]
  OBVIOUS
<1>3. PICK letters \in Letters :
              /\ Write(after, letters)
              /\ \A q \in Requests, x \in Sockets :
                    /\ ~Holds(letters[x], "request", q)
                    /\ Holds(letters[x], "cancel", q)
                          <=> q \in Involved(k, s) /\ pending[k][q].provider = x /\ x # s
                    /\ HoldsFinal(letters[x], q)
                          <=> q \in Involved(k, s) /\ pending[k][q].caller = x /\ x # s
  <2>1. PICK letters \in Letters :
              /\ Write([remote EXCEPT ![s] = "closed"], letters)
              /\ \A q \in Requests, x \in Sockets :
                    /\ ~Holds(letters[x], "request", q)
                    /\ Holds(letters[x], "cancel", q)
                          <=> q \in Involved(k, s) /\ pending[k][q].provider = x /\ x # s
                    /\ HoldsFinal(letters[x], q)
                          <=> q \in Involved(k, s) /\ pending[k][q].caller = x /\ x # s
    BY <1>1, CloseWrites DEF HandsInv
  <2>2. Write(after, letters)
    BY <1>2, <2>1
  <2> QED BY <2>1, <2>2
<1>4. /\ remote[s] = "open" /\ remote'[s] = "closed" /\ UNCHANGED client
      /\ \A x \in Sockets \ {s} : remote'[x] = remote[x]
      /\ after[s] = "closed" /\ \A x \in Sockets \ {s} : after[x] = remote[x]
      /\ up'[s] = <<>> /\ \A x \in Sockets \ {s} : up'[x] = up[x]
  BY <1>2 DEF Close, HandsInv, CallInv, WsInv, LinkTypeOK
<1>5. /\ \A h \in Relays \ {k} : pending'[h][r] = pending[h][r]
      /\ \/ r \in Involved(k, s) /\ pending'[k][r] = NoEntry
         \/ r \notin Involved(k, s) /\ pending'[k][r] = pending[k][r]
  BY <1>1, CloseEffect DEF HandsInv, CallInv, WsInv
<1>6. LinkTypeOK /\ UNCHANGED <<call, inflight, serving>>
  BY DEF HandsInv, CallInv, WsInv, nodeVars
<1>7. UpStays(r)
  BY <1>4, <1>6, UpStay
<1>8. CASE r \notin Involved(k, s)
  <2>1. \A x \in Sockets : ForeignAll(letters[x], r)
    BY <1>3, <1>8 DEF ForeignAll
  <2>2. DownStays(r)
    BY <1>3, <1>6, <2>1, WriteStays
  <2> QED BY <1>4, <1>5, <1>7, <1>8, <2>2, RelayCalm DEF PendingStays
<1>9. CASE r \in Involved(k, s)
  <2>1. PICK c : c = call[r].socket
    OBVIOUS
  <2>2. pending[k][r].caller = c /\ LiveAt(c, k) /\ s \in {c, pending[k][r].provider}
    <3>1. NoEntry.caller = NoSocket /\ NoEntry.provider = NoSocket /\ s # NoSocket
      BY SocketParts DEF NoEntry
    <3>2. pending[k][r] # NoEntry
      BY <1>9, <3>1 DEF Involved
    <3>3. pending[k][r].caller = c /\ LiveAt(pending[k][r].caller, k)
      BY <2>1, <3>2 DEF HandsInv, CallInv, WsInv, RelayInv, PendingSound, RequestSound, KeptForCaller
    <3> QED BY <1>9, <3>3 DEF Involved
  <2>3. c \in Sockets /\ remote[c] = "open"
    BY <2>2 DEF LiveAt
  <2>4. call[r].phase # "idle"
    <3>1. ~Quiet(r)
      <4>1. pending[k][r] # NoEntry
        BY <2>2, <2>3, SocketParts DEF NoEntry
      <4> QED BY <4>1 DEF Quiet
    <3> QED BY <3>1 DEF HandsInv, CallInv, RequestSound, Unstarted
  <2>5. Owner(c) = CallerOf[r]
    BY <2>1, <2>4 DEF HandsInv, Kept, Owned
  <2>6. ASSUME NEW x \in Sockets
        PROVE  /\ Holds(down'[x], "request", r) => Holds(down[x], "request", r)
               /\ Holds(down'[x], "cancel", r) =>
                     Holds(down[x], "cancel", r) \/ remote'[c] = "closed"
               /\ HoldsFinal(down'[x], r) => HoldsFinal(down[x], r) \/ x = c
               /\ x = c /\ c # s /\ client[c] # "closed" => HoldsFinal(down'[x], r)
    <3>1. PICK old \in Seq(Frames), new \in Seq(Frames) :
             /\ old = down[x] /\ new = letters[x]
             /\ down'[x] = IF after[x] = "open" /\ client[x] # "closed" THEN old \o new ELSE old
      BY <1>3, <1>6, Written
    <3>2. /\ ~Holds(new, "request", r)
          /\ Holds(new, "cancel", r) => pending[k][r].provider = x /\ x # s
          /\ HoldsFinal(new, r) <=> x = c /\ x # s
      BY <1>3, <1>9, <2>2, <3>1
    <3>3. Holds(new, "cancel", r) => remote'[c] = "closed"
      BY <1>4, <2>2, <3>2
    <3>4. x = c /\ c # s => after[x] = "open"
      BY <1>4, <2>3
    <3>5. /\ \A type : Holds(old \o new, type, r) <=> Holds(old, type, r) \/ Holds(new, type, r)
          /\ HoldsFinal(old \o new, r) <=> HoldsFinal(old, r) \/ HoldsFinal(new, r)
      BY HoldsConcat
    <3>6. CASE after[x] = "open" /\ client[x] # "closed"
      BY <3>1, <3>2, <3>3, <3>5, <3>6
    <3>7. CASE ~(after[x] = "open" /\ client[x] # "closed")
      BY <3>1, <3>4, <3>7
    <3> QED BY <3>6, <3>7
  <2>7. \A x \in Sockets : \A f : Has(up'[x], f) /\ IsFinal(f, r) => Has(up[x], f)
    BY <1>7 DEF UpStays, Weighs
  <2>8. Addressed(r)'
    BY <2>5, <2>6, <2>7, AddressedKept DEF HandsInv, Kept
  <2>9. InHands(r)'
    <3> SUFFICES ASSUME Waiting(r)' PROVE InHands(r)'
      BY DEF InHands
    <3>1. client[c] = "open" /\ (call[r].phase = "sent" => inflight[r] = c)
      BY <1>6, <2>1 DEF Waiting, HandsInv, Kept, InHands
    <3>2. remote'[c] = "closed" \/ HoldsFinal(down'[c], r)
      BY <1>4, <2>3, <2>6, <3>1
    <3>3. Handled(r, call[r].socket)'
      BY <1>6, <2>1, <3>2 DEF Handled
    <3> QED BY <1>4, <1>6, <2>1, <3>1, <3>3 DEF InHands
  <2>10. \A h \in Relays : pending'[h][r] \in {pending[h][r], NoEntry}
    BY <1>5
  <2>11. ServingStays(r)
    BY <1>6 DEF ServingStays
  <2>12. call'[r].socket = c
    BY <1>6, <2>1
  <2> QED BY <1>6, <2>6, <2>8, <2>9, <2>10, <2>11, <2>12, KeptWith
<1> QED BY <1>8, <1>9

LEMMA RelayKeepsHands ==
    ASSUME NEW only, Relays = {only},
           HandsInv, CallInv', GroundStays, RelayStep, UNCHANGED nodeVars, NEW r \in Requests
    PROVE  Kept(r)'
  BY AcceptKeepsHands, CloseKeepsHands, CrashKeepsHands, OnHelloKeepsHands, OnTopicKeepsHands,
     OnPublishKeepsHands, OnResponseKeepsHands, OnRequestKeepsHands, OnCancelKeepsHands
  DEF RelayStep, OnMessage

-----------------------------------------------------------------------------
(* Steps of a node that leave a request where it is.                       *)

LEMMA NodeCalm ==
    ASSUME HandsInv, CallInv', GroundStays, UNCHANGED relayVars, NEW r \in Requests,
           UpStays(r), DownStays(r), ServingStays(r), CallStays(r)
    PROVE  Kept(r)'
<1>1. PendingStays(r)
  BY DEF PendingStays, relayVars
<1> QED BY <1>1, CalmKeeps

\* The call goes on, and so does its answer.
LEMMA NothingCalled ==
    ASSUME HandsInv, NEW r \in Requests, UNCHANGED <<inflight, call, serving>>,
           client[call[r].socket] = "open" => client'[call[r].socket] = "open"
    PROVE  ServingStays(r) /\ CallStays(r)
  BY DEF ServingStays, CallStays, Waiting, HandsInv, Kept, InHands

LEMMA DialKeepsHands ==
    ASSUME HandsInv, CallInv', GroundStays, UNCHANGED relayVars, NEW n \in Nodes, NEW k \in Relays,
           Dial(n, k), NEW r \in Requests
    PROVE  Kept(r)'
<1>1. PICK s : s = <<n, k, Min(Fresh(n, k))>>
  OBVIOUS
<1>2. client[s] = "unused" /\ client' = [client EXCEPT ![s] = "connecting"]
  BY <1>1, DialsFresh DEF Dial, CreateSocket
<1>3. UNCHANGED <<remote, up, down, inflight, call, serving>> /\ LinkTypeOK
  BY DEF Dial, HandsInv, CallInv, WsInv
<1>4. UpStays(r) /\ DownStays(r)
  BY <1>3, UpStay, DownStay
<1>5. ServingStays(r) /\ CallStays(r)
  <2>1. PICK c : c = call[r].socket
    OBVIOUS
  <2>2. client[c] = "open" => client'[c] = "open"
    BY <1>2
  <2> QED BY <1>3, <2>1, <2>2, NothingCalled
<1> QED BY <1>4, <1>5, NodeCalm

LEMMA OpenedKeepsHands ==
    ASSUME HandsInv, CallInv', GroundStays, UNCHANGED relayVars, NEW n \in Nodes, NEW k \in Relays,
           Opened(n, k), NEW r \in Requests
    PROVE  Kept(r)'
<1>1. PICK s : s = conn[n][k].socket
  OBVIOUS
<1>2. PICK services \in SUBSET Services : services = local[n].services
  BY DEF HandsInv, CallInv, WsInv, NodeInv, NodeTypes
<1>3. NodeInv /\ LinkTypeOK
  BY DEF HandsInv, CallInv, WsInv
<1>4. PICK frames \in Seq(Frames) : frames = Announcement(n, services)
  BY <1>3, AnnouncementType
<1>5. /\ client' = [client EXCEPT ![s] = "open"]
      /\ \A x \in Sockets : up'[x] = up[x] \/ up'[x] = up[x] \o frames
      /\ UNCHANGED <<remote, down, inflight, call, serving>>
  BY <1>1, <1>2, <1>4 DEF Opened
<1>6. ForeignAll(frames, r)
  BY <1>3, <1>4, AnnouncementIsForeign
<1>7. UpStays(r) /\ DownStays(r)
  BY <1>3, <1>5, <1>6, UpStay, DownStay
<1>8. ServingStays(r) /\ CallStays(r)
  <2>1. PICK c : c = call[r].socket
    OBVIOUS
  <2>2. client[c] = "open" => client'[c] = "open"
    BY <1>5
  <2> QED BY <1>5, <2>1, <2>2, NothingCalled
<1> QED BY <1>7, <1>8, NodeCalm

LEMMA SpeakingUpKeepsHands ==
    ASSUME HandsInv, CallInv', GroundStays, UNCHANGED relayVars, NEW n \in Nodes,
           \/ \E services \in SUBSET Services : Announce(n, services)
           \/ \E t \in Topics : Listen(n, t) \/ Unlisten(n, t) \/ LingerEnds(n, t)
                                \/ PublishTo(n, t),
           NEW r \in Requests
    PROVE  Kept(r)'
<1>1. LinkTypeOK /\ NodeInv
  BY DEF HandsInv, CallInv, WsInv
<1>2. UNCHANGED <<client, remote, down, inflight, call, serving>>
  BY <1>1, SpeaksUp
<1>3. PICK frames \in Seq(Frames) : /\ SendAll(n, frames) \/ UNCHANGED up
                                    /\ ForeignAll(frames, r)
  BY <1>1, SpeaksUp
<1>4. ForeignAll(frames, r) /\ \A x \in Sockets : up'[x] = up[x] \/ up'[x] = up[x] \o frames
  BY <1>1, <1>3, SendAllType
<1>5. UpStays(r) /\ DownStays(r)
  BY <1>1, <1>2, <1>4, UpStay, DownStay
<1>6. ServingStays(r) /\ CallStays(r)
  BY <1>2, NothingCalled
<1> QED BY <1>5, <1>6, NodeCalm

\* A node that reads a frame the caller does not wait for.
LEMMA ReceivesStays ==
    ASSUME HandsInv, NEW n \in Nodes, NEW k \in Relays, NEW type, Receives(n, k, type),
           UNCHANGED <<client, up>>, NEW r \in Requests, ~Weighs(Packet(n, k), r)
    PROVE  UpStays(r) /\ DownStays(r)
<1>1. LinkTypeOK /\ NodeInv
  BY DEF HandsInv, CallInv, WsInv
<1>2. PICK s \in Sockets : s = conn[n][k].socket
  BY <1>1, ReceivesType
<1>3. /\ down[s] # <<>> /\ Packet(n, k) = Head(down[s])
      /\ down' = [down EXCEPT ![s] = Tail(down[s])]
  BY <1>1, <1>2, ReceivesType
<1>4. down'[s] = Tail(down[s]) /\ \A x \in Sockets \ {s} : down'[x] = down[x]
  BY <1>1, <1>3 DEF LinkTypeOK
<1>5. DownStays(r)
  BY <1>1, <1>3, <1>4, DownStay
<1> QED BY <1>1, <1>5, UpStay

LEMMA HearingKeepsHands ==
    ASSUME HandsInv, CallInv', GroundStays, UNCHANGED relayVars, NEW n \in Nodes, NEW k \in Relays,
           HelloArrives(n, k) \/ OfflineArrives(n, k) \/ PublishArrives(n, k), NEW r \in Requests
    PROVE  Kept(r)'
<1>1. PICK type : Receives(n, k, type) /\ type \in {"hello", "offline", "publish"}
  BY DEF HelloArrives, OfflineArrives, PublishArrives
<1>2. UNCHANGED <<client, up, inflight, serving>>
  BY DEF HelloArrives, OfflineArrives, PublishArrives, nodeVars
<1>3. LinkTypeOK /\ NodeInv
  BY DEF HandsInv, CallInv, WsInv
<1>4. ~Weighs(Packet(n, k), r)
  BY <1>1, <1>3, ReceivesType DEF Weighs, IsOf, IsFinal
<1>5. UpStays(r) /\ DownStays(r)
  BY <1>1, <1>2, <1>4, ReceivesStays
<1>6. ServingStays(r)
  BY <1>2 DEF ServingStays
<1>7. CallStays(r)
  <2>1. PICK c \in CallRecords : c = call[r]
    BY <1>3 DEF NodeInv, NodeTypes, CallRecords
  <2>2. call'[r] = c \/ (c.phase = "sent" /\ call'[r] = [c EXCEPT !.phase = "offline"])
    <3>1. CASE HelloArrives(n, k) \/ PublishArrives(n, k)
      BY <2>1, <3>1 DEF HelloArrives, PublishArrives, nodeVars
    <3>2. CASE OfflineArrives(n, k)
      <4>1. PICK i : i = Packet(n, k).node
        OBVIOUS
      <4>2. call' = [q \in Requests |->
                  IF CallerOf[q] = n /\ call[q].phase = "sent" /\ call[q].destination = i
                  THEN [call[q] EXCEPT !.phase = "offline"] ELSE call[q]]
        BY <3>2, <4>1 DEF OfflineArrives
      <4> QED BY <2>1, <4>2
    <3> QED BY <3>1, <3>2
  <2>3. [c EXCEPT !.phase = "offline"].socket = c.socket /\ [c EXCEPT !.phase = "offline"].phase = "offline"
    BY <2>1 DEF CallRecords
  <2>4. call'[r] = c => CallStays(r)
    BY <1>2, <2>1 DEF CallStays, Waiting, HandsInv, Kept, InHands
  <2>5. CASE c.phase = "sent" /\ call'[r] = [c EXCEPT !.phase = "offline"]
    BY <2>1, <2>3, <2>5 DEF CallStays, Waiting
  <2> QED BY <2>2, <2>4, <2>5
<1> QED BY <1>5, <1>6, <1>7, NodeCalm

\* What a socket carries when it is lost is not waited for any longer.
LEMMA FinalizedKeepsHands ==
    ASSUME HandsInv, CallInv', GroundStays, UNCHANGED relayVars, NEW s \in Sockets, Finalized(s),
           UNCHANGED <<up, serving>>, NEW r \in Requests
    PROVE  Kept(r)'
<1>1. LinkTypeOK /\ NodeInv
  BY DEF HandsInv, CallInv, WsInv
<1>2. /\ client'[s] = "closed" /\ down'[s] = <<>>
      /\ \A x \in Sockets \ {s} : client'[x] = client[x] /\ down'[x] = down[x]
  BY <1>1 DEF Finalized, Disconnected, LinkTypeOK
<1>3. UpStays(r) /\ DownStays(r)
  BY <1>1, <1>2, UpStay, DownStay
<1>4. ServingStays(r)
  BY DEF ServingStays
<1>5. CallStays(r)
  <2>1. PICK c \in CallRecords : c = call[r]
    BY <1>1 DEF NodeInv, NodeTypes, CallRecords
  <2>2. /\ inflight[r] = s => inflight'[r] = NoSocket
        /\ inflight[r] # s => inflight'[r] = inflight[r]
        /\ \/ inflight[r] = s /\ c.phase = "sent" /\ call'[r] = [c EXCEPT !.phase = "disconnected"]
           \/ c.phase = "sending" /\ c.socket = s /\ call'[r] = [c EXCEPT !.raced = TRUE]
           \/ call'[r] = c /\ ~(inflight[r] = s /\ c.phase = "sent")
                           /\ ~(c.phase = "sending" /\ c.socket = s)
    BY <2>1 DEF Finalized, FailInflight, Carried
  <2>3. /\ [c EXCEPT !.raced = TRUE].socket = c.socket
        /\ [c EXCEPT !.raced = TRUE].phase = c.phase
        /\ [c EXCEPT !.raced = TRUE].raced = TRUE
        /\ [c EXCEPT !.phase = "disconnected"].socket = c.socket
        /\ [c EXCEPT !.phase = "disconnected"].phase = "disconnected"
    BY <2>1 DEF CallRecords
  <2>4. CASE \/ inflight[r] = s /\ c.phase = "sent" /\ call'[r] = [c EXCEPT !.phase = "disconnected"]
             \/ c.phase = "sending" /\ c.socket = s /\ call'[r] = [c EXCEPT !.raced = TRUE]
    BY <2>1, <2>3, <2>4 DEF CallStays, Waiting
  <2>5. CASE call'[r] = c /\ ~(inflight[r] = s /\ c.phase = "sent")
                          /\ ~(c.phase = "sending" /\ c.socket = s)
    <3>1. Waiting(r) => /\ client[c.socket] = "open"
                        /\ c.phase = "sent" => inflight[r] = c.socket
      BY <2>1 DEF HandsInv, Kept, InHands
    <3>2. Waiting(r) => c.socket # s /\ c.socket \in Sockets
      BY <2>1, <2>5, <3>1 DEF Waiting, CallInv, RequestSound, Called, HandsInv
    <3>3. Waiting(r) => client'[c.socket] = "open"
      BY <1>2, <3>1, <3>2
    <3>4. Waiting(r) /\ c.phase = "sent" => inflight'[r] = c.socket
      BY <2>2, <2>5, <3>1
    <3>5. Waiting(r)' => Waiting(r)
      BY <2>1, <2>5 DEF Waiting
    <3>6. call'[r] = call[r]
      BY <2>1, <2>5
    <3>7. Waiting(r)' =>
             /\ Waiting(r) /\ client'[call[r].socket] = "open"
             /\ call'[r].phase = "sent" => inflight'[r] = call[r].socket
      BY <2>1, <3>3, <3>4, <3>5, <3>6
    <3> QED BY <3>6, <3>7 DEF CallStays
  <2> QED BY <2>2, <2>4, <2>5
<1> QED BY <1>3, <1>4, <1>5, NodeCalm

LEMMA DisconnectingKeepsHands ==
    ASSUME HandsInv, CallInv', GroundStays, UNCHANGED relayVars, NEW n \in Nodes, NEW k \in Relays,
           Lost(n, k) \/ CloseUrl(n, k), NEW r \in Requests
    PROVE  Kept(r)'
<1>1. PICK s : s = conn[n][k].socket
  OBVIOUS
<1>2. LinkTypeOK /\ NodeInv
  BY DEF HandsInv, CallInv, WsInv
<1>3. /\ UNCHANGED <<up, serving>>
      /\ (s # NoSocket /\ Finalized(s)) \/ UNCHANGED <<client, down, inflight, call>>
  <2>1. CASE Lost(n, k)
    <3>1. conn[n][k].phase \in Live
      BY <2>1 DEF Lost, Live
    <3>2. s # NoSocket
      BY <1>1, <1>2, <3>1, WsLinkAssumption DEF NodeInv, ConnSound
    <3> QED BY <1>1, <2>1, <3>2 DEF Lost
  <2>2. CASE CloseUrl(n, k)
    BY <1>1, <2>2 DEF CloseUrl
  <2> QED BY <2>1, <2>2
<1>4. CASE UNCHANGED <<client, down, inflight, call>>
  <2>1. UpStays(r) /\ DownStays(r)
    BY <1>2, <1>3, <1>4, UpStay, DownStay
  <2>2. ServingStays(r) /\ CallStays(r)
    BY <1>3, <1>4, NothingCalled
  <2> QED BY <2>1, <2>2, NodeCalm
<1>5. CASE s # NoSocket /\ Finalized(s)
  <2>1. s \in Sockets
    BY <1>1, <1>2, <1>5 DEF NodeInv, ConnSound
  <2> QED BY <1>3, <1>5, <2>1, FinalizedKeepsHands
<1> QED BY <1>3, <1>4, <1>5

LEMMA ResolveKeepsHands ==
    ASSUME HandsInv, CallInv', GroundStays, UNCHANGED relayVars, NEW own \in Requests, Resolve(own),
           NEW r \in Requests
    PROVE  Kept(r)'
<1>1. UNCHANGED <<client, remote, up, down, serving>> /\ LinkTypeOK
  BY DEF Resolve, HandsInv, CallInv, WsInv
<1>2. UpStays(r) /\ DownStays(r) /\ ServingStays(r)
  BY <1>1, UpStay, DownStay DEF ServingStays
<1>3. /\ call[own].phase = "sending" /\ call'[r].socket = call[r].socket
      /\ call'[r].raced = call[r].raced
      /\ call'[r].phase = IF r = own THEN "sent" ELSE call[r].phase
      /\ inflight'[r] = IF r = own THEN call[r].socket ELSE inflight[r]
  BY DEF Resolve, HandsInv, CallInv, WsInv, NodeInv, NodeTypes
<1>4. CallStays(r)
  BY <1>1, <1>3 DEF CallStays, Waiting, HandsInv, Kept, InHands
<1> QED BY <1>2, <1>4, NodeCalm

-----------------------------------------------------------------------------
(* Steps of a node about the request itself.                               *)

\* A frame that is not what the caller waits for.
LEMMA SendStays ==
    ASSUME LinkTypeOK, NEW s \in Sockets, NEW f \in Frames, SendOn(s, f), UNCHANGED <<client, down>>,
           NEW r, ~Weighs(f, r)
    PROVE  UpStays(r) /\ DownStays(r)
<1>1. \A x \in Sockets : up'[x] = up[x] \/ up'[x] = Append(up[x], f)
  BY SendOnType
<1> QED BY <1>1, UpStay, DownStay

LEMMA SendKeepsHands ==
    ASSUME HandsInv, CallInv', GroundStays, UNCHANGED <<relayVars, overlap>>, NEW n \in Nodes,
           NEW own \in Requests, NEW v \in Services, NEW d \in Nodes \cup {NoNode},
           Send(n, own, v, d), NEW r \in Requests
    PROVE  Kept(r)'
<1>1. PICK f \in Frames : f = Request(own, v, d) /\ f.type = "request" /\ f.request = own
  BY FrameTypes DEF Request
<1>2. PICK s \in RpcSockets(n, d) :
         /\ call' = [call EXCEPT ![own] = [phase |-> "sending", destination |-> d,
                                           socket |-> s, raced |-> FALSE]]
         /\ SendOn(s, f)
  BY <1>1 DEF Send
<1>3. LinkTypeOK /\ NodeInv
  BY DEF HandsInv, CallInv, WsInv
<1>4. s \in Sockets /\ client[s] = "open" /\ Owner(s) = n
  BY <1>3, RpcSocketsOpen, OpenSocketsOpen
<1>5. /\ call[own].phase = "idle" /\ CallerOf[own] = n
      /\ UNCHANGED <<client, remote, down, inflight, serving>>
  BY DEF Send
<1>6. PICK e : e = [phase |-> "sending", destination |-> d, socket |-> s, raced |-> FALSE]
  OBVIOUS
<1>7. /\ e.phase = "sending" /\ e.socket = s
      /\ call'[r] = IF r = own THEN e ELSE call[r]
  BY <1>2, <1>3, <1>6 DEF NodeInv, NodeTypes
<1>8. ASSUME r # own PROVE Kept(r)'
  <2>1. ~Weighs(f, r)
    BY <1>1, <1>8 DEF Weighs, IsOf, IsFinal
  <2>2. UpStays(r) /\ DownStays(r)
    BY <1>2, <1>3, <1>4, <1>5, <2>1, SendStays
  <2>3. ServingStays(r) /\ CallStays(r)
    BY <1>5, <1>7, <1>8 DEF ServingStays, CallStays, Waiting, HandsInv, Kept, InHands
  <2> QED BY <2>2, <2>3, NodeCalm
<1>9. ASSUME r = own PROVE Kept(r)'
  <2>1. Quiet(r) /\ NoFinal(r) /\ serving[r].by = NoNode
    BY <1>5, <1>9 DEF HandsInv, CallInv, RequestSound, Unstarted
  <2>2. call'[r].phase = "sending" /\ call'[r].socket = s
    BY <1>7, <1>9
  <2>3. Owned(r)'
    BY <1>4, <1>5, <1>9, <2>2 DEF Owned
  <2>4. Addressed(r)'
    <3>1. ASSUME NEW x \in Sockets, NEW g, Has(up'[x], g), IsFinal(g, r) PROVE Has(up[x], g)
      <4>1. PICK queue \in Seq(Frames) : queue = up[x]
        BY <1>3 DEF LinkTypeOK
      <4>2. PICK more : more = up'[x] /\ (more = queue \/ more = Append(queue, f))
        <5>1. up'[x] = up[x] \/ up'[x] = Append(up[x], f)
          BY <1>2, <1>3, <1>4, SendOnType
        <5> QED BY <4>1, <5>1
      <4>3. ~IsFinal(f, r)
        BY <1>1 DEF IsFinal, IsOf
      <4>4. Has(Append(queue, f), g) <=> Has(queue, g) \/ g = f
        BY HasChanges
      <4>5. Has(more, g) => Has(queue, g) \/ g = f
        BY <4>2, <4>4
      <4> QED BY <3>1, <4>1, <4>2, <4>3, <4>5
    <3> QED BY <1>5, <3>1, AddressedKept DEF HandsInv, Kept
  <2>5. Reasoned(r)' /\ Silenced(r)'
    BY <1>5, <2>1 DEF Reasoned, Silenced, Quiet
  <2>6. Placed(r)'
    <3>1. pending' = pending
      BY DEF relayVars
    <3> QED BY <2>1, <3>1 DEF Placed, Quiet
  <2>7. Handled(r, s)'
    <3>1. CASE remote[s] = "open"
      <4>1. PICK queue \in Seq(Frames) : queue = up[s]
        BY <1>3, <1>4 DEF LinkTypeOK
      <4>2. PICK more : more = up'[s] /\ more = Append(queue, f)
        BY <1>2, <1>3, <1>4, <3>1, <4>1, SendOnType
      <4>3. Has(more, f) /\ IsOf(f, "request", r)
        BY <1>1, <1>9, <4>2, HasChanges DEF IsOf
      <4>4. Holds(more, "request", r)
        BY <4>3, HoldsHas
      <4> QED BY <4>2, <4>4 DEF Handled
    <3>2. CASE remote[s] = "closed"
      BY <1>5, <3>2 DEF Handled
    <3>3. remote[s] \in {"open", "closed"}
      BY <1>3, <1>4 DEF HandsInv, Accepted, LinkTypeOK, RemoteStates
    <3> QED BY <3>1, <3>2, <3>3
  <2>8. InHands(r)'
    <3>1. Handled(r, call[r].socket)'
      BY <2>2, <2>7 DEF Handled, Entered, Enlisted
    <3> QED BY <1>4, <1>5, <2>2, <3>1 DEF InHands
  <2> QED BY <2>3, <2>4, <2>5, <2>6, <2>8 DEF Kept
<1> QED BY <1>8, <1>9

\* A call that is cancelled is not waited for.
LEMMA CancelKeepsHands ==
    ASSUME HandsInv, CallInv', GroundStays, UNCHANGED relayVars, NEW n \in Nodes,
           NEW own \in Requests, CancelCall(n, own), NEW r \in Requests
    PROVE  Kept(r)'
<1>1. PICK f \in Frames : f = Cancel(own) /\ f.type = "cancel"
  BY FrameTypes DEF Cancel
<1>2. PICK s : s = call[own].socket
  OBVIOUS
<1>3. /\ call[own].phase = "sent" /\ UNCHANGED <<client, remote, down, serving>>
      /\ call' = [call EXCEPT ![own].phase = "cancelled"]
      /\ inflight' = [inflight EXCEPT ![own] = NoSocket]
      /\ SendOn(s, f)
  BY <1>1, <1>2 DEF CancelCall
<1>4. s \in Sockets
  BY <1>2, <1>3 DEF HandsInv, CallInv, RequestSound, Called
<1>5. LinkTypeOK /\ NodeInv
  BY DEF HandsInv, CallInv, WsInv
<1>6. ~Weighs(f, r)
  BY <1>1 DEF Weighs, IsOf, IsFinal
<1>7. UpStays(r) /\ DownStays(r)
  BY <1>3, <1>4, <1>5, <1>6, SendStays
<1>8. /\ inflight'[r] = IF r = own THEN NoSocket ELSE inflight[r]
      /\ call'[r].socket = call[r].socket /\ call'[r].raced = call[r].raced
      /\ call'[r].phase = IF r = own THEN "cancelled" ELSE call[r].phase
  BY <1>3, <1>5 DEF NodeInv, NodeTypes
<1>9. ServingStays(r) /\ CallStays(r)
  BY <1>3, <1>8 DEF ServingStays, CallStays, Waiting, HandsInv, Kept, InHands
<1> QED BY <1>7, <1>9, NodeCalm

\* What a node reads, and what is left.
LEMMA ReceivesFrame ==
    ASSUME HandsInv, NEW n \in Nodes, NEW k \in Relays, NEW type, Receives(n, k, type),
           NEW r \in Requests
    PROVE  \E s \in Sockets :
              /\ s = conn[n][k].socket /\ Owner(s) = n
              /\ Packet(n, k) \in Frames /\ Packet(n, k).type = type
              /\ Has(down[s], Packet(n, k))
              /\ \A x \in Sockets : \A f :
                    /\ Has(down'[x], f) => Has(down[x], f)
                    /\ Has(down[x], f) => Has(down'[x], f) \/ (x = s /\ f = Packet(n, k))
<1>1. LinkTypeOK /\ NodeInv
  BY DEF HandsInv, CallInv, WsInv
<1>2. PICK s \in Sockets : s = conn[n][k].socket /\ Owner(s) = n
  BY <1>1, ReceivesType
<1>3. PICK queue \in Seq(Frames) : queue = down[s] /\ queue # <<>>
  BY <1>1, <1>2, ReceivesType DEF LinkTypeOK
<1>4. PICK f \in Frames : f = Packet(n, k) /\ f.type = type /\ f = Head(queue)
  BY <1>1, <1>2, <1>3, ReceivesType
<1>5. down' = [down EXCEPT ![s] = Tail(down[s])]
  BY <1>1, <1>2, ReceivesType
<1>6. down'[s] = Tail(queue) /\ \A x \in Sockets \ {s} : down'[x] = down[x]
  BY <1>1, <1>3, <1>5 DEF LinkTypeOK
<1>7. \A g : Has(queue, g) <=> g = f \/ Has(Tail(queue), g)
  BY <1>3, <1>4, HasChanges
<1>8. Has(down[s], f)
  BY <1>3, <1>7
<1>9. ASSUME NEW x \in Sockets, NEW g
      PROVE  /\ Has(down'[x], g) => Has(down[x], g)
             /\ Has(down[x], g) => Has(down'[x], g) \/ (x = s /\ g = f)
  BY <1>3, <1>6, <1>7
<1> QED BY <1>2, <1>4, <1>8, <1>9

\* The last frame of the answer ends the call it is waited for by.
LEMMA ResponseArrivesKeepsHands ==
    ASSUME HandsInv, CallInv', GroundStays, UNCHANGED relayVars, NEW n \in Nodes, NEW k \in Relays,
           ResponseArrives(n, k), NEW r \in Requests
    PROVE  Kept(r)'
<1>1. Receives(n, k, "response") /\ UNCHANGED <<client, remote, up, serving>>
  BY DEF ResponseArrives
<1>2. PICK s \in Sockets :
              /\ s = conn[n][k].socket /\ Owner(s) = n
              /\ Packet(n, k) \in Frames /\ Packet(n, k).type = "response"
              /\ Has(down[s], Packet(n, k))
              /\ \A x \in Sockets : \A f :
                    /\ Has(down'[x], f) => Has(down[x], f)
                    /\ Has(down[x], f) => Has(down'[x], f) \/ (x = s /\ f = Packet(n, k))
  BY <1>1, ReceivesFrame
<1>3. PICK f \in Frames : f = Packet(n, k) /\ f.type = "response"
  BY <1>2
<1>4. call \in [Requests -> CallRecords] /\ inflight \in [Requests -> Sockets \cup {NoSocket}]
  BY DEF HandsInv, CallInv, WsInv, NodeInv, NodeTypes, CallRecords
<1>5. PICK q \in Requests : q = f.request
  BY <1>3, FrameParts
<1>6. PICK d : d = f.sender
  OBVIOUS
<1>7. /\ inflight' = IF f.end # "more" THEN [inflight EXCEPT ![q] = NoSocket] ELSE inflight
      /\ call' = IF ~(CallerOf[q] = n /\ call[q].phase = "sent") THEN call
                 ELSE IF f.end # "more" THEN [call EXCEPT ![q].phase = "answered"]
                 ELSE [call EXCEPT ![q].destination = d]
  BY <1>3, <1>5, <1>6 DEF ResponseArrives
<1>8. ServingStays(r)
  BY <1>1 DEF ServingStays
<1>9. ASSUME r # q \/ f.end = "more" PROVE Kept(r)'
  <2>1. ~Weighs(f, r)
    BY <1>3, <1>5, <1>9 DEF Weighs, IsOf, IsFinal
  <2>2. UpStays(r) /\ DownStays(r)
    BY <1>1, <1>3, <2>1, ReceivesStays
  <2>3. /\ call'[r].socket = call[r].socket /\ call'[r].raced = call[r].raced
        /\ call'[r].phase = call[r].phase /\ inflight'[r] = inflight[r]
    BY <1>4, <1>7, <1>9 DEF CallRecords
  <2>4. CallStays(r)
    BY <1>1, <2>3 DEF CallStays, Waiting, HandsInv, Kept, InHands
  <2> QED BY <1>8, <2>2, <2>4, NodeCalm
<1>10. ASSUME r = q, f.end # "more" PROVE Kept(r)'
  <2>1. IsFinal(f, r)
    BY <1>3, <1>5, <1>10 DEF IsFinal, IsOf
  <2>2. HoldsFinal(down[s], r)
    BY <1>2, <1>3, <2>1, HoldsHas
  <2>3. n = CallerOf[r]
    BY <1>2, <2>2 DEF HandsInv, Kept, Addressed
  <2>4. call[r].phase # "sending"
    BY <1>1, <2>3 DEF Receives, Settled
  <2>5. /\ call'[r].socket = call[r].socket
        /\ call'[r].phase = IF call[r].phase = "sent" THEN "answered" ELSE call[r].phase
    BY <1>4, <1>7, <1>10, <2>3 DEF CallRecords
  <2>6. InHands(r)'
    BY <2>4, <2>5 DEF InHands, Waiting
  <2>7. ASSUME NEW x \in Sockets
        PROVE  /\ \A type : Holds(down'[x], type, r) => Holds(down[x], type, r)
               /\ HoldsFinal(down'[x], r) => HoldsFinal(down[x], r)
    BY <1>2, HoldsHas
  <2>8. Addressed(r)'
    BY <1>1, <2>7, AddressedKept DEF HandsInv, Kept
  <2>9. \A h \in Relays : pending'[h][r] \in {pending[h][r], NoEntry}
    BY DEF relayVars
  <2> QED BY <1>8, <2>5, <2>6, <2>7, <2>8, <2>9, KeptWith
<1> QED BY <1>9, <1>10

\* The provider has the request: it is the one the relay has in mind.
LEMMA RequestArrivesKeepsHands ==
    ASSUME HandsInv, CallInv', GroundStays, UNCHANGED <<relayVars, overlap>>, NEW n \in Nodes,
           NEW k \in Relays, RequestArrives(n, k), NEW r \in Requests
    PROVE  Kept(r)'
<1>1. Receives(n, k, "request") /\ UNCHANGED <<client, remote, up, inflight, call>>
  BY DEF RequestArrives
<1>2. PICK s \in Sockets :
              /\ s = conn[n][k].socket /\ Owner(s) = n
              /\ Packet(n, k) \in Frames /\ Packet(n, k).type = "request"
              /\ Has(down[s], Packet(n, k))
              /\ \A x \in Sockets : \A f :
                    /\ Has(down'[x], f) => Has(down[x], f)
                    /\ Has(down[x], f) => Has(down'[x], f) \/ (x = s /\ f = Packet(n, k))
  BY <1>1, ReceivesFrame
<1>3. PICK f \in Frames : f = Packet(n, k) /\ f.type = "request"
  BY <1>2
<1>4. PICK q \in Requests : q = f.request
  BY <1>3, FrameParts
<1>5. PICK e : e = [by |-> n, via |-> s, made |-> 0, mute |-> FALSE]
  OBVIOUS
<1>6. /\ e.by = n /\ e.via = s /\ e.mute = FALSE
      /\ serving'[r] = IF r = q THEN e ELSE serving[r]
  BY <1>2, <1>3, <1>4, <1>5 DEF RequestArrives, HandsInv, CallInv, WsInv, NodeInv, NodeTypes
<1>7. ASSUME r # q PROVE Kept(r)'
  <2>1. ~Weighs(f, r)
    BY <1>3, <1>4, <1>7 DEF Weighs, IsOf, IsFinal
  <2>2. UpStays(r) /\ DownStays(r)
    BY <1>1, <1>3, <2>1, ReceivesStays
  <2>3. ServingStays(r) /\ CallStays(r)
    BY <1>1, <1>6, <1>7 DEF ServingStays, CallStays, Waiting, HandsInv, Kept, InHands
  <2> QED BY <2>2, <2>3, NodeCalm
<1>8. ASSUME r = q PROVE Kept(r)'
  <2>1. Kept(r) /\ RequestSound(r)
    BY DEF HandsInv, CallInv
  <2>2. IsOf(f, "request", r) /\ ~IsFinal(f, r)
    BY <1>3, <1>4, <1>8 DEF IsOf, IsFinal
  <2>3. Holds(down[s], "request", r)
    BY <1>2, <1>3, <2>2, HoldsHas
  <2>4. ASSUME NEW x \in Sockets
        PROVE  /\ \A type : Holds(down'[x], type, r) => Holds(down[x], type, r)
               /\ HoldsFinal(down'[x], r) <=> HoldsFinal(down[x], r)
    BY <1>2, <1>3, <2>2, HoldsHas
  <2>5. UNCHANGED pending
    BY DEF relayVars
  <2>6. Owned(r)'
    BY <1>1, <2>1 DEF Kept, Owned
  <2>7. Addressed(r)'
    BY <1>1, <2>1, <2>4, AddressedKept DEF Kept
  <2>8. Reasoned(r)'
    BY <1>1, <2>1, <2>4 DEF Kept, Reasoned
  <2>9. serving'[r].by = n /\ serving'[r].via = s /\ serving'[r].mute = FALSE
    BY <1>6, <1>8
  <2>10. \A h \in Relays : pending[h][r] # NoEntry => pending[h][r].provider = s
    BY <2>1, <2>3 DEF Kept, Placed
  <2>11. Placed(r)'
    <3>1. ASSUME NEW h \in Relays, pending'[h][r] # NoEntry
          PROVE  /\ \A x \in Sockets : Holds(down'[x], "request", r) => pending'[h][r].provider = x
                 /\ serving'[r].by # NoNode => pending'[h][r].provider = serving'[r].via
      BY <2>1, <2>4, <2>5, <2>9, <2>10, <3>1 DEF Kept, Placed
    <3> QED BY <3>1 DEF Placed
  <2>12. Silenced(r)'
    BY <2>9 DEF Silenced
  <2>13. InHands(r)'
    <3> SUFFICES ASSUME Waiting(r)' PROVE InHands(r)'
      BY DEF InHands
    <3>1. PICK c : c = call[r].socket
      OBVIOUS
    <3>2. Waiting(r)
      BY <1>1 DEF Waiting
    <3>3. c \in Sockets
      BY <2>1, <3>1, <3>2 DEF Waiting, RequestSound, Called
    <3>4. /\ client[c] = "open" /\ (call[r].phase = "sent" => inflight[r] = c)
          /\ Handled(r, c)
      BY <2>1, <3>1, <3>2 DEF Kept, InHands
    <3>5. ~Holds(up[c], "request", r)
      BY <2>1, <2>3, <3>3 DEF RequestSound, GoingUp, Quiet
    <3>6. HoldsFinal(down'[c], r) <=> HoldsFinal(down[c], r)
      BY <2>4, <3>3
    <3>7. Entered(r, c) => Entered(r, c)'
      <4> SUFFICES ASSUME Entered(r, c) PROVE Entered(r, c)'
        OBVIOUS
      <4>1. PICK h \in Relays : h = RelayOf(c)
        BY <3>3, SocketParts
      <4>2. pending[h][r] # NoEntry /\ Enlisted(c) /\ pending[h][r].provider = s
        BY <2>10, <4>1 DEF Entered
      <4>3. Owed(r, s)'
        BY <1>2, <2>9 DEF Owed
      <4>4. Enlisted(c)'
        BY <4>2 DEF Enlisted, relayVars
      <4>5. pending'[h][r] # NoEntry /\ pending'[h][r].provider = s
        BY <2>5, <4>2
      <4>6. Owed(r, pending[h][r].provider)'
        BY <4>3, <4>5 DEF Owed
      <4> QED BY <4>1, <4>4, <4>5, <4>6 DEF Entered
    <3>8. Handled(r, c)'
      BY <1>1, <3>4, <3>5, <3>6, <3>7 DEF Handled
    <3>9. Handled(r, call[r].socket)'
      BY <1>1, <3>1, <3>8 DEF Handled, Entered, Enlisted
    <3> QED BY <1>1, <3>1, <3>4, <3>9 DEF InHands
  <2> QED BY <2>6, <2>7, <2>8, <2>11, <2>12, <2>13 DEF Kept
<1> QED BY <1>7, <1>8

\* A cancel reaches the provider only when nobody waits, or when the caller's socket is lost.
LEMMA CancelArrivesKeepsHands ==
    ASSUME HandsInv, CallInv', GroundStays, UNCHANGED <<relayVars, overlap>>, NEW n \in Nodes,
           NEW k \in Relays, CancelArrives(n, k), NEW r \in Requests
    PROVE  Kept(r)'
<1>1. Receives(n, k, "cancel") /\ UNCHANGED <<client, remote, up, inflight, call>>
  BY DEF CancelArrives
<1>2. PICK s \in Sockets :
              /\ s = conn[n][k].socket /\ Owner(s) = n
              /\ Packet(n, k) \in Frames /\ Packet(n, k).type = "cancel"
              /\ Has(down[s], Packet(n, k))
              /\ \A x \in Sockets : \A f :
                    /\ Has(down'[x], f) => Has(down[x], f)
                    /\ Has(down[x], f) => Has(down'[x], f) \/ (x = s /\ f = Packet(n, k))
  BY <1>1, ReceivesFrame
<1>3. PICK f \in Frames : f = Packet(n, k) /\ f.type = "cancel"
  BY <1>2
<1>4. PICK q \in Requests : q = f.request
  BY <1>3, FrameParts
<1>5. /\ Unserved.by = NoNode
      /\ serving'[r] = serving[r] \/ (r = q /\ serving'[r] = Unserved)
  BY <1>3, <1>4 DEF CancelArrives, Unserved, HandsInv, CallInv, WsInv, NodeInv, NodeTypes
<1>6. ServingStays(r) \/ (r = q /\ serving'[r].by = NoNode)
  BY <1>5 DEF ServingStays
<1>7. ASSUME r # q PROVE Kept(r)'
  <2>1. ~Weighs(f, r)
    BY <1>3, <1>4, <1>7 DEF Weighs, IsOf, IsFinal
  <2>2. UpStays(r) /\ DownStays(r)
    BY <1>1, <1>3, <2>1, ReceivesStays
  <2>3. ServingStays(r) /\ CallStays(r)
    BY <1>1, <1>6, <1>7 DEF CallStays, Waiting, HandsInv, Kept, InHands
  <2> QED BY <2>2, <2>3, NodeCalm
<1>8. ASSUME r = q PROVE Kept(r)'
  <2>1. Kept(r) /\ RequestSound(r)
    BY DEF HandsInv, CallInv
  <2>2. IsOf(f, "cancel", r)
    BY <1>3, <1>4, <1>8 DEF IsOf
  <2>3. Holds(down[s], "cancel", r)
    BY <1>2, <1>3, <2>2, HoldsHas
  <2>4. call[r].phase = "cancelled" \/ remote[call[r].socket] = "closed"
    BY <2>1, <2>3 DEF Kept, Reasoned
  <2>5. ASSUME NEW x \in Sockets
        PROVE  /\ \A type : Holds(down'[x], type, r) => Holds(down[x], type, r)
               /\ HoldsFinal(down'[x], r) => HoldsFinal(down[x], r)
    BY <1>2, HoldsHas
  <2>6. Addressed(r)'
    BY <1>1, <2>1, <2>5, AddressedKept DEF Kept
  <2>7. InHands(r)'
    BY <1>1, <2>1, <2>4 DEF Kept, InHands, Waiting, Handled
  <2>8. \A h \in Relays : pending'[h][r] \in {pending[h][r], NoEntry}
    BY DEF relayVars
  <2> QED BY <1>1, <1>6, <2>5, <2>6, <2>7, <2>8, KeptWith
<1> QED BY <1>7, <1>8

\* With one relay the answer takes the socket that the request came on.
LEMMA ReplyTakes ==
    ASSUME NEW only, Relays = {only}, HandsInv, NEW n \in Nodes, NEW r \in Requests,
           serving[r].by = n
    PROVE  /\ serving[r].via \in Sockets /\ Owner(serving[r].via) = n
           /\ client[serving[r].via] \in {"open", "closed"}
           /\ \A d \in Nodes \cup {NoNode} :
                 /\ RpcSockets(n, d) = {} => client[serving[r].via] = "closed"
                 /\ client[serving[r].via] = "open" =>
                       \A s \in RpcSockets(n, d) : s = serving[r].via
<1>1. NodeInv /\ n # NoNode
  BY WsLinkAssumption DEF HandsInv, CallInv, WsInv
<1>2. PICK v \in Sockets : /\ v = serving[r].via /\ Owner(v) = n
                           /\ client[v] \in {"open", "closed"}
  BY <1>1 DEF HandsInv, CallInv, RequestSound, Served
<1>3. ASSUME NEW d \in Nodes \cup {NoNode}, RpcSockets(n, d) = {} PROVE client[v] = "closed"
  <2>1. OpenSockets(n) = {}
    BY <1>3 DEF RpcSockets
  <2> QED BY <1>1, <1>2, <2>1, OpenSocketsOpen
<1>4. ASSUME NEW d \in Nodes \cup {NoNode}, client[v] = "open", NEW s \in RpcSockets(n, d)
      PROVE  s = v
  <2>1. s \in OpenSockets(n)
    BY <1>1, <1>4, RpcSocketsOpen
  <2>2. v \in OpenSockets(n)
    BY <1>1, <1>2, <1>4, OpenSocketsOpen
  <2>3. s \in Sockets /\ RelayOf(s) = RelayOf(v)
    BY <1>1, <2>1, <2>2, OpenSocketsOpen, SocketParts
  <2> QED BY <1>1, <2>1, <2>2, <2>3, OpenSocketsOpen
<1> QED BY <1>2, <1>3, <1>4

LEMMA ReplyKeepsHands ==
    ASSUME NEW only, Relays = {only},
           HandsInv, CallInv', GroundStays, UNCHANGED <<relayVars, overlap>>, NEW n \in Nodes,
           NEW own \in Requests, NEW end \in {"more", "completed"}, Reply(n, own, end),
           NEW r \in Requests
    PROVE  Kept(r)'
<1>1. PICK caller \in Nodes : caller = CallerOf[own]
  BY WsLinkAssumption
<1>2. PICK f \in Frames : /\ f = Response(own, n, caller, end)
                          /\ f.type = "response" /\ f.request = own /\ f.end = end
                          /\ f.destination = caller
  <2>1. PICK f : f = Response(own, n, caller, end)
    OBVIOUS
  <2>2. f \in Frames
    BY <2>1, FrameTypes DEF Ends
  <2>3. f.type = "response" /\ f.request = own /\ f.end = end /\ f.destination = caller
    BY <2>1 DEF Response
  <2> QED BY <2>1, <2>2, <2>3
<1>3. UNCHANGED <<client, remote, down, inflight, call>> /\ serving[own].by = n
  BY DEF Reply
<1>4. LinkTypeOK /\ NodeInv
  BY DEF HandsInv, CallInv, WsInv
<1>5. PICK mute : mute = (serving[own].mute \/ RpcSockets(n, caller) = {})
  OBVIOUS
<1>6. PICK made : made = serving[own].made + 1
  OBVIOUS
<1>7. serving' = IF end = "more" THEN [serving EXCEPT ![own].made = made, ![own].mute = mute]
                 ELSE [serving EXCEPT ![own] = Unserved]
  BY <1>1, <1>5, <1>6 DEF Reply
<1>8. (mute /\ up' = up) \/ (~mute /\ \E s \in RpcSockets(n, caller) : SendOn(s, f))
  BY <1>1, <1>2, <1>5 DEF Reply
<1>9. \A s \in RpcSockets(n, caller) : s \in Sockets /\ client[s] = "open"
  BY <1>4, RpcSocketsOpen, OpenSocketsOpen
<1>10. PICK v \in Sockets :
              /\ v = serving[own].via /\ Owner(v) = n /\ client[v] \in {"open", "closed"}
              /\ RpcSockets(n, caller) = {} => client[v] = "closed"
              /\ client[v] = "open" => \A s \in RpcSockets(n, caller) : s = v
  BY <1>3, ReplyTakes
<1>11. mute => client[v] = "closed"
  <2>1. n # NoNode
    BY WsLinkAssumption
  <2> QED BY <1>3, <1>5, <1>10, <2>1 DEF HandsInv, Kept, Silenced
<1>12. \A x \in Sockets : up'[x] = up[x] \/ up'[x] = Append(up[x], f)
  BY <1>4, <1>8, <1>9, SendOnType
<1>13. Unserved.by = NoNode
  BY DEF Unserved
<1>14. /\ r # own => serving'[r] = serving[r]
       /\ r = own /\ end = "more" => /\ serving'[r].by = serving[r].by
                                     /\ serving'[r].via = serving[r].via
                                     /\ serving'[r].mute = mute
       /\ r = own /\ end # "more" => serving'[r].by = NoNode
  BY <1>7, <1>13, <1>4 DEF NodeInv, NodeTypes
<1>15. ASSUME r # own \/ end = "more" PROVE Kept(r)'
  <2>1. ~Weighs(f, r)
    BY <1>2, <1>15 DEF Weighs, IsOf, IsFinal
  <2>2. UpStays(r) /\ DownStays(r)
    BY <1>3, <1>4, <1>12, <2>1, UpStay, DownStay
  <2>3. ServingStays(r)
    BY <1>10, <1>11, <1>14, <1>15 DEF ServingStays
  <2>4. CallStays(r)
    BY <1>3 DEF CallStays, Waiting, HandsInv, Kept, InHands
  <2> QED BY <2>2, <2>3, <2>4, NodeCalm
<1>16. ASSUME r = own, end # "more" PROVE Kept(r)'
  <2>1. Kept(r) /\ RequestSound(r)
    BY DEF HandsInv, CallInv
  <2>2. serving[r].by = n /\ n # NoNode /\ serving'[r].by = NoNode
    BY <1>3, <1>14, <1>16, WsLinkAssumption
  <2>3. IsFinal(f, r) /\ f.destination = CallerOf[r]
    BY <1>1, <1>2, <1>16 DEF IsFinal, IsOf
  <2>4. ASSUME NEW x \in Sockets, NEW g, Has(up'[x], g), IsFinal(g, r)
        PROVE  Has(up[x], g) \/ g.destination = CallerOf[r]
    <3>1. PICK queue \in Seq(Frames) : queue = up[x]
      BY <1>4 DEF LinkTypeOK
    <3>2. PICK more : more = up'[x] /\ (more = queue \/ more = Append(queue, f))
      <4>1. up'[x] = up[x] \/ up'[x] = Append(up[x], f)
        BY <1>12
      <4> QED BY <3>1, <4>1
    <3>3. Has(Append(queue, f), g) <=> Has(queue, g) \/ g = f
      BY HasChanges
    <3> QED BY <2>3, <2>4, <3>1, <3>2, <3>3
  <2>5. Addressed(r)'
    BY <1>3, <2>1, <2>4, AddressedKept DEF Kept
  <2>6. UNCHANGED pending
    BY DEF relayVars
  <2>7. InHands(r)'
    <3> SUFFICES ASSUME Waiting(r)' PROVE InHands(r)'
      BY DEF InHands
    <3>1. PICK c : c = call[r].socket
      OBVIOUS
    <3>2. Waiting(r)
      BY <1>3 DEF Waiting
    <3>3. c \in Sockets
      BY <2>1, <3>1, <3>2 DEF Waiting, RequestSound, Called
    <3>4. /\ client[c] = "open" /\ (call[r].phase = "sent" => inflight[r] = c)
          /\ Handled(r, c)
      BY <2>1, <3>1, <3>2 DEF Kept, InHands
    <3>5. ~Holds(up[c], "request", r)
      BY <2>1, <2>2, <3>3 DEF RequestSound, GoingUp
    <3>6. Entered(r, c) => Entered(r, c)'
      <4> SUFFICES ASSUME Entered(r, c) PROVE Entered(r, c)'
        OBVIOUS
      <4>1. PICK h \in Relays : h = RelayOf(c)
        BY <3>3, SocketParts
      <4>2. pending[h][r] # NoEntry /\ Enlisted(c) /\ pending[h][r].provider = v
        BY <1>10, <1>16, <2>1, <2>2, <4>1 DEF Entered, Kept, Placed
      <4>3. remote[v] = "open"
        BY <4>2 DEF HandsInv, CallInv, WsInv, RelayInv, PendingSound, LiveAt
      <4>4. CASE client[v] = "closed"
        <5>1. Owed(r, v)'
          BY <1>3, <4>4 DEF Owed
        <5> QED BY <2>6, <4>1, <4>2, <5>1 DEF Entered, Enlisted, Owed, relayVars
      <4>5. CASE client[v] = "open"
        <5>1. SendOn(v, f)
          BY <1>8, <1>10, <1>11, <4>5
        <5>2. PICK queue \in Seq(Frames) : queue = up[v]
          BY <1>4 DEF LinkTypeOK
        <5>3. PICK more : more = up'[v] /\ more = Append(queue, f)
          BY <1>4, <4>3, <4>5, <5>1, <5>2, SendOnType
        <5>4. Has(more, f)
          BY <5>3, HasChanges
        <5>5. HoldsFinal(more, r)
          BY <2>3, <5>4, HoldsHas
        <5>6. Owed(r, v)'
          BY <5>3, <5>5 DEF Owed
        <5> QED BY <2>6, <4>1, <4>2, <5>6 DEF Entered, Enlisted, Owed, relayVars
      <4> QED BY <1>10, <4>4, <4>5
    <3>7. Handled(r, c)'
      BY <1>3, <3>4, <3>5, <3>6 DEF Handled
    <3>8. Handled(r, call[r].socket)'
      BY <1>3, <3>1, <3>7 DEF Handled, Entered, Enlisted
    <3> QED BY <1>3, <3>1, <3>4, <3>8 DEF InHands
  <2>8. \A h \in Relays : pending'[h][r] \in {pending[h][r], NoEntry}
    BY <2>6
  <2> QED BY <1>3, <2>2, <2>5, <2>7, <2>8, KeptWith
<1> QED BY <1>15, <1>16

LEMMA NodeKeepsHands ==
    ASSUME NEW only, Relays = {only},
           HandsInv, CallInv', GroundStays, UNCHANGED <<relayVars, overlap>>, NEW n \in Nodes,
           NodeStep(n), NEW r \in Requests
    PROVE  Kept(r)'
<1>1. ASSUME NEW k \in Relays, Connect(n, k) \/ Reconnect(n, k) PROVE Kept(r)'
  BY <1>1, DialKeepsHands DEF Connect, Reconnect
<1>2. ASSUME NEW k \in Relays, Opened(n, k) PROVE Kept(r)'
  BY <1>2, OpenedKeepsHands
<1>3. ASSUME NEW k \in Relays, Lost(n, k) \/ CloseUrl(n, k) PROVE Kept(r)'
  BY <1>3, DisconnectingKeepsHands
<1>4. ASSUME NEW k \in Relays, HelloArrives(n, k) \/ OfflineArrives(n, k) \/ PublishArrives(n, k)
      PROVE  Kept(r)'
  BY <1>4, HearingKeepsHands
<1>5. ASSUME NEW k \in Relays, ResponseArrives(n, k) PROVE Kept(r)'
  BY <1>5, ResponseArrivesKeepsHands
<1>6. ASSUME NEW k \in Relays, RequestArrives(n, k) PROVE Kept(r)'
  BY <1>6, RequestArrivesKeepsHands
<1>7. ASSUME NEW k \in Relays, CancelArrives(n, k) PROVE Kept(r)'
  BY <1>7, CancelArrivesKeepsHands
<1>8. ASSUME \/ \E services \in SUBSET Services : Announce(n, services)
             \/ \E t \in Topics : Listen(n, t) \/ Unlisten(n, t) \/ LingerEnds(n, t)
                                  \/ PublishTo(n, t)
      PROVE  Kept(r)'
  BY <1>8, SpeakingUpKeepsHands
<1>9. ASSUME NEW own \in Requests, NEW v \in Services, NEW d \in Nodes \cup {NoNode},
             Send(n, own, v, d)
      PROVE  Kept(r)'
  BY <1>9, SendKeepsHands
<1>10. ASSUME NEW own \in Requests, Resolve(own) PROVE Kept(r)'
  BY <1>10, ResolveKeepsHands
<1>11. ASSUME NEW own \in Requests, CancelCall(n, own) PROVE Kept(r)'
  BY <1>11, CancelKeepsHands
<1>12. ASSUME NEW own \in Requests, NEW end \in {"more", "completed"}, Reply(n, own, end)
       PROVE  Kept(r)'
  BY <1>12, ReplyKeepsHands
<1> QED BY <1>1, <1>2, <1>3, <1>4, <1>5, <1>6, <1>7, <1>8, <1>9, <1>10, <1>11, <1>12 DEF NodeStep

LEMMA HandsInvInit == Init => HandsInv
<1> SUFFICES ASSUME Init PROVE HandsInv
  OBVIOUS
<1>1. CallInv /\ TopicInv
  BY CallInvInit, TopicInvInit
<1>2. \A x \in Sockets : client[x] = "unused" /\ up[x] = <<>> /\ down[x] = <<>>
  BY DEF Init, LinkInit
<1>3. Accepted /\ Enlisting
  BY <1>2 DEF Accepted, Enlisting, Alone
<1>4. ASSUME NEW r \in Requests PROVE Kept(r)
  <2>1. call[r].phase = "idle" /\ serving[r].by = NoNode
    BY DEF Init, NodeInit, Uncalled, Unserved
  <2>2. \A k \in Relays : pending[k][r] = NoEntry
    BY DEF Init, RelayInit
  <2>3. \A x \in Sockets : /\ \A f : ~Has(up[x], f)
                           /\ ~HoldsFinal(down[x], r) /\ ~Holds(down[x], "cancel", r)
    BY <1>2, HoldsEmpty DEF Has
  <2>4. Owned(r) /\ Addressed(r) /\ Reasoned(r)
    BY <2>1, <2>3 DEF Owned, Addressed, Reasoned
  <2>5. Placed(r) /\ Silenced(r) /\ InHands(r)
    BY <2>1, <2>2 DEF Placed, Silenced, InHands, Waiting
  <2> QED BY <2>4, <2>5 DEF Kept
<1> QED BY <1>1, <1>3, <1>4 DEF HandsInv

LEMMA HandsInvNext ==
    ASSUME NEW only, Relays = {only}
    PROVE  HandsInv /\ [Next]_vars => HandsInv'
<1> SUFFICES ASSUME HandsInv, [Next]_vars PROVE HandsInv'
  OBVIOUS
<1>1. CallInv' /\ TopicInv' /\ Ground
  BY CallInvNext, TopicInvNext DEF HandsInv, Ground
<1>2. CASE RelayActs
  <2>1. GroundStays
    BY <1>1, <1>2, RelayKeepsGround
  <2>2. \A r \in Requests : Kept(r)'
    BY <1>1, <1>2, <2>1, RelayKeepsHands DEF RelayActs
  <2> QED BY <1>1, <2>1, <2>2 DEF HandsInv, GroundStays
<1>3. CASE NodeActs
  <2>1. GroundStays
    BY <1>1, <1>3, NodeKeepsGround
  <2>2. \A r \in Requests : Kept(r)'
    BY <1>1, <1>3, <2>1, NodeKeepsHands DEF NodeActs
  <2> QED BY <1>1, <2>1, <2>2 DEF HandsInv, GroundStays
<1>4. CASE UNCHANGED vars
  <2>1. UNCHANGED <<client, remote, up, down, nodes, pending, inflight, call, serving, overlap>>
    BY <1>4 DEF vars, linkVars, relayVars, nodeVars
  <2>2. Accepted' /\ Enlisting'
    BY <2>1 DEF HandsInv, Accepted, Enlisting, Alone, Enlisted
  <2>3. GroundStays
    BY <2>1, <2>2 DEF GroundStays, Enlisted
  <2>4. ASSUME NEW r \in Requests PROVE Kept(r)'
    <3>1. UpStays(r) /\ DownStays(r)
      BY <2>1 DEF UpStays, DownStays
    <3>2. ServingStays(r) /\ CallStays(r)
      BY <2>1, NothingCalled
    <3>3. PendingStays(r)
      BY <2>1 DEF PendingStays
    <3> QED BY <1>1, <2>3, <3>1, <3>2, <3>3, CalmKeeps
  <2> QED BY <1>1, <2>2, <2>4 DEF HandsInv
<1> QED BY <1>2, <1>3, <1>4 DEF Next

\* With one relay no call is forgotten: as long as a caller waits, its request is on its way,
\* at the relay with a provider that owes the answer, or answered, or a socket whose loss will
\* end it has been lost, whatever sockets are lost and however often the relay crashes (the
\* same two cases left out as in the property).
THEOREM CallsAreKept ==
    ASSUME NEW only, Relays = {only}
    PROVE  Spec => []CallsAreInGoodHands
<1>1. HandsInv => CallsAreInGoodHands
  <2> SUFFICES ASSUME HandsInv, NEW r \in Requests, call[r].phase = "sent", ~call[r].raced
               PROVE  /\ inflight[r] = call[r].socket
                      /\ client[call[r].socket] = "open"
                      /\ \/ remote[call[r].socket] = "closed"
                         \/ Holds(up[call[r].socket], "request", r)
                         \/ /\ pending[RelayOf(call[r].socket)][r] # NoEntry
                            /\ AtProvider(r, pending[RelayOf(call[r].socket)][r].provider)
                         \/ \E t \in OpenSockets(CallerOf[r]) : HoldsFinal(down[t], r)
                         \/ <<CallerOf[r], RelayOf(call[r].socket)>> \in overlap
    BY DEF CallsAreInGoodHands
  <2>1. PICK s \in Sockets : s = call[r].socket
    BY DEF HandsInv, CallInv, RequestSound, Called
  <2>2. inflight[r] = s /\ client[s] = "open" /\ Handled(r, s) /\ Owner(s) = CallerOf[r]
    BY <2>1 DEF HandsInv, Kept, InHands, Waiting, Owned
  <2>3. PICK k \in Relays : k = RelayOf(s)
    BY <2>1, SocketParts
  <2>4. s \in OpenSockets(CallerOf[r])
    <3>1. CallerOf[r] \in Nodes /\ NodeInv
      BY WsLinkAssumption DEF HandsInv, CallInv, WsInv
    <3> QED BY <2>2, <3>1, OpenSocketsOpen
  <2>5. Entered(r, s) => pending[k][r] # NoEntry /\ AtProvider(r, pending[k][r].provider)
    <3> SUFFICES ASSUME Entered(r, s)
                 PROVE  pending[k][r] # NoEntry /\ AtProvider(r, pending[k][r].provider)
      OBVIOUS
    <3>1. pending[k][r] # NoEntry /\ Owed(r, pending[k][r].provider)
      BY <2>3 DEF Entered
    <3>2. PICK q \in Sockets : q = pending[k][r].provider /\ remote[q] = "open"
      BY <3>1 DEF HandsInv, CallInv, WsInv, RelayInv, PendingSound, LiveAt
    <3> QED BY <3>1, <3>2 DEF Owed, AtProvider
  <2> QED BY <2>1, <2>2, <2>3, <2>4, <2>5 DEF Handled
<1> QED BY <1>1, HandsInvInit, HandsInvNext, PTL DEF Spec

=============================================================================
