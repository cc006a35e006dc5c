-------------------------- MODULE ServiceCallProofs --------------------------
(***************************************************************************)
(* Theorems about ServiceCall, for every value of its constants: the calls *)
(* it makes are calls of RpcCall, and the slots of the limited method are  *)
(* exact.                                                                  *)
(***************************************************************************)
EXTENDS ServiceCall, RpcCallProofs, FiniteSetTheorems

-----------------------------------------------------------------------------
(* Every step of ServiceCall is a step of RpcCall, or leaves its calls alone. *)

LEMMA CallSteps == [ServiceNext]_serviceVars => [Next]_vars
<1> SUFFICES ASSUME [ServiceNext]_serviceVars
             PROVE  [Next]_vars
  OBVIOUS
<1>1. CASE LimitedStep
  BY <1>1 DEF LimitedStep, MethodArrives, MethodSettles, MethodStreams, MethodStreamEnds,
              MethodCancelled, Next, ProviderStep
<1>2. CASE RemoteStep
  <2>1. \A r \in Requests : Leaves(r) \subseteq BOOLEAN
    BY DEF Leaves
  <2> QED BY <1>2, <2>1 DEF RemoteStep, Observed, Awaited, Next, CallerStep
<1>3. CASE \E c \in Calls, b \in BOOLEAN : Batch(c, BatchNodes, b)
  <2>1. BatchNodes \subseteq Nodes
    BY ServiceCallAssumption DEF BatchNodes, RoutableNodes
  <2> QED BY <1>3, <2>1 DEF Batch, Next, CallerStep
<1>4. CASE \E r \in Requests : \/ RequestArrives(r, FALSE)
                               \/ StreamEmits(r)
                               \/ \E b \in BOOLEAN : ReplySends(r, b)
                               \/ ReplyFails(r)
  BY <1>4 DEF Next, ProviderStep
<1>5. CASE UNCHANGED vars
  BY <1>5
<1>6. CASE CallStep
  BY <1>1, <1>2, <1>3, <1>4, <1>5, <1>6 DEF CallStep, PlainStep
<1>7. CASE WaitStep
  BY <1>5, <1>7 DEF WaitStep, callVars
<1>8. CASE UNCHANGED serviceVars
  BY <1>5, <1>8 DEF serviceVars, callVars
<1> QED BY <1>6, <1>7, <1>8 DEF ServiceNext

\* A proxy over limited methods behaves as callRemoteService promises, step by step: waiting,
\* awaiting, batches and slots add no behaviour to the calls (RemoteService.ts, LimitConcurrency.ts).
THEOREM ServiceMakesCalls == ServiceSpec => Spec
<1>1. ServiceInit => Init
  BY DEF ServiceInit
<1> QED BY <1>1, CallSteps, PTL DEF ServiceSpec, Spec

\* What is proved of calls holds of the calls of a proxy: #rpc.pending, cancels, offline events
\* and #rpc.running are exact whichever way a service was waited for and is called
\* (SpiderMesh.ts:254-340, 420-505).
THEOREM ServiceCallsAreSafe ==
    ServiceSpec => /\ [](TypeOK /\ PendingIsCurrent /\ CancelsAreExact /\ RunningMatchesStreams)
                   /\ OfflineSparesOthers
BY ServiceMakesCalls, TypeCorrect, PendingExact, CancelsExact, RunningIsExact, OfflineIsPrecise, PTL

-----------------------------------------------------------------------------
(* Filling the slots from the queue.                                       *)

Items(queue) == {queue[k] : k \in DOMAIN queue}
Once(queue) == \A i, j \in DOMAIN queue : queue[i] = queue[j] => i = j

\* No slot is idle while somebody waits.
Full(held, queue) ==
    /\ IsFiniteSet(held)
    /\ Cardinality(held) <= Limit
    /\ queue # <<>> => Cardinality(held) = Limit

\* Those who hold a slot and those who wait, each once.
Lined(held, queue, workers) ==
    /\ queue \in Seq(workers) /\ held \subseteq workers
    /\ Once(queue)
    /\ held \cap Items(queue) = {}

\* The first of a queue that names each worker once are as many as there are positions.
LEMMA FirstCounted ==
    ASSUME NEW S, NEW queue \in Seq(S), Once(queue), NEW n \in Nat, n <= Len(queue)
    PROVE  IsFiniteSet({queue[k] : k \in 1..n}) /\ Cardinality({queue[k] : k \in 1..n}) = n
<1> DEFINE T == {queue[k] : k \in 1..n}
           f == [k \in 1..n |-> queue[k]]
<1>1. f \in Bijection(1..n, T)
  <2>1. f \in [1..n -> T]
    OBVIOUS
  <2>2. \A i, j \in 1..n : f[i] = f[j] => i = j
    BY DEF Once
  <2>3. \A t \in T : \E k \in 1..n : f[k] = t
    OBVIOUS
  <2> HIDE DEF f, T
  <2>4. f \in Injection(1..n, T)
    BY <2>1, <2>2 DEF Injection, IsInjective
  <2>5. f \in Surjection(1..n, T)
    BY <2>1, <2>3 DEF Surjection
  <2> QED BY <2>4, <2>5 DEF Bijection
<1>2. ExistsBijection(1..n, T)
  BY <1>1 DEF ExistsBijection
<1>3. IsFiniteSet(T)
  BY <1>2, FS_NatBijection
<1>4. Cardinality(T) = n
  BY <1>2, FS_CountingElements
<1> QED BY <1>3, <1>4

\* What is left of a queue without its first n.
LEMMA RestOf ==
    ASSUME NEW S, NEW queue \in Seq(S), NEW n \in Nat, n <= Len(queue)
    PROVE  /\ SubSeq(queue, n + 1, Len(queue)) \in Seq(S)
           /\ Len(SubSeq(queue, n + 1, Len(queue))) = Len(queue) - n
           /\ \A k \in 1..(Len(queue) - n) : SubSeq(queue, n + 1, Len(queue))[k] = queue[n + k]
<1>1. \A k \in (n + 1)..Len(queue) : queue[k] \in S
  OBVIOUS
<1>2. n + 1 \in Int /\ Len(queue) \in Int /\ Len(queue) \in Nat
  OBVIOUS
<1>3. /\ SubSeq(queue, n + 1, Len(queue)) \in Seq(S)
      /\ Len(SubSeq(queue, n + 1, Len(queue))) =
            IF n + 1 <= Len(queue) THEN Len(queue) - (n + 1) + 1 ELSE 0
      /\ \A k \in 1..(Len(queue) - (n + 1) + 1) :
            SubSeq(queue, n + 1, Len(queue))[k] = queue[(n + 1) + k - 1]
  BY <1>1, <1>2, SubSeqProperties
<1>4. Len(SubSeq(queue, n + 1, Len(queue))) = Len(queue) - n
  BY <1>2, <1>3
<1>5. ASSUME NEW k \in 1..(Len(queue) - n)
      PROVE  SubSeq(queue, n + 1, Len(queue))[k] = queue[n + k]
  <2>1. k \in 1..(Len(queue) - (n + 1) + 1) /\ (n + 1) + k - 1 = n + k
    BY <1>2
  <2>2. SubSeq(queue, n + 1, Len(queue))[k] = queue[(n + 1) + k - 1]
    BY <1>3, <2>1
  <2> QED BY <2>1, <2>2
<1> QED BY <1>3, <1>4, <1>5

LEMMA Smaller ==
    ASSUME NEW a \in Nat, NEW b \in Nat
    PROVE  \E n \in Nat : /\ n = IF a < b THEN a ELSE b
                          /\ n <= a /\ n <= b
                          /\ n = a \/ n = b
<1>1. CASE a < b
  BY <1>1
<1>2. CASE ~(a < b)
  <2>1. b <= a
    BY <1>2
  <2> QED BY <1>2, <2>1
<1> QED BY <1>1, <1>2

\* The first n of a queue and the rest of it.
Foremost(queue, n) == {queue[k] : k \in 1..n}
Remaining(queue, n) == SubSeq(queue, n + 1, Len(queue))

Split(queue, n, S, started, rest) ==
    /\ started \subseteq S /\ IsFiniteSet(started) /\ Cardinality(started) = n
    /\ rest \in Seq(S) /\ Once(rest) /\ Len(rest) = Len(queue) - n
    /\ Items(queue) = started \cup Items(rest)
    /\ started \cap Items(rest) = {}

LEMMA QueueSplits ==
    ASSUME NEW S, NEW queue \in Seq(S), Once(queue), NEW n \in Nat, n <= Len(queue)
    PROVE  Split(queue, n, S, Foremost(queue, n), Remaining(queue, n))
<1>a. PICK started : started = {queue[k] : k \in 1..n}
  OBVIOUS
<1>b. PICK rest : rest = SubSeq(queue, n + 1, Len(queue))
  OBVIOUS
<1>1. PICK len \in Nat : len = Len(queue)
  OBVIOUS
<1>2. n <= len /\ DOMAIN queue = 1..len /\ \A k \in 1..len : queue[k] \in S
  BY <1>1
<1>3. IsFiniteSet(started) /\ Cardinality(started) = n
  BY <1>a, FirstCounted
<1>4. PICK m \in Nat : m = len - n
  BY <1>2
<1>5. rest \in Seq(S) /\ Len(rest) = m /\ DOMAIN rest = 1..m /\ \A k \in 1..m : rest[k] = queue[n + k]
  <2>1. /\ rest \in Seq(S)
        /\ Len(rest) = Len(queue) - n
        /\ \A k \in 1..(Len(queue) - n) : rest[k] = queue[n + k]
    BY <1>b, RestOf
  <2> QED BY <1>1, <1>4, <2>1
<1>6. \A i, j \in 1..len : queue[i] = queue[j] => i = j
  BY <1>2 DEF Once
<1>7. \A k \in 1..m : n + k \in 1..len /\ n + k \notin 1..n
  BY <1>2, <1>4
<1>8. \A k \in 1..len : k \in 1..n \/ (k - n \in 1..m /\ n + (k - n) = k)
  BY <1>2, <1>4
<1>9. 1..n \subseteq 1..len
  BY <1>2
<1>10. Items(rest) = {rest[k] : k \in 1..m} /\ Items(queue) = {queue[k] : k \in 1..len}
  BY <1>2, <1>5 DEF Items
<1>11. Once(rest)
  <2> SUFFICES ASSUME NEW i \in 1..m, NEW j \in 1..m, rest[i] = rest[j]
               PROVE  i = j
    BY <1>5 DEF Once
  <2>1. queue[n + i] = queue[n + j]
    BY <1>5
  <2>2. n + i = n + j
    BY <1>6, <1>7, <2>1
  <2> QED BY <2>2
<1>12. Items(queue) \subseteq started \cup Items(rest)
  <2> SUFFICES ASSUME NEW k \in 1..len, k \notin 1..n
               PROVE  queue[k] \in Items(rest)
    BY <1>a, <1>10
  <2>1. k - n \in 1..m /\ n + (k - n) = k
    BY <1>8
  <2>2. rest[k - n] = queue[k]
    BY <1>5, <2>1
  <2> QED BY <1>10, <2>1, <2>2
<1>13. started \subseteq Items(queue)
  BY <1>a, <1>9, <1>10
<1>14. ASSUME NEW k \in 1..m
       PROVE  rest[k] \in Items(queue) /\ rest[k] \notin started
  <2>1. rest[k] = queue[n + k] /\ n + k \in 1..len /\ n + k \notin 1..n
    BY <1>5, <1>7
  <2>2. \A j \in 1..n : queue[j] # queue[n + k]
    BY <1>6, <1>9, <2>1
  <2> QED BY <1>a, <1>10, <2>1, <2>2
<1>15. Items(rest) \subseteq Items(queue) /\ started \cap Items(rest) = {}
  BY <1>10, <1>14
<1>16. Items(queue) = started \cup Items(rest)
  BY <1>12, <1>13, <1>15
<1>17. started \subseteq S
  BY <1>a, <1>2, <1>9
<1>18. Split(queue, n, S, started, rest)
  BY <1>1, <1>3, <1>4, <1>5, <1>11, <1>15, <1>16, <1>17 DEF Split
<1> QED BY <1>a, <1>b, <1>18 DEF Foremost, Remaining

LEMMA RefilledExact ==
    ASSUME NEW workers, NEW held, NEW queue, Lined(held, queue, workers),
           IsFiniteSet(held), Cardinality(held) <= Limit
    PROVE  /\ Lined(Refilled(held, queue).slots, Refilled(held, queue).waiting, workers)
           /\ Full(Refilled(held, queue).slots, Refilled(held, queue).waiting)
           /\ Refilled(held, queue).slots \cup Items(Refilled(held, queue).waiting)
                 = held \cup Items(queue)
           /\ held \subseteq Refilled(held, queue).slots
<1>1. PICK c \in Nat : c = Cardinality(held)
  BY FS_CardinalityType
<1>2. queue \in Seq(workers) /\ Once(queue) /\ held \subseteq workers /\ held \cap Items(queue) = {}
  BY DEF Lined
<1>3. PICK len \in Nat : len = Len(queue)
  BY <1>2
<1>4. Limit \in Nat
  BY LimitConcurrencyAssumption
<1>5. PICK free \in Nat : free = Limit - c
  BY <1>1, <1>4
<1>6. PICK n \in Nat : /\ n = IF free < len THEN free ELSE len
                       /\ n <= free /\ n <= len
                       /\ n = free \/ n = len
  BY Smaller
<1>7. PICK started : started = Foremost(queue, n)
  OBVIOUS
<1>8. PICK rest : rest = Remaining(queue, n)
  OBVIOUS
<1>9. Refilled(held, queue) = [slots |-> held \cup started, waiting |-> rest]
  <2>1. n = IF Limit - Cardinality(held) < Len(queue)
            THEN Limit - Cardinality(held) ELSE Len(queue)
    BY <1>1, <1>3, <1>5, <1>6
  <2> QED BY <1>7, <1>8, <2>1 DEF Refilled, Foremost, Remaining
<1>10. n <= Len(queue)
  BY <1>3, <1>6
<1>11. /\ started \subseteq workers /\ IsFiniteSet(started) /\ Cardinality(started) = n
       /\ rest \in Seq(workers) /\ Once(rest) /\ Len(rest) = Len(queue) - n
       /\ Items(queue) = started \cup Items(rest)
       /\ started \cap Items(rest) = {}
  BY <1>2, <1>7, <1>8, <1>10, QueueSplits DEF Split
<1>12. IsFiniteSet(held \cup started) /\ Cardinality(held \cup started) = c + n
  <2>1. held \cap started = {}
    BY <1>2, <1>11
  <2>2. Cardinality(held \cap started) = 0
    BY <2>1, FS_EmptySet
  <2>3. /\ IsFiniteSet(held \cup started)
        /\ Cardinality(held \cup started) =
              Cardinality(held) + Cardinality(started) - Cardinality(held \cap started)
    BY <1>11, FS_Union
  <2>4. Cardinality(held \cup started) = c + n - 0
    BY <1>1, <1>11, <2>2, <2>3
  <2> QED BY <2>3, <2>4
<1>13. Lined(held \cup started, rest, workers)
  BY <1>2, <1>11 DEF Lined
<1>14. c + n <= Limit
  BY <1>4, <1>5, <1>6
<1>15. ASSUME rest # <<>>
       PROVE  c + n = Limit
  <2>1. Len(rest) # 0
    BY <1>11, <1>15
  <2>2. len - n # 0
    BY <1>3, <1>11, <2>1
  <2> QED BY <1>4, <1>5, <1>6, <2>2
<1>16. Full(held \cup started, rest)
  BY <1>12, <1>14, <1>15 DEF Full
<1>17. /\ Refilled(held, queue).slots = held \cup started
       /\ Refilled(held, queue).waiting = rest
  BY <1>9
<1>18. (held \cup started) \cup Items(rest) = held \cup Items(queue)
  BY <1>11
<1> QED BY <1>13, <1>16, <1>17, <1>18

-----------------------------------------------------------------------------
(* Those who hold a slot and those who wait for one.                       *)

Workers == Requests \cup Locals

\* Those who have not yet been answered by the method: only they may wait.
Young == {r \in Requests : server[r].phase = "invoking"} \cup
         {l \in Locals : direct[l].phase = "called"}

DirectType == [phase : {"idle", "called", "handed", "over"}, live : Nat, made : Nat]

\* Subscriptions end once, and only an Observable that was handed out has any.
DirectSound ==
    /\ direct \in [Locals -> DirectType]
    /\ \A l \in Locals : /\ direct[l].live <= direct[l].made
                         /\ direct[l].phase # "handed" => direct[l].made = 0

SlotInv ==
    /\ Lined(slots, waiting, Workers)
    /\ Full(slots, waiting)
    /\ AtWork = slots \cup Items(waiting)
    /\ Items(waiting) \subseteq Young

\* What the lemmas below say of the next state, once for the queue and once for the slots.
SlotsMove(work, young) ==
    /\ Lined(slots', waiting', Workers)
    /\ Full(slots', waiting')
    /\ work = slots' \cup Items(waiting')
    /\ Items(waiting') \subseteq young

\* A call that comes in waits, and starts at once if a slot is free.
LEMMA QueuedSound ==
    ASSUME SlotInv, NEW x \in Workers, x \notin AtWork, Queued(x)
    PROVE  SlotsMove(AtWork \cup {x}, Young \cup {x})
<1>1. /\ waiting \in Seq(Workers) /\ slots \subseteq Workers /\ Once(waiting)
      /\ slots \cap Items(waiting) = {} /\ x \notin slots /\ x \notin Items(waiting)
  BY DEF SlotInv, Lined
<1>2. PICK queue \in Seq(Workers) : queue = Append(waiting, x)
  <2>1. PICK S : S = Workers
    OBVIOUS
  <2>2. waiting \in Seq(S) /\ x \in S
    BY <1>1, <2>1
  <2>3. Append(waiting, x) \in Seq(S)
    BY <2>2
  <2> QED BY <2>1, <2>3
<1>3. PICK len \in Nat : len = Len(waiting)
  BY <1>1
<1>4. /\ DOMAIN waiting = 1..len /\ DOMAIN queue = 1..(len + 1)
      /\ \A k \in 1..len : queue[k] = waiting[k]
      /\ queue[len + 1] = x
  BY <1>1, <1>2, <1>3
<1>5. Items(queue) = Items(waiting) \cup {x}
  <2>1. 1..(len + 1) = (1..len) \cup {len + 1}
    OBVIOUS
  <2> QED BY <1>4, <2>1 DEF Items
<1>6. Once(queue)
  <2>1. \A i, j \in 1..len : waiting[i] = waiting[j] => i = j
    BY <1>1, <1>4 DEF Once
  <2>2. \A i \in 1..len : waiting[i] # x
    BY <1>1, <1>4 DEF Items
  <2>3. \A i \in 1..(len + 1) : i \in 1..len \/ i = len + 1
    OBVIOUS
  <2> QED BY <1>4, <2>1, <2>2, <2>3 DEF Once
<1>7. Lined(slots, queue, Workers)
  BY <1>1, <1>5, <1>6 DEF Lined
<1>8. IsFiniteSet(slots) /\ Cardinality(slots) <= Limit
  BY DEF SlotInv, Full
<1>9. slots' = Refilled(slots, queue).slots /\ waiting' = Refilled(slots, queue).waiting
  BY <1>2 DEF Queued, Admit
<1>10. /\ Lined(slots', waiting', Workers) /\ Full(slots', waiting')
       /\ slots' \cup Items(waiting') = slots \cup Items(queue)
       /\ slots \subseteq slots'
  BY <1>7, <1>8, <1>9, RefilledExact
<1>11. Items(waiting') \subseteq Items(queue)
  BY <1>10 DEF Lined
<1> QED BY <1>5, <1>10, <1>11 DEF SlotsMove, SlotInv

\* A slot that is given back goes to the first who waits; giving back what is not held
\* changes nothing.
LEMMA ReleasedSound ==
    ASSUME SlotInv, NEW x, x \notin Items(waiting), Released(x)
    PROVE  SlotsMove(AtWork \ {x}, Young \ {x})
<1>1. /\ waiting \in Seq(Workers) /\ slots \subseteq Workers /\ Once(waiting)
      /\ slots \cap Items(waiting) = {}
  BY DEF SlotInv, Lined
<1>2. Lined(slots \ {x}, waiting, Workers)
  BY <1>1 DEF Lined
<1>3. IsFiniteSet(slots) /\ Cardinality(slots) <= Limit
  BY DEF SlotInv, Full
<1>4. IsFiniteSet(slots \ {x}) /\ Cardinality(slots \ {x}) <= Limit
  <2>1. PICK a \in Nat : a = Cardinality(slots)
    BY <1>3, FS_CardinalityType
  <2>2. /\ IsFiniteSet(slots \ {x})
        /\ Cardinality(slots \ {x}) = IF x \in slots THEN Cardinality(slots) - 1 ELSE Cardinality(slots)
    BY <1>3, FS_RemoveElement
  <2>3. Limit \in Nat
    BY LimitConcurrencyAssumption
  <2>4. CASE x \in slots
    <3>1. Cardinality(slots \ {x}) = a - 1 /\ a <= Limit
      BY <1>3, <2>1, <2>2, <2>4
    <3> QED BY <2>2, <2>3, <3>1
  <2>5. CASE x \notin slots
    BY <1>3, <2>2, <2>5
  <2> QED BY <2>4, <2>5
<1>5. /\ slots' = Refilled(slots \ {x}, waiting).slots
      /\ waiting' = Refilled(slots \ {x}, waiting).waiting
  BY DEF Released, Admit
<1>6. PICK held : held = slots \ {x}
  OBVIOUS
<1>7. /\ Lined(held, waiting, Workers) /\ IsFiniteSet(held) /\ Cardinality(held) <= Limit
      /\ slots' = Refilled(held, waiting).slots /\ waiting' = Refilled(held, waiting).waiting
  BY <1>2, <1>4, <1>5, <1>6
<1>8. /\ Lined(slots', waiting', Workers) /\ Full(slots', waiting')
      /\ slots' \cup Items(waiting') = held \cup Items(waiting)
      /\ held \subseteq slots'
  BY <1>7, RefilledExact
<1>9. Items(waiting') \subseteq Items(waiting)
  BY <1>6, <1>8 DEF Lined
<1> QED BY <1>6, <1>8, <1>9 DEF SlotsMove, SlotInv

LEMMA SlotsStay ==
    ASSUME SlotInv, UNCHANGED <<slots, waiting>>, AtWork' = AtWork, Young \ slots \subseteq Young'
    PROVE  SlotInv'
<1>1. /\ Lined(slots', waiting', Workers) /\ Full(slots', waiting')
      /\ AtWork' = slots' \cup Items(waiting')
  BY DEF SlotInv
<1>2. Items(waiting') \subseteq Young'
  BY DEF SlotInv, Lined
<1> QED BY <1>1, <1>2 DEF SlotInv, Workers

LEMMA SlotsMoveTo ==
    ASSUME NEW work, NEW young, SlotsMove(work, young), AtWork' = work, young \subseteq Young'
    PROVE  SlotInv'
BY DEF SlotsMove, SlotInv, Workers

-----------------------------------------------------------------------------
(* The phases of the handlers.                                             *)

OthersStay(r) == \A s \in Requests : s # r => server'[s] = server[s]

LEMMA ArrivingPhases ==
    ASSUME TypeOK, ProviderInv, NEW r \in Requests, NEW b \in BOOLEAN, RequestArrives(r, b)
    PROVE  /\ OthersStay(r) /\ server[r].phase = "none"
           /\ b => server'[r].phase = "invoking"
           /\ ~b => server'[r].phase = "over"
<1>1. server[r].phase = "none"
  <2>1. wire[r].to \in Seq({"request", "cancel"}) /\ wire[r].to # <<>> /\ Head(wire[r].to) = "request"
    BY DEF RequestArrives, TypeOK, WireType
  <2>2. 1 \in 1..Len(wire[r].to) /\ wire[r].to[1] = "request"
    BY <2>1, EmptySeq
  <2> QED BY <2>2 DEF ProviderInv, ArrivesOnce
<1>2. CASE b
  BY <1>1, <1>2 DEF RequestArrives, TypeOK, ServerType, OthersStay
<1>3. CASE ~b
  BY <1>1, <1>3 DEF RequestArrives, TypeOK, ServerType, OthersStay
<1> QED BY <1>2, <1>3

LEMMA SettlingPhases ==
    ASSUME TypeOK, NEW r \in Requests,
           MethodReturns(r) \/ \E code \in Codes : MethodFails(r, code)
    PROVE  OthersStay(r) /\ server[r].phase = "invoking" /\ server'[r].phase = "over"
<1>1. CASE MethodReturns(r)
  BY <1>1 DEF MethodReturns, TypeOK, ServerType, OthersStay
<1>2. CASE \E code \in Codes : MethodFails(r, code)
  BY <1>2 DEF MethodFails, TypeOK, ServerType, OthersStay
<1> QED BY <1>1, <1>2

LEMMA StreamingPhases ==
    ASSUME TypeOK, NEW r \in Requests, StreamStarts(r)
    PROVE  OthersStay(r) /\ server[r].phase = "invoking" /\ server'[r].phase = "live"
BY DEF StreamStarts, TypeOK, ServerType, OthersStay

LEMMA EndingPhases ==
    ASSUME TypeOK, NEW r \in Requests, NEW end \in {"completed"} \cup Codes, StreamEnds(r, end)
    PROVE  OthersStay(r) /\ server[r].phase = "live" /\ server'[r].phase = "over"
<1> DEFINE e == Enqueue(server[r], Response(0, end))
           whole == end = "completed"
           running == ~server[r].poisoned
<1>1. server' = [server EXCEPT ![r] = [e EXCEPT !.phase = "over", !.whole = whole,
                                                !.running = running]]
  BY DEF StreamEnds
<1>2. e \in ServerType
  <2>1. 0 \in 0..MaxItems /\ end \in {"none", "completed"} \cup Codes
    BY RpcCallAssumption DEF Codes
  <2> QED BY <2>1, ResponseType, EnqueueType DEF TypeOK
<1> HIDE DEF e, whole, running
<1> QED BY <1>1, <1>2 DEF StreamEnds, TypeOK, ServerType, OthersStay

LEMMA EmittingPhases ==
    ASSUME TypeOK, NEW r \in Requests, StreamEmits(r)
    PROVE  OthersStay(r) /\ server'[r].phase = server[r].phase
<1> DEFINE n == server[r].made + 1
           e == Enqueue(server[r], Response(n, "none"))
<1>1. server' = [server EXCEPT ![r] = [e EXCEPT !.made = n]]
  BY DEF StreamEmits
<1>2. e.phase = server[r].phase /\ e \in ServerType
  <2>1. n \in 0..MaxItems
    BY RpcCallAssumption DEF StreamEmits, TypeOK, ServerType
  <2> QED BY <2>1, ResponseType, EnqueueType, EnqueueSound DEF TypeOK
<1> HIDE DEF e, n
<1> QED BY <1>1, <1>2 DEF TypeOK, ServerType, OthersStay

LEMMA ReplyingPhases ==
    ASSUME TypeOK, NEW r \in Requests, ReplyFails(r) \/ \E b \in BOOLEAN : ReplySends(r, b)
    PROVE  OthersStay(r) /\ server'[r].phase = server[r].phase
<1>1. CASE ReplyFails(r)
  BY <1>1 DEF ReplyFails, Poisoned, TypeOK, ServerType, OthersStay
<1>2. CASE \E b \in BOOLEAN : ReplySends(r, b)
  <2> DEFINE rest == TakeFirst(server[r].queue).rest
             running == server[r].running /\ ~Terminal(TakeFirst(server[r].queue).packet)
  <2>1. server' = [server EXCEPT ![r].queue = rest, ![r].running = running]
    BY <1>2 DEF ReplySends
  <2> HIDE DEF rest, running
  <2> QED BY <2>1 DEF TypeOK, ServerType, OthersStay
<1> QED BY <1>1, <1>2

\* A cancel ends the stream if there is one, and nothing else.
LEMMA CancellingPhases ==
    ASSUME TypeOK, ProviderInv, NEW r \in Requests, CancelArrives(r)
    PROVE  /\ OthersStay(r)
           /\ server[r].phase = "live" => server'[r].phase = "over"
           /\ server[r].phase # "live" => server'[r].phase = server[r].phase
<1>1. CASE server[r].running
  <2>1. server'[r].phase = "over" /\ OthersStay(r)
    BY <1>1 DEF CancelArrives, TypeOK, ServerType, OthersStay
  <2>2. server[r].phase \in {"live", "over"}
    BY <1>1 DEF TypeOK, ServerType, ProviderInv, HandlerSound
  <2> QED BY <2>1, <2>2
<1>2. CASE ~server[r].running
  <2>1. server'[r].phase = server[r].phase /\ OthersStay(r)
    BY <1>2 DEF CancelArrives, TypeOK, ServerType, OthersStay
  <2>2. server[r].phase # "live"
    BY <1>2 DEF ProviderInv, HandlerSound
  <2> QED BY <2>1, <2>2
<1> QED BY <1>1, <1>2

-----------------------------------------------------------------------------
(* Slots are exact.                                                        *)

\* What the phase of one request says of the work and of who may wait.
LEMMA PhaseTells ==
    ASSUME NEW r \in Requests, OthersStay(r), UNCHANGED direct
    PROVE  /\ server'[r].phase = "invoking" => AtWork' = AtWork \cup {r} /\ Young' = Young \cup {r}
           /\ server'[r].phase = "live" => AtWork' = AtWork \cup {r} /\ Young' = Young \ {r}
           /\ server'[r].phase \notin {"invoking", "live"} =>
                 AtWork' = AtWork \ {r} /\ Young' = Young \ {r}
           /\ server'[r].phase = server[r].phase => AtWork' = AtWork /\ Young' = Young
<1>1. r \notin Locals
  BY ServiceCallAssumption
<1>2. LocalsAtWork' = LocalsAtWork /\ r \notin LocalsAtWork
  BY <1>1 DEF LocalsAtWork
<1>3. \A s \in Requests : s # r => server'[s] = server[s]
  BY DEF OthersStay
<1>4. r \in AtWork <=> server[r].phase \in {"invoking", "live"}
  BY <1>2 DEF AtWork
<1>5. r \in Young <=> server[r].phase = "invoking"
  BY <1>1 DEF Young
<1>6. \A s : s # r => (s \in AtWork' <=> s \in AtWork)
  BY <1>2, <1>3 DEF AtWork
<1>7. \A s : s # r => (s \in Young' <=> s \in Young)
  BY <1>3 DEF Young
<1>8. r \in AtWork' <=> server'[r].phase \in {"invoking", "live"}
  BY <1>2 DEF AtWork
<1>9. r \in Young' <=> server'[r].phase = "invoking"
  BY <1>1 DEF Young
<1> HIDE DEF AtWork, Young
<1> QED BY <1>4, <1>5, <1>6, <1>7, <1>8, <1>9

LEMMA RequestStays ==
    ASSUME SlotInv, NEW r \in Requests, OthersStay(r), UNCHANGED <<direct, slots, waiting>>,
           \/ server'[r].phase = server[r].phase
           \/ {server[r].phase, server'[r].phase} \cap {"invoking", "live"} = {}
    PROVE  SlotInv'
<1>1. AtWork' = AtWork /\ Young' = Young
  <2>1. CASE server'[r].phase = server[r].phase
    BY <2>1, PhaseTells
  <2>2. CASE {server[r].phase, server'[r].phase} \cap {"invoking", "live"} = {}
    <3>1. r \notin AtWork /\ r \notin Young
      BY <2>2, ServiceCallAssumption DEF AtWork, Young, LocalsAtWork
    <3>2. AtWork' = AtWork \ {r} /\ Young' = Young \ {r}
      BY <2>2, PhaseTells
    <3> QED BY <3>1, <3>2
  <2> QED BY <2>1, <2>2
<1> QED BY <1>1, SlotsStay

LEMMA LimitedStepSound ==
    ASSUME TypeOK, ProviderInv, SlotInv, LimitedStep, UNCHANGED direct
    PROVE  SlotInv'
<1>1. \A r \in Requests : r \notin Locals /\ r \in Workers /\ r \notin LocalsAtWork
  BY ServiceCallAssumption DEF Workers, LocalsAtWork
<1>2. slots \cap Items(waiting) = {} /\ Items(waiting) \subseteq Young
  BY DEF SlotInv, Lined
<1>3. ASSUME NEW r \in Requests, MethodArrives(r) PROVE SlotInv'
  <2>1. RequestArrives(r, TRUE) /\ Queued(r)
    BY <1>3 DEF MethodArrives
  <2>2. OthersStay(r) /\ server[r].phase = "none" /\ server'[r].phase = "invoking"
    BY <2>1, ArrivingPhases
  <2>3. r \notin AtWork
    BY <1>1, <2>2 DEF AtWork
  <2>4. SlotsMove(AtWork \cup {r}, Young \cup {r})
    BY <1>1, <2>1, <2>3, QueuedSound
  <2>5. AtWork' = AtWork \cup {r} /\ Young' = Young \cup {r}
    BY <2>2, PhaseTells
  <2> QED BY <2>4, <2>5, SlotsMoveTo
<1>4. ASSUME NEW r \in Requests, MethodSettles(r) PROVE SlotInv'
  <2>1. OthersStay(r) /\ server'[r].phase = "over"
    BY <1>4, SettlingPhases DEF MethodSettles
  <2>2. SlotsMove(AtWork \ {r}, Young \ {r})
    <3>1. r \notin Items(waiting) /\ Released(r)
      BY <1>2, <1>4 DEF MethodSettles
    <3> QED BY <3>1, ReleasedSound
  <2>3. AtWork' = AtWork \ {r} /\ Young' = Young \ {r}
    BY <2>1, PhaseTells
  <2> QED BY <2>2, <2>3, SlotsMoveTo
<1>5. ASSUME NEW r \in Requests, MethodStreams(r) PROVE SlotInv'
  <2>1. /\ OthersStay(r) /\ server[r].phase = "invoking" /\ server'[r].phase = "live"
        /\ r \in slots /\ UNCHANGED <<slots, waiting>>
    BY <1>5, StreamingPhases DEF MethodStreams
  <2>2. AtWork' = AtWork \cup {r} /\ Young' = Young \ {r}
    BY <2>1, PhaseTells
  <2>3. r \in AtWork
    BY <2>1 DEF AtWork
  <2>4. AtWork' = AtWork /\ Young \ slots \subseteq Young'
    BY <2>1, <2>2, <2>3
  <2> QED BY <2>1, <2>4, SlotsStay
<1>6. ASSUME NEW r \in Requests, server[r].phase = "live" PROVE r \notin Items(waiting)
  BY <1>1, <1>2, <1>6 DEF Young
<1>7. ASSUME NEW r \in Requests, NEW end \in {"completed"} \cup Codes, MethodStreamEnds(r, end)
      PROVE  SlotInv'
  <2>1. /\ OthersStay(r) /\ server[r].phase = "live" /\ server'[r].phase = "over"
        /\ Released(r)
    BY <1>7, EndingPhases DEF MethodStreamEnds, Finalized
  <2>2. SlotsMove(AtWork \ {r}, Young \ {r})
    BY <1>6, <2>1, ReleasedSound
  <2>3. AtWork' = AtWork \ {r} /\ Young' = Young \ {r}
    BY <2>1, PhaseTells
  <2> QED BY <2>2, <2>3, SlotsMoveTo
<1>8. ASSUME NEW r \in Requests, MethodCancelled(r) PROVE SlotInv'
  <2>1. CancelArrives(r) /\ OthersStay(r)
    BY <1>8, CancellingPhases DEF MethodCancelled
  <2>2. CASE server[r].phase = "live"
    <3>1. server'[r].phase = "over" /\ Released(r)
      BY <1>8, <2>1, <2>2, CancellingPhases DEF MethodCancelled, Finalized
    <3>2. SlotsMove(AtWork \ {r}, Young \ {r})
      BY <1>6, <2>2, <3>1, ReleasedSound
    <3>3. AtWork' = AtWork \ {r} /\ Young' = Young \ {r}
      BY <2>1, <3>1, PhaseTells
    <3> QED BY <3>2, <3>3, SlotsMoveTo
  <2>3. CASE server[r].phase # "live"
    <3>1. server'[r].phase = server[r].phase /\ UNCHANGED <<slots, waiting>>
      BY <1>8, <2>1, <2>3, CancellingPhases DEF MethodCancelled
    <3> QED BY <2>1, <3>1, RequestStays
  <2> QED BY <2>2, <2>3
<1> QED BY <1>3, <1>4, <1>5, <1>7, <1>8 DEF LimitedStep

LEMMA PlainStepSound ==
    ASSUME TypeOK, ProviderInv, SlotInv, PlainStep, UNCHANGED limiterVars
    PROVE  SlotInv'
<1>1. UNCHANGED <<direct, slots, waiting>>
  BY DEF limiterVars
<1>2. ASSUME UNCHANGED server PROVE SlotInv'
  <2>1. AtWork' = AtWork /\ Young' = Young
    BY <1>1, <1>2 DEF AtWork, Young, LocalsAtWork
  <2> QED BY <1>1, <2>1, SlotsStay
<1>3. CASE RemoteStep
  <2>1. UNCHANGED server
    BY <1>3 DEF RemoteStep, Observed, Awaited, Subscribe, RetryTimer, Timeout, Unsubscribe,
                RequestLeaves, SendResolves, SendRejects, ResponseArrives, NodeOffline, LinkLost
  <2> QED BY <1>2, <2>1
<1>4. CASE \E c \in Calls, b \in BOOLEAN : Batch(c, BatchNodes, b)
  <2>1. UNCHANGED server
    BY <1>4 DEF Batch, Subscribe
  <2> QED BY <1>2, <2>1
<1>5. ASSUME NEW r \in Requests, RequestArrives(r, FALSE) PROVE SlotInv'
  <2>1. OthersStay(r) /\ server[r].phase = "none" /\ server'[r].phase = "over"
    BY <1>5, ArrivingPhases
  <2> QED BY <1>1, <2>1, RequestStays
<1>6. ASSUME NEW r \in Requests, StreamEmits(r) PROVE SlotInv'
  BY <1>1, <1>6, EmittingPhases, RequestStays
<1>7. ASSUME NEW r \in Requests, ReplyFails(r) \/ \E b \in BOOLEAN : ReplySends(r, b)
      PROVE  SlotInv'
  BY <1>1, <1>7, ReplyingPhases, RequestStays
<1> QED BY <1>3, <1>4, <1>5, <1>6, <1>7 DEF PlainStep

\* A local call that changes phase or subscriptions, and the sets it belongs to.
DirectMoves(l) ==
    /\ direct' = [direct EXCEPT ![l] = direct'[l]]
    /\ direct'[l] \in DirectType
    /\ direct'[l].live <= direct'[l].made
    /\ direct'[l].phase # "handed" => direct'[l].made = 0

Working(v) == v.phase = "called" \/ (v.phase = "handed" /\ v.made = v.live)

LEMMA DirectTells ==
    ASSUME DirectSound, NEW l \in Locals, DirectMoves(l), UNCHANGED server
    PROVE  /\ DirectSound'
           /\ l \in AtWork <=> Working(direct[l])
           /\ AtWork' = IF Working(direct'[l]) THEN AtWork \cup {l} ELSE AtWork \ {l}
           /\ Young' = IF direct'[l].phase = "called" THEN Young \cup {l} ELSE Young \ {l}
<1>1. l \notin Requests
  BY ServiceCallAssumption
<1>2. \A k \in Locals : k # l => direct'[k] = direct[k]
  BY DEF DirectMoves, DirectSound
<1>3. l \in AtWork <=> Working(direct[l])
  BY <1>1 DEF AtWork, LocalsAtWork, Working
<1>4. l \in AtWork' <=> Working(direct'[l])
  BY <1>1 DEF AtWork, LocalsAtWork, Working
<1>5. l \in Young' <=> direct'[l].phase = "called"
  BY <1>1 DEF Young
<1>6. \A s : s # l => (s \in AtWork' <=> s \in AtWork)
  BY <1>2 DEF AtWork, LocalsAtWork
<1>7. \A s : s # l => (s \in Young' <=> s \in Young)
  BY <1>2 DEF Young
<1>8. DirectSound'
  BY <1>2 DEF DirectSound, DirectMoves
<1>9. AtWork' = IF Working(direct'[l]) THEN AtWork \cup {l} ELSE AtWork \ {l}
  BY <1>4, <1>6
<1>10. Young' = IF direct'[l].phase = "called" THEN Young \cup {l} ELSE Young \ {l}
  BY <1>5, <1>7
<1> QED BY <1>3, <1>8, <1>9, <1>10

LEMMA DirectSteps ==
    ASSUME DirectSound, NEW l \in Locals
    PROVE  /\ Call(l) => DirectMoves(l) /\ ~Working(direct[l]) /\ direct'[l].phase = "called"
           /\ Settles(l) => DirectMoves(l) /\ direct'[l].phase = "over"
           /\ HandsOut(l) => DirectMoves(l) /\ direct[l].phase = "called" /\ Working(direct'[l])
                             /\ direct'[l].phase = "handed"
           /\ Subscribes(l) => /\ DirectMoves(l) /\ (Working(direct'[l]) <=> Working(direct[l]))
                               /\ direct[l].phase = "handed" /\ direct'[l].phase = "handed"
           /\ \A left \in BOOLEAN : SubscriptionEnds(l, left) =>
                 /\ DirectMoves(l) /\ ~Working(direct'[l])
                 /\ direct[l].phase = "handed" /\ direct'[l].phase = "handed"
<1>1. /\ direct[l] \in DirectType
      /\ direct[l].live \in Nat /\ direct[l].made \in Nat /\ direct[l].live <= direct[l].made
      /\ direct[l].phase # "handed" => direct[l].made = 0
  BY DEF DirectSound, DirectType
<1>2. PICK a \in Nat : a = direct[l].live
  BY <1>1
<1>3. PICK m \in Nat : m = direct[l].made
  BY <1>1
<1>4. a <= m /\ (direct[l].phase # "handed" => m = 0)
  BY <1>1, <1>2, <1>3
<1>5. ASSUME NEW v \in DirectType, direct' = [direct EXCEPT ![l] = v]
      PROVE  direct'[l] = v /\ direct' = [direct EXCEPT ![l] = direct'[l]]
  BY <1>5 DEF DirectSound
<1>6. ASSUME NEW phase \in {"called", "handed", "over"}, direct' = [direct EXCEPT ![l].phase = phase],
             m = 0
      PROVE  DirectMoves(l) /\ direct'[l].phase = phase /\ direct'[l].live = direct'[l].made
  <2>1. PICK v : v = [direct[l] EXCEPT !.phase = phase]
    OBVIOUS
  <2>2. v \in DirectType /\ v.phase = phase /\ v.live = a /\ v.made = m
    BY <1>1, <1>2, <1>3, <2>1 DEF DirectType
  <2>3. direct' = [direct EXCEPT ![l] = v]
    BY <1>6, <2>1
  <2>4. a = m
    BY <1>4, <1>6
  <2>5. direct'[l] = v /\ direct' = [direct EXCEPT ![l] = direct'[l]]
    BY <1>5, <2>2, <2>3
  <2>6. v.live <= v.made /\ v.made = 0 /\ v.live = v.made
    BY <1>6, <2>2, <2>4
  <2> QED BY <2>2, <2>5, <2>6 DEF DirectMoves
<1>7. ASSUME Call(l)
      PROVE  DirectMoves(l) /\ ~Working(direct[l]) /\ direct'[l].phase = "called"
  BY <1>3, <1>4, <1>6, <1>7 DEF Call, Working
<1>8. ASSUME Settles(l)
      PROVE  DirectMoves(l) /\ direct'[l].phase = "over"
  BY <1>3, <1>4, <1>6, <1>8 DEF Settles
<1>9. ASSUME HandsOut(l)
      PROVE  DirectMoves(l) /\ direct[l].phase = "called" /\ Working(direct'[l])
             /\ direct'[l].phase = "handed"
  BY <1>3, <1>4, <1>6, <1>9 DEF HandsOut, Working
<1>10. ASSUME Subscribes(l)
       PROVE  /\ DirectMoves(l) /\ (Working(direct'[l]) <=> Working(direct[l]))
              /\ direct[l].phase = "handed" /\ direct'[l].phase = "handed"
  <2>1. PICK v : v = [direct[l] EXCEPT !.live = a + 1, !.made = m + 1]
    OBVIOUS
  <2>2. a + 1 \in Nat /\ m + 1 \in Nat /\ a + 1 <= m + 1 /\ (m + 1 = a + 1 <=> m = a)
    BY <1>4
  <2>3. direct[l].phase = "handed"
    BY <1>10 DEF Subscribes
  <2>4. v \in DirectType /\ v.phase = "handed" /\ v.live = a + 1 /\ v.made = m + 1
    BY <1>1, <2>1, <2>2, <2>3 DEF DirectType
  <2>5. direct' = [direct EXCEPT ![l].live = a + 1, ![l].made = m + 1]
    BY <1>2, <1>3, <1>10 DEF Subscribes
  <2>6. direct' = [direct EXCEPT ![l] = v]
    BY <2>1, <2>5
  <2> QED BY <1>2, <1>3, <1>5, <2>2, <2>3, <2>4, <2>6 DEF DirectMoves, Working
<1>11. ASSUME NEW left \in BOOLEAN, SubscriptionEnds(l, left)
       PROVE  /\ DirectMoves(l) /\ ~Working(direct'[l])
              /\ direct[l].phase = "handed" /\ direct'[l].phase = "handed"
  <2>1. PICK v : v = [direct[l] EXCEPT !.live = a - 1]
    OBVIOUS
  <2>2. a > 0
    BY <1>2, <1>11 DEF SubscriptionEnds
  <2>3. a - 1 \in Nat /\ a - 1 <= m /\ m # a - 1 /\ m # 0
    BY <1>4, <2>2
  <2>4. direct[l].phase = "handed"
    BY <1>4, <2>3
  <2>5. v \in DirectType /\ v.phase = "handed" /\ v.live = a - 1 /\ v.made = m
    BY <1>1, <1>3, <2>1, <2>3, <2>4 DEF DirectType
  <2>6. direct' = [direct EXCEPT ![l].live = a - 1]
    BY <1>2, <1>11 DEF SubscriptionEnds
  <2>7. direct' = [direct EXCEPT ![l] = v]
    BY <2>1, <2>6
  <2> QED BY <1>5, <2>3, <2>4, <2>5, <2>7 DEF DirectMoves, Working
<1> QED BY <1>7, <1>8, <1>9, <1>10, <1>11

LEMMA LocalCallsSound ==
    ASSUME SlotInv, DirectSound, LocalCalls, UNCHANGED server
    PROVE  SlotInv' /\ DirectSound'
<1>1. slots \cap Items(waiting) = {} /\ Items(waiting) \subseteq Young
  BY DEF SlotInv, Lined
<1>2. \A l \in Locals : l \in Workers /\ (l \in Young <=> direct[l].phase = "called")
  BY ServiceCallAssumption DEF Workers, Young
<1>3. ASSUME NEW l \in Locals, Call(l) PROVE SlotInv' /\ DirectSound'
  <2>1. DirectMoves(l) /\ ~Working(direct[l]) /\ direct'[l].phase = "called" /\ Queued(l)
    BY <1>3, DirectSteps DEF Call
  <2>2. Working(direct'[l])
    BY <2>1 DEF Working
  <2>3. l \notin AtWork /\ AtWork' = AtWork \cup {l} /\ Young' = Young \cup {l} /\ DirectSound'
    BY <2>1, <2>2, DirectTells
  <2>4. SlotsMove(AtWork \cup {l}, Young \cup {l})
    BY <1>2, <2>1, <2>3, QueuedSound
  <2> QED BY <2>3, <2>4, SlotsMoveTo
<1>4. ASSUME NEW l \in Locals, Settles(l) PROVE SlotInv' /\ DirectSound'
  <2>1. DirectMoves(l) /\ direct'[l].phase = "over" /\ Released(l) /\ l \notin Items(waiting)
    BY <1>1, <1>4, DirectSteps DEF Settles
  <2>2. ~Working(direct'[l])
    BY <2>1 DEF Working
  <2>3. AtWork' = AtWork \ {l} /\ Young' = Young \ {l} /\ DirectSound'
    BY <2>1, <2>2, DirectTells
  <2>4. SlotsMove(AtWork \ {l}, Young \ {l})
    BY <2>1, ReleasedSound
  <2> QED BY <2>3, <2>4, SlotsMoveTo
<1>5. ASSUME NEW l \in Locals, HandsOut(l) PROVE SlotInv' /\ DirectSound'
  <2>1. /\ DirectMoves(l) /\ direct[l].phase = "called" /\ Working(direct'[l])
        /\ direct'[l].phase = "handed" /\ l \in slots /\ UNCHANGED <<slots, waiting>>
    BY <1>5, DirectSteps DEF HandsOut
  <2>2. Working(direct[l])
    BY <2>1 DEF Working
  <2>3. AtWork' = AtWork /\ Young' = Young \ {l} /\ DirectSound'
    BY <2>1, <2>2, DirectTells
  <2>4. Young \ slots \subseteq Young'
    BY <2>1, <2>3
  <2> QED BY <2>1, <2>3, <2>4, SlotsStay
<1>6. ASSUME NEW l \in Locals, Subscribes(l) PROVE SlotInv' /\ DirectSound'
  <2>1. /\ DirectMoves(l) /\ (Working(direct'[l]) <=> Working(direct[l]))
        /\ direct[l].phase = "handed" /\ direct'[l].phase = "handed"
        /\ UNCHANGED <<slots, waiting>>
    BY <1>6, DirectSteps DEF Subscribes
  <2>2. AtWork' = AtWork /\ Young' = Young \ {l} /\ DirectSound'
    BY <2>1, DirectTells
  <2>3. Young' = Young
    BY <1>2, <2>1, <2>2
  <2> QED BY <2>1, <2>2, <2>3, SlotsStay
<1>7. ASSUME NEW l \in Locals, NEW left \in BOOLEAN, SubscriptionEnds(l, left)
      PROVE  SlotInv' /\ DirectSound'
  <2>1. /\ DirectMoves(l) /\ ~Working(direct'[l])
        /\ direct[l].phase = "handed" /\ direct'[l].phase = "handed"
        /\ Released(l)
    BY <1>7, DirectSteps DEF SubscriptionEnds, Finalized
  <2>2. AtWork' = AtWork \ {l} /\ Young' = Young \ {l} /\ DirectSound'
    BY <2>1, DirectTells
  <2>3. l \notin Items(waiting)
    BY <1>1, <1>2, <2>1
  <2>4. SlotsMove(AtWork \ {l}, Young \ {l})
    BY <2>1, <2>3, ReleasedSound
  <2> QED BY <2>2, <2>4, SlotsMoveTo
<1> QED BY <1>3, <1>4, <1>5, <1>6, <1>7 DEF LocalCalls

LEMMA SlotsInitially == ServiceInit => SlotInv /\ DirectSound
<1> SUFFICES ASSUME ServiceInit PROVE SlotInv /\ DirectSound
  OBVIOUS
<1>1. waiting = <<>> /\ slots = {}
  BY DEF ServiceInit, LimiterInit
<1>2. direct = [l \in Locals |-> [phase |-> "idle", live |-> 0, made |-> 0]]
  BY DEF ServiceInit, LimiterInit
<1>3. \A r \in Requests : server[r].phase = "none"
  BY DEF ServiceInit, Init, Unserved
<1>4. Items(waiting) = {} /\ Once(waiting) /\ waiting \in Seq(Workers)
  BY <1>1 DEF Items, Once
<1>5. AtWork = {}
  BY <1>2, <1>3 DEF AtWork, LocalsAtWork
<1>6. IsFiniteSet(slots) /\ Cardinality(slots) = 0
  BY <1>1, FS_EmptySet
<1>7. Cardinality(slots) <= Limit
  BY <1>6, LimitConcurrencyAssumption
<1>8. SlotInv
  BY <1>1, <1>4, <1>5, <1>6, <1>7 DEF SlotInv, Lined, Full
<1>9. DirectSound
  BY <1>2 DEF DirectSound, DirectType
<1> QED BY <1>8, <1>9

LEMMA SlotsNext ==
    TypeOK /\ ProviderInv /\ SlotInv /\ DirectSound /\ [ServiceNext]_serviceVars
        => SlotInv' /\ DirectSound'
<1> SUFFICES ASSUME TypeOK, ProviderInv, SlotInv, DirectSound, [ServiceNext]_serviceVars
             PROVE  SlotInv' /\ DirectSound'
  OBVIOUS
<1>1. ASSUME UNCHANGED direct PROVE DirectSound'
  BY <1>1 DEF DirectSound
<1>2. CASE LimitedStep /\ UNCHANGED <<awaited, direct>>
  BY <1>1, <1>2, LimitedStepSound
<1>3. CASE PlainStep /\ UNCHANGED limiterVars
  BY <1>1, <1>3, PlainStepSound DEF limiterVars
<1>4. CASE LocalCalls /\ UNCHANGED <<vars, awaited>>
  BY <1>4, LocalCallsSound DEF vars
<1>5. CASE UNCHANGED callVars
  <2>1. UNCHANGED <<server, slots, waiting, direct>>
    BY <1>5 DEF callVars, vars, limiterVars
  <2>2. AtWork' = AtWork /\ Young' = Young
    BY <2>1 DEF AtWork, Young, LocalsAtWork
  <2> QED BY <1>1, <2>1, <2>2, SlotsStay
<1> QED BY <1>2, <1>3, <1>4, <1>5 DEF ServiceNext, CallStep, WaitStep, serviceVars

\* Slots of a limited method are neither lost nor given twice, and none is idle while a call
\* waits, whichever way calls, streams, cancels and local subscribers end (LimitConcurrency.ts:30-44).
THEOREM SlotsExact == ServiceSpec => []SlotsAreExact
<1>1. SlotInv => SlotsAreExact
  BY DEF SlotInv, SlotsAreExact, Lined, Full, Items
<1> QED BY <1>1, SlotsInitially, SlotsNext, ServiceMakesCalls, ProviderSound, PTL DEF ServiceSpec

=============================================================================
