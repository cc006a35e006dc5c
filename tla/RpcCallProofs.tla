--------------------------- MODULE RpcCallProofs ---------------------------
(* Theorems about RpcCall, for every value of its constants.               *)
EXTENDS RpcCall, SequenceTheorems, TLAPS

-----------------------------------------------------------------------------
(* Types.                                                                  *)

LEMMA AppendType ==
    ASSUME NEW S, NEW s \in Seq(S), NEW e \in S
    PROVE  Append(s, e) \in Seq(S)
  OBVIOUS

\* What is left of an answer when its link is lost.
LEMMA PrefixType ==
    ASSUME NEW S, NEW s \in Seq(S), NEW k \in Nat, k <= Len(s)
    PROVE  /\ SubSeq(s, 1, k) \in Seq(S)
           /\ Len(SubSeq(s, 1, k)) = k
           /\ \A i \in 1..k : SubSeq(s, 1, k)[i] = s[i]
<1>1. \A i \in 1..k : s[i] \in S
  BY ElementOfSeq
<1> QED
  BY <1>1, SubSeqProperties

LEMMA ResponseType ==
    ASSUME NEW item \in 0..MaxItems, NEW end \in {"none", "completed"} \cup Codes
    PROVE  Response(item, end) \in Responses
  BY DEF Response, Responses

\* The attempt of a call that goes on is one of the requests.
LEMMA RequestPairs ==
    /\ \A r \in Requests : /\ r[1] \in Calls /\ r[2] \in 1..(Retry + 1)
                           /\ r = <<r[1], r[2]>>
    /\ \A c \in Calls, k \in 1..(Retry + 1) : <<c, k>> \in Requests
  BY DEF Requests, Attempts

\* The helpers on the records of a call, a request, a wire and a handler keep
\* their types.
LEMMA FailedType ==
    ASSUME NEW v \in CallType, NEW code \in Codes
    PROVE  Failed(v, code) \in CallType
  BY DEF Failed, CallType, Endings

LEMMA RequestRecordTypes ==
    ASSUME NEW q \in ReqType
    PROVE  /\ Teardown(q) \in ReqType
           /\ Finished(q) \in ReqType
           /\ Abandoned(q) \in ReqType
           /\ LateCancel(q) \in ReqType
           /\ \A p \in {"none", "sending", "left", "settled", "failed"} :
                [q EXCEPT !.send = p] \in ReqType
           /\ \A n \in Nodes \cup {NoNode} : [q EXCEPT !.node = n] \in ReqType
<1>1. q.cancels \in Nat /\ q.cancels + 1 \in Nat
  BY DEF ReqType
<1>2. \A n \in Nat : [q EXCEPT !.known = FALSE, !.cancelled = TRUE, !.cancels = n] \in ReqType
  BY DEF ReqType
<1>3. Teardown(q) \in ReqType
  <2>1. CASE q.finished
    BY <2>1 DEF Teardown, ReqType
  <2>2. CASE ~q.finished /\ q.send = "settled"
    BY <1>1, <1>2, <2>2 DEF Teardown
  <2>3. CASE ~q.finished /\ q.send # "settled"
    BY <1>1, <1>2, <2>3 DEF Teardown
  <2> QED BY <2>1, <2>2, <2>3
<1>4. Finished(q) \in ReqType
  BY DEF Finished, ReqType
<1>5. Abandoned(q) \in ReqType
  BY DEF Abandoned, ReqType
<1>6. LateCancel(q) \in ReqType
  <2>1. \A n \in Nat : [q EXCEPT !.send = "settled", !.cancels = n] \in ReqType
    BY DEF ReqType
  <2> QED BY <1>1, <2>1 DEF LateCancel
<1>7. \A p \in {"none", "sending", "left", "settled", "failed"} : [q EXCEPT !.send = p] \in ReqType
  BY DEF ReqType
<1>8. \A n \in Nodes \cup {NoNode} : [q EXCEPT !.node = n] \in ReqType
  BY DEF ReqType
<1> QED
  BY <1>3, <1>4, <1>5, <1>6, <1>7, <1>8

LEMMA WithCancelType ==
    ASSUME NEW w \in WireType, NEW before, NEW after
    PROVE  WithCancel(w, before, after) \in WireType
<1>1. Append(w.to, "cancel") \in Seq({"request", "cancel"})
  BY AppendType DEF WireType
<1> QED
  BY <1>1 DEF WithCancel, WireType

LEMMA EnqueueType ==
    ASSUME NEW s \in ServerType, NEW packet \in Responses
    PROVE  Enqueue(s, packet) \in ServerType
<1>1. Append(s.queue, packet) \in Seq(Responses)
  BY AppendType DEF ServerType
<1> QED
  BY <1>1 DEF Enqueue, ServerType

LEMMA SeenType ==
    ASSUME NEW v \in CallType, NEW packet \in Responses, NEW leaves \in BOOLEAN
    PROVE  Seen(v, packet, leaves) \in CallType
<1>1. packet.item \in 0..MaxItems
  BY DEF Responses
<1> DEFINE w == IF packet.item > 0 THEN [v EXCEPT !.got = packet.item] ELSE v
<1>2. w \in CallType
  BY <1>1 DEF CallType
<1>3. \A how \in Endings : [w EXCEPT !.phase = "over", !.outcome = how] \in CallType
  BY <1>2 DEF CallType
<1>4. packet.end \in Codes => Failed(w, packet.end) \in CallType
  BY <1>2, FailedType
<1> QED
  BY <1>2, <1>3, <1>4 DEF Seen, Endings

\* A call with one more attempt.
LEMMA TriedType ==
    ASSUME NEW w \in CallType, NEW j \in 0..(Retry + 1), NEW node \in Nodes \cup {NoNode}
    PROVE  [w EXCEPT !.attempt = j, !.node = node, !.got = 0] \in CallType
<1>1. [w EXCEPT !.attempt = j] \in CallType
  BY DEF CallType
<1>2. \A x \in CallType : [x EXCEPT !.node = node] \in CallType
  BY DEF CallType
<1>3. 0 \in 0..MaxItems
  BY RpcCallAssumption
<1>4. \A x \in CallType : [x EXCEPT !.got = 0] \in CallType
  BY <1>3 DEF CallType
<1> QED
  BY <1>1, <1>2, <1>4

LEMMA TryType ==
    ASSUME TypeOK, NEW c \in Calls, NEW node \in Nodes \cup {NoNode}, NEW routed \in BOOLEAN,
           call[c].attempt <= Retry, Try(c, node, routed)
    PROVE  call' \in [Calls -> CallType] /\ req' \in [Requests -> ReqType]
<1> DEFINE k == call[c].attempt + 1
           v == [call[c] EXCEPT !.attempt = k, !.node = node, !.got = 0]
<1>1. call[c] \in CallType /\ k \in 0..(Retry + 1)
  BY RpcCallAssumption DEF TypeOK, CallType
<1>2. v \in CallType
  <2> HIDE DEF k
  <2> QED BY <1>1, TriedType
<1>3. [v EXCEPT !.phase = "open"] \in CallType
  BY <1>2 DEF CallType
<1>4. Failed(v, "offline") \in CallType
  BY <1>2, FailedType DEF Codes
<1>5. [Unused EXCEPT !.known = TRUE, !.node = node, !.send = "sending"] \in ReqType
  BY DEF Unused, ReqType
<1>6. CASE routed
  <2>1. /\ call' = [call EXCEPT ![c] = [v EXCEPT !.phase = "open"]]
        /\ req' = [req EXCEPT ![<<c, k>>] =
                     [Unused EXCEPT !.known = TRUE, !.node = node, !.send = "sending"]]
    BY <1>6 DEF Try
  <2> HIDE DEF v, k
  <2> QED BY <1>3, <1>5, <2>1 DEF TypeOK
<1>7. CASE ~routed
  <2>1. call' = [call EXCEPT ![c] = Failed(v, "offline")] /\ req' = req
    BY <1>7 DEF Try
  <2> HIDE DEF v
  <2> QED BY <1>4, <2>1 DEF TypeOK
<1> QED
  BY <1>6, <1>7

LEMMA GiveUpType ==
    ASSUME TypeOK, NEW c \in Calls, NEW how \in {"timeout", "left"}, GiveUp(c, how)
    PROVE  /\ call' \in [Calls -> CallType]
           /\ req' \in [Requests -> ReqType]
           /\ wire' \in [Requests -> WireType]
<1> DEFINE r == Current(c)
           q == Abandoned(Teardown(req[r]))
<1>1. [call[c] EXCEPT !.phase = "over", !.outcome = how] \in CallType
  BY DEF TypeOK, CallType, Endings
<1>2. r \in Requests => /\ q \in ReqType
                        /\ WithCancel(wire[r], req[r], q) \in WireType
  BY RequestRecordTypes, WithCancelType DEF TypeOK
<1>3. /\ call' = [call EXCEPT ![c] = [call[c] EXCEPT !.phase = "over", !.outcome = how]]
      /\ req' = [req EXCEPT ![r] = q]
      /\ wire' = [wire EXCEPT ![r] = WithCancel(wire[r], req[r], q)]
  BY DEF GiveUp
<1> HIDE DEF r, q
<1> QED
  BY <1>1, <1>2, <1>3 DEF TypeOK

\* An update of one function by a value of the right type.
LEMMA UpdateType ==
    ASSUME NEW D, NEW S, NEW f \in [D -> S], NEW d \in D, NEW e \in S
    PROVE  [f EXCEPT ![d] = e] \in [D -> S]
  OBVIOUS

LEMMA CallerTypeStep ==
    ASSUME TypeOK, \A c \in Calls : call[c].phase \in {"idle", "delay"} => call[c].attempt <= Retry,
           CallerStep
    PROVE  TypeOK'
<1>1. ASSUME NEW c \in Calls, NEW n \in Nodes \cup {NoNode}, NEW b \in BOOLEAN, Subscribe(c, n, b)
      PROVE  TypeOK'
  BY <1>1, TryType DEF TypeOK, Subscribe
<1>2. ASSUME NEW c \in Calls, NEW b \in BOOLEAN, RetryTimer(c, b) PROVE TypeOK'
  <2>1. call[c].node \in Nodes \cup {NoNode}
    BY DEF TypeOK, CallType
  <2> QED BY <1>2, <2>1, TryType DEF TypeOK, RetryTimer
<1>3. ASSUME NEW c \in Calls, Timeout(c) PROVE TypeOK'
  BY <1>3, GiveUpType DEF TypeOK, Timeout
<1>4. ASSUME NEW c \in Calls, Unsubscribe(c) PROVE TypeOK'
  <2>1. CASE call[c].phase = "open" /\ GiveUp(c, "left")
    BY <1>4, <2>1, GiveUpType DEF TypeOK, Unsubscribe
  <2>2. CASE ~(call[c].phase = "open" /\ GiveUp(c, "left"))
    <3>1. [call[c] EXCEPT !.phase = "over", !.outcome = "left"] \in CallType
      BY DEF TypeOK, CallType, Endings
    <3>2. call' = [call EXCEPT ![c] = [call[c] EXCEPT !.phase = "over", !.outcome = "left"]]
      BY <1>4, <2>2 DEF Unsubscribe
    <3>3. call' \in [Calls -> CallType]
      BY <3>1, <3>2, UpdateType DEF TypeOK
    <3> QED BY <1>4, <2>2, <3>3 DEF TypeOK, Unsubscribe
  <2> QED BY <2>1, <2>2
<1>5. ASSUME NEW r \in Requests, NEW n \in Nodes, RequestLeaves(r, n) PROVE TypeOK'
  <2>1. [req[r] EXCEPT !.send = "left"] \in ReqType
    BY RequestRecordTypes DEF TypeOK
  <2>2. <<"request">> \in Seq({"request", "cancel"})
    OBVIOUS
  <2>3. [wire[r] EXCEPT !.to = <<"request">>, !.carrier = n] \in WireType
    BY <2>2 DEF TypeOK, WireType
  <2>4. /\ req' = [req EXCEPT ![r] = [req[r] EXCEPT !.send = "left"]]
        /\ wire' = [wire EXCEPT ![r] = [wire[r] EXCEPT !.to = <<"request">>, !.carrier = n]]
    BY <1>5 DEF RequestLeaves
  <2>5. req' \in [Requests -> ReqType] /\ wire' \in [Requests -> WireType]
    BY <2>1, <2>3, <2>4, UpdateType DEF TypeOK
  <2> QED BY <1>5, <2>5 DEF TypeOK, RequestLeaves
<1>6. ASSUME NEW r \in Requests, NEW b \in BOOLEAN, SendResolves(r, b) PROVE TypeOK'
  <2> DEFINE q == LateCancel(req[r])
             m == IF b THEN [q EXCEPT !.node = wire[r].carrier] ELSE q
  <2>1. q \in ReqType /\ wire[r].carrier \in Nodes \cup {NoNode}
    BY RequestRecordTypes DEF TypeOK, WireType
  <2>2. m \in ReqType
    BY <2>1, RequestRecordTypes
  <2>3. WithCancel(wire[r], req[r], q) \in WireType
    BY WithCancelType DEF TypeOK
  <2>4. /\ req' = [req EXCEPT ![r] = m]
        /\ wire' = [wire EXCEPT ![r] = WithCancel(wire[r], req[r], q)]
    BY <1>6 DEF SendResolves
  <2>5. req' \in [Requests -> ReqType] /\ wire' \in [Requests -> WireType]
    <3> HIDE DEF m, q
    <3> QED BY <2>2, <2>3, <2>4, UpdateType DEF TypeOK
  <2> QED BY <1>6, <2>5 DEF TypeOK, SendResolves
<1>7. ASSUME NEW r \in Requests, NEW code \in Codes, SendRejects(r, code) PROVE TypeOK'
  <2>1. Teardown(Finished([req[r] EXCEPT !.send = "failed"])) \in ReqType
    BY RequestRecordTypes DEF TypeOK
  <2>2. Failed(call[r[1]], code) \in CallType
    BY FailedType, RequestPairs DEF TypeOK
  <2>3. req' = [req EXCEPT ![r] = Teardown(Finished([req[r] EXCEPT !.send = "failed"]))]
    BY <1>7 DEF SendRejects, RejectionFails
  <2>4. \/ call' = [call EXCEPT ![r[1]] = Failed(call[r[1]], code)]
        \/ call' = call
    BY <1>7 DEF SendRejects, RejectionFails
  <2>5. call' \in [Calls -> CallType] /\ req' \in [Requests -> ReqType]
    BY <2>1, <2>2, <2>3, <2>4, RequestPairs, UpdateType DEF TypeOK
  <2> QED BY <1>7, <2>5 DEF TypeOK, SendRejects
<1>8. ASSUME NEW r \in Requests, NEW b \in BOOLEAN, ResponseArrives(r, b) PROVE TypeOK'
  <2> DEFINE packet == Head(wire[r].from)
             marked == MarkedFirst([req[r] EXCEPT !.node = wire[r].carrier], packet)
             after  == IF b /\ ~Terminal(packet) THEN Abandoned(Teardown(marked))
                       ELSE IF b THEN Teardown(marked)
                       ELSE IF Terminal(packet) THEN Teardown(Finished(marked))
                       ELSE marked
             rest   == [wire[r] EXCEPT !.from = Tail(@)]
  <2>1. wire[r] \in WireType /\ wire[r].from \in Seq(Responses) /\ wire[r].from # <<>>
    BY <1>8 DEF ResponseArrives, TypeOK, WireType
  <2>2. packet \in Responses /\ Tail(wire[r].from) \in Seq(Responses)
    BY <2>1, HeadTailProperties
  <2>3. rest \in WireType
    BY <2>1, <2>2 DEF WireType
  <2>4. marked \in ReqType
    <3>1. [req[r] EXCEPT !.node = wire[r].carrier] \in ReqType
      BY RequestRecordTypes DEF TypeOK, WireType
    <3> QED BY <3>1, RequestRecordTypes DEF MarkedFirst
  <2> HIDE DEF packet, marked, rest
  <2>5. after \in ReqType
    BY <2>4, RequestRecordTypes
  <2>6. Seen(call[r[1]], packet, b) \in CallType
    BY <2>2, SeenType, RequestPairs DEF TypeOK
  <2>7. WithCancel(rest, req[r], after) \in WireType
    BY <2>3, WithCancelType
  <2> HIDE DEF after
  <2>8. CASE req[r].known
    <3>1. /\ call' = [call EXCEPT ![r[1]] = Seen(call[r[1]], packet, b)]
          /\ req' = [req EXCEPT ![r] = after]
          /\ wire' = [wire EXCEPT ![r] = WithCancel(rest, req[r], after)]
      BY <1>8, <2>8 DEF ResponseArrives, packet, marked, rest, after
    <3>2. call' \in [Calls -> CallType] /\ req' \in [Requests -> ReqType]
            /\ wire' \in [Requests -> WireType]
      BY <3>1, <2>5, <2>6, <2>7, RequestPairs, UpdateType DEF TypeOK
    <3> QED BY <1>8, <3>2 DEF TypeOK, ResponseArrives
  <2>9. CASE ~req[r].known
    <3>1. wire' = [wire EXCEPT ![r] = rest]
      BY <1>8, <2>9 DEF ResponseArrives, rest
    <3>2. wire' \in [Requests -> WireType]
      BY <3>1, <2>3, UpdateType DEF TypeOK
    <3> QED BY <1>8, <2>9, <3>2 DEF TypeOK, ResponseArrives
  <2> QED BY <2>8, <2>9
<1>9. ASSUME NEW n \in Nodes, NodeOffline(n) PROVE TypeOK'
  <2>1. \A r \in Requests : Teardown(Finished(req[r])) \in ReqType
    BY RequestRecordTypes DEF TypeOK
  <2>2. \A c \in Calls : Failed(call[c], "offline") \in CallType
    BY FailedType DEF TypeOK, Codes
  <2>3. req' \in [Requests -> ReqType] /\ call' \in [Calls -> CallType]
    BY <1>9, <2>1, <2>2 DEF TypeOK, NodeOffline
  <2> QED BY <1>9, <2>3 DEF TypeOK, NodeOffline
<1>10. ASSUME NEW r \in Requests, NEW k \in 0..(MaxItems + 1), NEW b \in BOOLEAN,
              LinkLost(r, k, b) PROVE TypeOK'
  <2> DEFINE kept == SubSeq(wire[r].from, 1, k)
             told == ~b /\ req[r].send = "settled" /\ \A i \in 1..k : ~Terminal(kept[i])
             from == IF told THEN Append(kept, Response(0, "offline")) ELSE kept
  <2>1. k \in Nat /\ k <= Len(wire[r].from) /\ wire[r] \in WireType
          /\ wire[r].from \in Seq(Responses)
    BY <1>10 DEF LinkLost, TypeOK, WireType
  <2>2. kept \in Seq(Responses)
    BY <2>1, PrefixType
  <2>3. Response(0, "offline") \in Responses
    BY ResponseType, RpcCallAssumption DEF Codes
  <2> HIDE DEF kept, told
  <2>4. from \in Seq(Responses)
    BY <2>2, <2>3, AppendType
  <2>5. <<>> \in Seq({"request", "cancel"})
    OBVIOUS
  <2> HIDE DEF from
  <2>6. [wire[r] EXCEPT !.up = FALSE, !.mute = b, !.to = <<>>, !.from = from] \in WireType
    BY <2>1, <2>4, <2>5 DEF WireType
  <2>7. wire' = [wire EXCEPT ![r] =
                    [wire[r] EXCEPT !.up = FALSE, !.mute = b, !.to = <<>>, !.from = from]]
    BY <1>10 DEF LinkLost, kept, told, from
  <2>8. wire' \in [Requests -> WireType]
    BY <2>6, <2>7, UpdateType DEF TypeOK
  <2> QED BY <1>10, <2>8 DEF TypeOK, LinkLost
<1> QED
  BY <1>1, <1>2, <1>3, <1>4, <1>5, <1>6, <1>7, <1>8, <1>9, <1>10 DEF CallerStep

LEMMA ServerRecordTypes ==
    ASSUME NEW s \in ServerType
    PROVE  /\ \A p \in {"none", "invoking", "live", "over"} : [s EXCEPT !.phase = p] \in ServerType
           /\ \A b \in BOOLEAN : [s EXCEPT !.running = b] \in ServerType
           /\ \A b \in BOOLEAN : [s EXCEPT !.whole = b] \in ServerType
           /\ \A b \in BOOLEAN : [s EXCEPT !.poisoned = b] \in ServerType
           /\ \A b \in BOOLEAN : [s EXCEPT !.cancelSeen = b] \in ServerType
           /\ \A n \in 0..MaxItems : [s EXCEPT !.made = n] \in ServerType
           /\ \A packets \in Seq(Responses) : [s EXCEPT !.queue = packets] \in ServerType
<1>1. \A p \in {"none", "invoking", "live", "over"} : [s EXCEPT !.phase = p] \in ServerType
  BY DEF ServerType
<1>2. \A b \in BOOLEAN : /\ [s EXCEPT !.running = b] \in ServerType
                         /\ [s EXCEPT !.whole = b] \in ServerType
                         /\ [s EXCEPT !.poisoned = b] \in ServerType
                         /\ [s EXCEPT !.cancelSeen = b] \in ServerType
  BY DEF ServerType
<1>3. \A n \in 0..MaxItems : [s EXCEPT !.made = n] \in ServerType
  BY DEF ServerType
<1>4. \A packets \in Seq(Responses) : [s EXCEPT !.queue = packets] \in ServerType
  BY DEF ServerType
<1> QED
  BY <1>1, <1>2, <1>3, <1>4

\* A handler that is over with one reply, or with none yet, has the right type.
LEMMA OneReplyType ==
    ASSUME NEW packet \in Responses
    PROVE  <<packet>> \in Seq(Responses)
  OBVIOUS

LEMMA ProviderTypeStep ==
    ASSUME TypeOK, ProviderStep
    PROVE  TypeOK'
<1>1. \A r \in Requests : server[r] \in ServerType /\ wire[r] \in WireType
  BY DEF TypeOK
<1>2. \A r \in Requests : wire[r].to # <<>> => [wire[r] EXCEPT !.to = Tail(@)] \in WireType
  <2> SUFFICES ASSUME NEW r \in Requests, wire[r].to # <<>>
               PROVE  [wire[r] EXCEPT !.to = Tail(@)] \in WireType
    OBVIOUS
  <2>1. wire[r].to \in Seq({"request", "cancel"})
    BY <1>1 DEF WireType
  <2>2. Tail(wire[r].to) \in Seq({"request", "cancel"})
    BY <2>1, HeadTailProperties
  <2> QED BY <1>1, <2>2 DEF WireType
<1>3. ASSUME NEW r \in Requests, NEW b \in BOOLEAN, RequestArrives(r, b) PROVE TypeOK'
  <2>1. <<Response(0, "error")>> \in Seq(Responses)
    BY OneReplyType, ResponseType, RpcCallAssumption DEF Codes
  <2>2. [server[r] EXCEPT !.phase = "invoking"] \in ServerType
    BY <1>1, ServerRecordTypes
  <2>3. [server[r] EXCEPT !.phase = "over", !.queue = <<Response(0, "error")>>] \in ServerType
    BY <1>1, <2>1, ServerRecordTypes
  <2>4. \/ server' = [server EXCEPT ![r] = [server[r] EXCEPT !.phase = "invoking"]]
        \/ server' = [server EXCEPT ![r] = [server[r] EXCEPT !.phase = "over",
                                                      !.queue = <<Response(0, "error")>>]]
    BY <1>3 DEF RequestArrives
  <2>5. server' \in [Requests -> ServerType]
    BY <2>2, <2>3, <2>4, UpdateType DEF TypeOK
  <2>6. wire' = [wire EXCEPT ![r] = [wire[r] EXCEPT !.to = Tail(@)]] /\ wire[r].to # <<>>
    BY <1>3 DEF RequestArrives
  <2>7. wire' \in [Requests -> WireType]
    BY <1>2, <2>6, UpdateType DEF TypeOK
  <2> QED BY <1>3, <2>5, <2>7 DEF TypeOK, RequestArrives
<1>4. ASSUME NEW r \in Requests, MethodReturns(r) PROVE TypeOK'
  <2>1. <<Response(1, "completed")>> \in Seq(Responses) /\ 1 \in 0..MaxItems
    BY OneReplyType, ResponseType, RpcCallAssumption
  <2>2. [server[r] EXCEPT !.phase = "over", !.made = 1, !.whole = TRUE,
                          !.queue = <<Response(1, "completed")>>] \in ServerType
    BY <1>1, <2>1, ServerRecordTypes
  <2>3. server' = [server EXCEPT ![r] =
                     [server[r] EXCEPT !.phase = "over", !.made = 1, !.whole = TRUE,
                                       !.queue = <<Response(1, "completed")>>]]
    BY <1>4 DEF MethodReturns
  <2>4. server' \in [Requests -> ServerType]
    BY <2>2, <2>3, UpdateType DEF TypeOK
  <2> QED BY <1>4, <2>4 DEF TypeOK, MethodReturns
<1>5. ASSUME NEW r \in Requests, NEW code \in Codes, MethodFails(r, code) PROVE TypeOK'
  <2>1. <<Response(0, code)>> \in Seq(Responses)
    <3>1. 0 \in 0..MaxItems /\ code \in {"none", "completed"} \cup Codes
      BY RpcCallAssumption
    <3>2. Response(0, code) \in Responses
      BY <3>1, ResponseType
    <3> QED BY <3>2, OneReplyType
  <2>2. [server[r] EXCEPT !.phase = "over", !.queue = <<Response(0, code)>>] \in ServerType
    BY <1>1, <2>1, ServerRecordTypes
  <2>3. server' = [server EXCEPT ![r] =
                     [server[r] EXCEPT !.phase = "over", !.queue = <<Response(0, code)>>]]
    BY <1>5 DEF MethodFails
  <2>4. server' \in [Requests -> ServerType]
    BY <2>2, <2>3, UpdateType DEF TypeOK
  <2> QED BY <1>5, <2>4 DEF TypeOK, MethodFails
<1>6. ASSUME NEW r \in Requests, StreamStarts(r) PROVE TypeOK'
  <2>1. [server[r] EXCEPT !.phase = "live", !.running = TRUE] \in ServerType
    BY <1>1, ServerRecordTypes
  <2>2. server' = [server EXCEPT ![r] = [server[r] EXCEPT !.phase = "live", !.running = TRUE]]
    BY <1>6 DEF StreamStarts
  <2>3. server' \in [Requests -> ServerType]
    BY <2>1, <2>2, UpdateType DEF TypeOK
  <2> QED BY <1>6, <2>3 DEF TypeOK, StreamStarts
<1>7. ASSUME NEW r \in Requests, StreamEmits(r) PROVE TypeOK'
  <2> DEFINE n == server[r].made + 1
             s == Enqueue(server[r], Response(n, "none"))
  <2>1. n \in 0..MaxItems
    BY <1>1, <1>7, RpcCallAssumption DEF StreamEmits, ServerType
  <2>2. s \in ServerType
    BY <1>1, <2>1, ResponseType, EnqueueType
  <2>3. server' = [server EXCEPT ![r] = [s EXCEPT !.made = n]]
    BY <1>7 DEF StreamEmits
  <2>4. [s EXCEPT !.made = n] \in ServerType
    <3> HIDE DEF s, n
    <3> QED BY <2>1, <2>2, ServerRecordTypes
  <2>5. server' \in [Requests -> ServerType]
    <3> HIDE DEF s, n
    <3> QED BY <2>3, <2>4, UpdateType DEF TypeOK
  <2> QED BY <1>7, <2>5 DEF TypeOK, StreamEmits
<1>8. ASSUME NEW r \in Requests, NEW end \in {"completed"} \cup Codes, StreamEnds(r, end)
      PROVE  TypeOK'
  <2> DEFINE s == Enqueue(server[r], Response(0, end))
             whole == end = "completed"
             running == ~server[r].poisoned
  <2>1. s \in ServerType
    BY <1>1, ResponseType, EnqueueType, RpcCallAssumption
  <2>2. whole \in BOOLEAN /\ running \in BOOLEAN
    OBVIOUS
  <2>3. server' = [server EXCEPT ![r] = [s EXCEPT !.phase = "over", !.whole = whole,
                                                  !.running = running]]
    BY <1>8 DEF StreamEnds
  <2>4. [s EXCEPT !.phase = "over", !.whole = whole, !.running = running] \in ServerType
    <3> HIDE DEF s, whole, running
    <3> QED BY <2>1, <2>2, ServerRecordTypes
  <2>5. server' \in [Requests -> ServerType]
    <3> HIDE DEF s, whole, running
    <3> QED BY <2>3, <2>4, UpdateType DEF TypeOK
  <2> QED BY <1>8, <2>5 DEF TypeOK, StreamEnds
<1>9. ASSUME NEW r \in Requests, NEW b \in BOOLEAN, ReplySends(r, b) PROVE TypeOK'
  <2> DEFINE packet == Head(server[r].queue)
             rest == Tail(server[r].queue)
             running == server[r].running /\ ~Terminal(packet)
  <2>1. packet \in Responses /\ rest \in Seq(Responses)
    <3>1. server[r].queue \in Seq(Responses) /\ server[r].queue # <<>>
      BY <1>1, <1>9 DEF ReplySends, ServerType
    <3> QED BY <3>1, HeadTailProperties
  <2>2. running \in BOOLEAN
    OBVIOUS
  <2>3. /\ server' = [server EXCEPT ![r].queue = rest, ![r].running = running]
        /\ \/ wire' = [wire EXCEPT ![r] = [wire[r] EXCEPT !.from = Append(wire[r].from, packet)]]
           \/ wire' = wire
    BY <1>9 DEF ReplySends, TakeFirst
  <2> HIDE DEF packet, rest, running
  <2>4. server' = [server EXCEPT ![r] = [server[r] EXCEPT !.queue = rest, !.running = running]]
    BY <2>3 DEF TypeOK
  <2>5. [server[r] EXCEPT !.queue = rest, !.running = running] \in ServerType
    BY <1>1, <2>1, <2>2, ServerRecordTypes
  <2>6. server' \in [Requests -> ServerType]
    BY <2>4, <2>5, UpdateType DEF TypeOK
  <2>7. Append(wire[r].from, packet) \in Seq(Responses)
    BY <1>1, <2>1, AppendType DEF WireType
  <2>8. [wire[r] EXCEPT !.from = Append(wire[r].from, packet)] \in WireType
    BY <1>1, <2>7 DEF WireType
  <2>9. wire' \in [Requests -> WireType]
    BY <2>3, <2>8, UpdateType DEF TypeOK
  <2> QED BY <1>9, <2>6, <2>9 DEF TypeOK, ReplySends
<1>10. ASSUME NEW r \in Requests, ReplyFails(r) PROVE TypeOK'
  <2> DEFINE running == server[r].running /\ server[r].phase = "live"
  <2>1. <<>> \in Seq(Responses) /\ running \in BOOLEAN
    OBVIOUS
  <2>2. server' = [server EXCEPT ![r] = [server[r] EXCEPT !.queue = <<>>, !.poisoned = TRUE,
                                                          !.running = running]]
    BY <1>10 DEF ReplyFails, Poisoned
  <2> HIDE DEF running
  <2>3. [server[r] EXCEPT !.queue = <<>>, !.poisoned = TRUE, !.running = running] \in ServerType
    BY <1>1, <2>1, ServerRecordTypes
  <2>4. server' \in [Requests -> ServerType]
    BY <2>2, <2>3, UpdateType DEF TypeOK
  <2> QED BY <1>10, <2>4 DEF TypeOK, ReplyFails
<1>11. ASSUME NEW r \in Requests, CancelArrives(r) PROVE TypeOK'
  <2>1. wire' = [wire EXCEPT ![r] = [wire[r] EXCEPT !.to = Tail(@)]] /\ wire[r].to # <<>>
    BY <1>11 DEF CancelArrives
  <2>2. wire' \in [Requests -> WireType]
    BY <1>2, <2>1, UpdateType DEF TypeOK
  <2>3. \/ server' = [server EXCEPT ![r] = [server[r] EXCEPT !.phase = "over", !.running = FALSE,
                                                             !.cancelSeen = TRUE]]
        \/ server' = [server EXCEPT ![r] = [server[r] EXCEPT !.cancelSeen = TRUE]]
    BY <1>11 DEF CancelArrives
  <2>4. /\ [server[r] EXCEPT !.phase = "over", !.running = FALSE,
                             !.cancelSeen = TRUE] \in ServerType
        /\ [server[r] EXCEPT !.cancelSeen = TRUE] \in ServerType
    BY <1>1, ServerRecordTypes
  <2>5. server' \in [Requests -> ServerType]
    BY <2>3, <2>4, UpdateType DEF TypeOK
  <2> QED BY <1>11, <2>2, <2>5 DEF TypeOK, CancelArrives
<1> QED
  BY <1>3, <1>4, <1>5, <1>6, <1>7, <1>8, <1>9, <1>10, <1>11 DEF ProviderStep

-----------------------------------------------------------------------------
(* Attempts, #rpc.pending and cancels: the inductive invariant of the      *)
(* calling node.                                                           *)

\* Attempts are numbered without a gap, up to Retry + 1.
CallSound(v) ==
    /\ v.phase = "idle" => v.attempt = 0
    /\ v.phase = "delay" => v.attempt <= Retry
    /\ v.phase = "open" => v.attempt > 0

\* A pending request is neither finished nor cancelled, only a request its
\* subscriber gave up is cancelled, and the cancel is sent once.
ReqSound(q) ==
    /\ q.known => ~q.finished /\ ~q.cancelled /\ ~q.abandoned
    /\ q.cancelled <=> q.abandoned
    /\ q.cancels = IF q.abandoned /\ q.send = "settled" THEN 1 ELSE 0

AttemptsInv ==
    /\ \A c \in Calls : CallSound(call[c])
    /\ \A r \in Requests : ReqSound(req[r])
    /\ \A r \in Requests : r[2] > call[r[1]].attempt => req[r] = Unused
    /\ \A r \in Requests : req[r].known <=>
                              (call[r[1]].phase = "open" /\ r[2] = call[r[1]].attempt)

LEMMA FailedSound ==
    ASSUME NEW v \in CallType, NEW code \in Codes
    PROVE  /\ Failed(v, code).phase \in {"delay", "over"}
           /\ Failed(v, code).attempt = v.attempt
           /\ Failed(v, code).node = v.node
           /\ CallSound(Failed(v, code))
  BY DEF Failed, MayRetry, CallSound, CallType

\* The ways a request record changes.
LEMMA GivenUpSound ==
    ASSUME NEW q \in ReqType, ReqSound(q), q.known
    PROVE  ReqSound(Abandoned(Teardown(q))) /\ ~Abandoned(Teardown(q)).known
<1>1. ~q.finished /\ q.cancels = 0
  BY DEF ReqSound
<1>2. CASE q.send = "settled"
  BY <1>1, <1>2 DEF ReqSound, Abandoned, Teardown, ReqType
<1>3. CASE q.send # "settled"
  BY <1>1, <1>3 DEF ReqSound, Abandoned, Teardown, ReqType
<1> QED BY <1>2, <1>3

LEMMA FinishedSound ==
    ASSUME NEW q \in ReqType, ReqSound(q)
    PROVE  ReqSound(Teardown(Finished(q))) /\ ~Teardown(Finished(q)).known
  BY DEF ReqSound, Teardown, Finished, ReqType

LEMMA RejectedSound ==
    ASSUME NEW q \in ReqType, ReqSound(q), q.send \in {"sending", "left"}
    PROVE  /\ ReqSound(Teardown(Finished([q EXCEPT !.send = "failed"])))
           /\ ~Teardown(Finished([q EXCEPT !.send = "failed"])).known
<1>1. [q EXCEPT !.send = "failed"] \in ReqType
  BY RequestRecordTypes
<1>2. ReqSound([q EXCEPT !.send = "failed"])
  BY DEF ReqSound, ReqType
<1> QED BY <1>1, <1>2, FinishedSound

LEMMA LeftSound ==
    ASSUME NEW q \in ReqType, ReqSound(q), q.send = "sending"
    PROVE  /\ ReqSound([q EXCEPT !.send = "left"])
           /\ [q EXCEPT !.send = "left"].known <=> q.known
  BY DEF ReqSound, ReqType

LEMMA NodeSound ==
    ASSUME NEW q \in ReqType, ReqSound(q), NEW n \in Nodes \cup {NoNode}
    PROVE  /\ ReqSound([q EXCEPT !.node = n])
           /\ [q EXCEPT !.node = n].known <=> q.known
  BY DEF ReqSound, ReqType

LEMMA SettledSound ==
    ASSUME NEW q \in ReqType, ReqSound(q), q.send = "left"
    PROVE  ReqSound(LateCancel(q)) /\ (LateCancel(q).known <=> q.known)
<1>1. q.cancels = 0
  BY DEF ReqSound
<1>2. CASE q.cancelled
  BY <1>1, <1>2 DEF ReqSound, LateCancel, ReqType
<1>3. CASE ~q.cancelled
  BY <1>1, <1>3 DEF ReqSound, LateCancel, ReqType
<1> QED BY <1>2, <1>3

\* A step that changes one used request and the record of its call, and that
\* keeps the two in agreement, keeps the invariant.
LEMMA RequestMoves ==
    ASSUME TypeOK, AttemptsInv, NEW r \in Requests, NEW q \in ReqType, NEW v \in CallType,
           req[r] # Unused, ReqSound(q), CallSound(v), v.attempt = call[r[1]].attempt,
           q.known <=> (v.phase = "open" /\ r[2] = v.attempt),
           r[2] # v.attempt => v.phase = call[r[1]].phase,
           req' = [req EXCEPT ![r] = q],
           call' = [call EXCEPT ![r[1]] = v]
    PROVE  AttemptsInv'
<1>1. r[1] \in Calls /\ r[2] \in 1..(Retry + 1) /\ r[2] <= call[r[1]].attempt
  <2>1. call[r[1]].attempt \in 0..(Retry + 1)
    BY RequestPairs DEF TypeOK, CallType
  <2> QED BY <2>1, RequestPairs, RpcCallAssumption DEF AttemptsInv
<1>2. /\ \A s \in Requests : req'[s] = IF s = r THEN q ELSE req[s]
      /\ \A c \in Calls : call'[c] = IF c = r[1] THEN v ELSE call[c]
  BY <1>1 DEF TypeOK
<1>3. \A c \in Calls : CallSound(call'[c])
  BY <1>2 DEF AttemptsInv
<1>4. \A s \in Requests : ReqSound(req'[s])
  BY <1>2 DEF AttemptsInv
<1>5. ASSUME NEW s \in Requests PROVE s[2] > call'[s[1]].attempt => req'[s] = Unused
  <2>1. s[1] \in Calls /\ call'[s[1]].attempt = call[s[1]].attempt
    BY <1>2, RequestPairs
  <2>2. CASE s = r
    <3>1. ~(s[2] > call'[s[1]].attempt)
      <4>1. call[r[1]].attempt \in Int /\ r[2] \in Int
        BY <1>1 DEF TypeOK, CallType
      <4> QED BY <1>1, <2>1, <2>2, <4>1
    <3> QED BY <3>1
  <2>3. CASE s # r
    BY <1>2, <2>1, <2>3 DEF AttemptsInv
  <2> QED BY <2>2, <2>3
<1>6. ASSUME NEW s \in Requests
      PROVE  req'[s].known <=> (call'[s[1]].phase = "open" /\ s[2] = call'[s[1]].attempt)
  <2>1. s[1] \in Calls
    BY RequestPairs
  <2>2. CASE s = r
    BY <1>1, <1>2, <2>2
  <2>3. CASE s # r /\ s[1] # r[1]
    BY <1>2, <2>1, <2>3 DEF AttemptsInv
  <2>4. CASE s # r /\ s[1] = r[1]
    <3>1. s[2] # r[2]
      BY <2>4, RequestPairs
    <3>2. req'[s] = req[s] /\ call'[s[1]] = v
      BY <1>2, <2>1, <2>4
    <3>3. req[s].known <=> (call[r[1]].phase = "open" /\ s[2] = call[r[1]].attempt)
      BY <2>4 DEF AttemptsInv
    <3>4. CASE r[2] = v.attempt
      BY <3>1, <3>2, <3>3, <3>4
    <3>5. CASE r[2] # v.attempt
      BY <3>2, <3>3, <3>5
    <3> QED BY <3>4, <3>5
  <2> QED BY <2>2, <2>3, <2>4
<1> QED
  BY <1>3, <1>4, <1>5, <1>6 DEF AttemptsInv

\* A new attempt.
LEMMA TryKeepsAttempts ==
    ASSUME TypeOK, AttemptsInv, NEW c \in Calls, NEW node \in Nodes \cup {NoNode},
           NEW routed \in BOOLEAN, call[c].phase \in {"idle", "delay"}, Try(c, node, routed)
    PROVE  AttemptsInv'
<1> DEFINE k == call[c].attempt + 1
           v == [call[c] EXCEPT !.attempt = k, !.node = node, !.got = 0]
           q == [Unused EXCEPT !.known = TRUE, !.node = node, !.send = "sending"]
<1>1. call[c] \in CallType /\ call[c].attempt <= Retry /\ k \in 1..(Retry + 1)
  BY RpcCallAssumption DEF TypeOK, CallType, AttemptsInv, CallSound
<1>2. v \in CallType /\ v.attempt = k
  <2>1. k \in 0..(Retry + 1)
    BY <1>1, RpcCallAssumption
  <2> HIDE DEF k
  <2>2. v \in CallType
    BY <1>1, <2>1, TriedType
  <2>3. v.attempt = k
    BY <1>1 DEF CallType
  <2> QED BY <2>2, <2>3
<1>3. \A r \in Requests : r[1] = c => ~req[r].known
  BY DEF AttemptsInv
<1>4. <<c, k>> \in Requests
  BY <1>1, RequestPairs
<1>5. ReqSound(q) /\ q.known
  BY DEF ReqSound, Unused
<1>6. CASE routed
  <2> DEFINE w == [v EXCEPT !.phase = "open"]
  <2>1. call' = [call EXCEPT ![c] = w] /\ req' = [req EXCEPT ![<<c, k>>] = q]
    BY <1>6 DEF Try
  <2>2. w.attempt = k /\ w.phase = "open" /\ CallSound(w)
    <3> HIDE DEF v, k
    <3>1. w.attempt = k /\ w.phase = "open"
      BY <1>2 DEF CallType
    <3> QED BY <1>1, <3>1 DEF CallSound
  <2> HIDE DEF w, v, q
  <2>3. /\ \A s \in Requests : req'[s] = IF s = <<c, k>> THEN q ELSE req[s]
        /\ \A d \in Calls : call'[d] = IF d = c THEN w ELSE call[d]
    BY <1>4, <2>1 DEF TypeOK
  <2>4. \A d \in Calls : CallSound(call'[d])
    BY <2>2, <2>3 DEF AttemptsInv
  <2>5. \A s \in Requests : ReqSound(req'[s])
    BY <1>5, <2>3 DEF AttemptsInv
  <2>6. ASSUME NEW s \in Requests PROVE s[2] > call'[s[1]].attempt => req'[s] = Unused
    <3>1. CASE s[1] = c
      <4>1. call'[s[1]].attempt = k /\ call[c].attempt \in Int /\ s[2] \in Int
        BY <1>1, <2>2, <2>3, <3>1, RequestPairs DEF CallType
      <4>2. s = <<c, k>> => s[2] = k
        OBVIOUS
      <4>3. k = call[c].attempt + 1
        OBVIOUS
      <4> HIDE DEF k
      <4> QED BY <2>3, <3>1, <4>1, <4>2, <4>3 DEF AttemptsInv
    <3>2. CASE s[1] # c
      BY <2>3, <3>2, RequestPairs DEF AttemptsInv
    <3> QED BY <3>1, <3>2
  <2>7. ASSUME NEW s \in Requests
        PROVE  req'[s].known <=> (call'[s[1]].phase = "open" /\ s[2] = call'[s[1]].attempt)
    <3> HIDE DEF k
    <3>1. CASE s = <<c, k>>
      BY <1>5, <2>2, <2>3, <3>1
    <3>2. CASE s # <<c, k>> /\ s[1] = c
      <4>1. s[2] # k
        BY <3>2, RequestPairs
      <4> QED BY <1>3, <2>2, <2>3, <3>2, <4>1
    <3>3. CASE s[1] # c
      BY <2>3, <3>3, RequestPairs DEF AttemptsInv
    <3> QED BY <3>1, <3>2, <3>3
  <2> QED BY <2>4, <2>5, <2>6, <2>7 DEF AttemptsInv
<1>7. CASE ~routed
  <2> DEFINE w == Failed(v, "offline")
  <2>1. call' = [call EXCEPT ![c] = w] /\ req' = req
    BY <1>7 DEF Try
  <2>2. w.attempt = k /\ w.phase # "open" /\ CallSound(w)
    <3> HIDE DEF v, k
    <3> QED BY <1>2, FailedSound DEF Codes
  <2> HIDE DEF w, v, q
  <2>3. \A d \in Calls : call'[d] = IF d = c THEN w ELSE call[d]
    BY <2>1 DEF TypeOK
  <2>4. \A d \in Calls : CallSound(call'[d])
    BY <2>2, <2>3 DEF AttemptsInv
  <2>5. ASSUME NEW s \in Requests PROVE s[2] > call'[s[1]].attempt => req'[s] = Unused
    <3>1. CASE s[1] = c
      <4>1. call'[s[1]].attempt = k /\ call[c].attempt \in Int /\ s[2] \in Int
        BY <1>1, <2>2, <2>3, <3>1, RequestPairs DEF CallType
      <4>2. k = call[c].attempt + 1
        OBVIOUS
      <4> HIDE DEF k
      <4> QED BY <2>1, <3>1, <4>1, <4>2 DEF AttemptsInv
    <3>2. CASE s[1] # c
      BY <2>1, <2>3, <3>2, RequestPairs DEF AttemptsInv
    <3> QED BY <3>1, <3>2
  <2>6. ASSUME NEW s \in Requests
        PROVE  req'[s].known <=> (call'[s[1]].phase = "open" /\ s[2] = call'[s[1]].attempt)
    <3>1. CASE s[1] = c
      BY <1>3, <2>1, <2>2, <2>3, <3>1
    <3>2. CASE s[1] # c
      BY <2>1, <2>3, <3>2, RequestPairs DEF AttemptsInv
    <3> QED BY <3>1, <3>2
  <2> QED BY <2>1, <2>4, <2>5, <2>6 DEF AttemptsInv
<1> QED
  BY <1>6, <1>7

\* The current attempt ends, with the subscriber's doing or without it.
LEMMA AttemptEnds ==
    ASSUME TypeOK, AttemptsInv, NEW r \in Requests, NEW q \in ReqType, NEW v \in CallType,
           req[r].known, ReqSound(q), ~q.known, CallSound(v),
           v.attempt = call[r[1]].attempt, v.phase \in {"delay", "over"},
           req' = [req EXCEPT ![r] = q],
           call' = [call EXCEPT ![r[1]] = v]
    PROVE  AttemptsInv'
<1>1. req[r] # Unused
  BY DEF Unused
<1>2. r[2] = v.attempt
  BY DEF AttemptsInv
<1> QED
  BY <1>1, <1>2, RequestMoves

\* A request moves on without its call.
LEMMA RequestMovesAlone ==
    ASSUME TypeOK, AttemptsInv, NEW r \in Requests, NEW q \in ReqType,
           req[r] # Unused, ReqSound(q), q.known <=> req[r].known,
           req' = [req EXCEPT ![r] = q], call' = call
    PROVE  AttemptsInv'
<1>1. r[1] \in Calls /\ call[r[1]] \in CallType /\ CallSound(call[r[1]])
  BY RequestPairs DEF TypeOK, AttemptsInv
<1>2. call' = [call EXCEPT ![r[1]] = call[r[1]]]
  BY <1>1 DEF TypeOK
<1>3. q.known <=> (call[r[1]].phase = "open" /\ r[2] = call[r[1]].attempt)
  BY DEF AttemptsInv
<1> QED
  BY <1>1, <1>2, <1>3, RequestMoves

LEMMA GiveUpKeepsAttempts ==
    ASSUME TypeOK, AttemptsInv, NEW c \in Calls, NEW how \in {"timeout", "left"},
           call[c].phase = "open", GiveUp(c, how)
    PROVE  AttemptsInv'
<1> DEFINE r == Current(c)
           q == Abandoned(Teardown(req[r]))
           v == [call[c] EXCEPT !.phase = "over", !.outcome = how]
<1>1. call[c] \in CallType /\ call[c].attempt > 0
  BY DEF TypeOK, AttemptsInv, CallSound
<1>2. r \in Requests /\ r[1] = c /\ r[2] = call[c].attempt
  <2>1. call[c].attempt \in 1..(Retry + 1)
    BY <1>1, RpcCallAssumption DEF CallType
  <2> QED BY <2>1, RequestPairs DEF Current
<1>3. req[r].known
  BY <1>2 DEF AttemptsInv
<1>4. q \in ReqType /\ ReqSound(q) /\ ~q.known
  BY <1>2, <1>3, RequestRecordTypes, GivenUpSound DEF TypeOK, AttemptsInv
<1>5. v \in CallType /\ v.attempt = call[c].attempt /\ v.phase = "over"
  BY <1>1 DEF CallType, Endings
<1>6. CallSound(v)
  BY <1>5 DEF CallSound
<1>7. req' = [req EXCEPT ![r] = q] /\ call' = [call EXCEPT ![c] = v]
  BY DEF GiveUp
<1> HIDE DEF r, q, v
<1> QED
  BY <1>2, <1>3, <1>4, <1>5, <1>6, <1>7, AttemptEnds

LEMMA SeenSound ==
    ASSUME NEW v \in CallType, CallSound(v), NEW packet \in Responses, NEW leaves \in BOOLEAN
    PROVE  /\ Seen(v, packet, leaves).attempt = v.attempt
           /\ Seen(v, packet, leaves).node = v.node
           /\ CallSound(Seen(v, packet, leaves))
           /\ leaves \/ Terminal(packet) => Seen(v, packet, leaves).phase \in {"delay", "over"}
           /\ ~leaves /\ ~Terminal(packet) => Seen(v, packet, leaves).phase = v.phase
<1> DEFINE w == IF packet.item > 0 THEN [v EXCEPT !.got = packet.item] ELSE v
<1>1. packet.item \in 0..MaxItems /\ packet.end \in {"none", "completed"} \cup Codes
  BY DEF Responses
<1>2. w \in CallType /\ w.attempt = v.attempt /\ w.phase = v.phase /\ w.node = v.node
  BY <1>1 DEF CallType
<1>3. CallSound(w)
  BY <1>2 DEF CallSound
<1> HIDE DEF w
<1>4. CASE leaves
  BY <1>2, <1>4 DEF Seen, w, CallSound, CallType
<1>5. CASE ~leaves /\ packet.end = "completed"
  BY <1>2, <1>5 DEF Seen, w, CallSound, CallType, Terminal
<1>6. CASE ~leaves /\ packet.end \in Codes
  <2>1. Seen(v, packet, leaves) = Failed(w, packet.end) /\ Terminal(packet)
    BY <1>6 DEF Seen, w, Codes, Terminal
  <2> QED BY <1>2, <1>6, <2>1, FailedSound
<1>7. CASE ~leaves /\ packet.end = "none"
  <2>1. Seen(v, packet, leaves) = w /\ ~Terminal(packet)
    BY <1>7 DEF Seen, w, Codes, Terminal
  <2> QED BY <1>2, <1>3, <1>7, <2>1
<1> QED
  BY <1>1, <1>4, <1>5, <1>6, <1>7

LEMMA ResponseKeepsAttempts ==
    ASSUME TypeOK, AttemptsInv, TypeOK', NEW r \in Requests, NEW b \in BOOLEAN,
           ResponseArrives(r, b)
    PROVE  AttemptsInv'
<1> DEFINE packet == Head(wire[r].from)
           seen   == [req[r] EXCEPT !.node = wire[r].carrier]
           marked == MarkedFirst(seen, packet)
           after  == IF b /\ ~Terminal(packet) THEN Abandoned(Teardown(marked))
                     ELSE IF b THEN Teardown(marked)
                     ELSE IF Terminal(packet) THEN Teardown(Finished(marked))
                     ELSE marked
           v      == Seen(call[r[1]], packet, b)
<1>1. packet \in Responses
  <2>1. wire[r].from \in Seq(Responses) /\ wire[r].from # <<>>
    BY DEF ResponseArrives, TypeOK, WireType
  <2> QED BY <2>1, HeadTailProperties
<1>2. call[r[1]] \in CallType /\ CallSound(call[r[1]]) /\ r[1] \in Calls
  BY RequestPairs DEF TypeOK, AttemptsInv
<1>3. CASE ~req[r].known
  BY <1>3 DEF ResponseArrives, AttemptsInv
<1>4. CASE req[r].known
  <2>1. req' = [req EXCEPT ![r] = after] /\ call' = [call EXCEPT ![r[1]] = v]
    BY <1>4 DEF ResponseArrives
  <2>2. seen \in ReqType /\ ReqSound(seen) /\ seen.known
    BY <1>4, RequestRecordTypes, NodeSound DEF TypeOK, AttemptsInv, WireType
  <2>3. Finished(Finished(seen)) = Finished(seen)
    BY <2>2 DEF Finished, ReqType
  <2>4. v \in CallType /\ CallSound(v) /\ v.attempt = call[r[1]].attempt
    BY <1>1, <1>2, SeenType, SeenSound
  <2>5. CASE b \/ Terminal(packet)
    <3>1. v.phase \in {"delay", "over"}
      BY <1>1, <1>2, <2>5, SeenSound
    <3>2. after \in ReqType /\ ReqSound(after) /\ ~after.known
      <4> HIDE DEF seen
      <4>1. CASE ~Terminal(packet)
        <5>1. after = Abandoned(Teardown(seen))
          BY <2>5, <4>1 DEF MarkedFirst
        <5> QED BY <2>2, <5>1, GivenUpSound, RequestRecordTypes
      <4>2. CASE Terminal(packet)
        <5>1. after = Teardown(Finished(seen))
          BY <2>3, <4>2 DEF MarkedFirst
        <5> QED BY <2>2, <5>1, FinishedSound, RequestRecordTypes
      <4> QED BY <4>1, <4>2
    <3> HIDE DEF after, v
    <3> QED BY <1>4, <2>1, <2>4, <3>1, <3>2, AttemptEnds
  <2>6. CASE ~b /\ ~Terminal(packet)
    <3>1. v.phase = call[r[1]].phase
      BY <1>1, <1>2, <2>6, SeenSound
    <3>2. after = seen
      BY <2>6 DEF MarkedFirst
    <3>3. req[r] # Unused
      BY <1>4 DEF Unused
    <3>4. call[r[1]].phase = "open" /\ r[2] = call[r[1]].attempt
      BY <1>4 DEF AttemptsInv
    <3> HIDE DEF after, v, seen
    <3> QED BY <2>1, <2>2, <2>4, <3>1, <3>2, <3>3, <3>4, RequestMoves
  <2> QED BY <2>5, <2>6
<1> QED
  BY <1>3, <1>4

LEMMA OfflineKeepsAttempts ==
    ASSUME TypeOK, AttemptsInv, NEW n \in Nodes, NodeOffline(n)
    PROVE  AttemptsInv'
<1>1. \A r \in Requests : req'[r] = IF r \in ServedBy(n) THEN Teardown(Finished(req[r])) ELSE req[r]
  BY DEF NodeOffline
<1>2. \A c \in Calls : call'[c] = IF Current(c) \in ServedBy(n) THEN Failed(call[c], "offline")
                                                                 ELSE call[c]
  BY DEF NodeOffline
<1>3. \A r \in ServedBy(n) : /\ r \in Requests /\ req[r].known
                             /\ r = Current(r[1])
  BY RequestPairs DEF ServedBy, AttemptsInv, Current
<1>4. \A c \in Calls : /\ Failed(call[c], "offline").phase \in {"delay", "over"}
                       /\ Failed(call[c], "offline").attempt = call[c].attempt
                       /\ CallSound(Failed(call[c], "offline"))
  BY FailedSound DEF TypeOK, Codes
<1>5. \A c \in Calls : CallSound(call'[c]) /\ call'[c].attempt = call[c].attempt
  BY <1>2, <1>4 DEF AttemptsInv
<1>6. \A r \in Requests : /\ ReqSound(Teardown(Finished(req[r])))
                          /\ ~Teardown(Finished(req[r])).known
  BY FinishedSound DEF TypeOK, AttemptsInv
<1>7. \A r \in Requests : ReqSound(req'[r])
  BY <1>1, <1>6 DEF AttemptsInv
<1>8. ASSUME NEW r \in Requests PROVE r[2] > call'[r[1]].attempt => req'[r] = Unused
  <2>1. call'[r[1]].attempt = call[r[1]].attempt
    BY <1>5, RequestPairs
  <2>2. CASE r \in ServedBy(n)
    <3>1. req[r].known /\ req[r] # Unused
      BY <1>3, <2>2 DEF Unused
    <3> QED BY <2>1, <3>1 DEF AttemptsInv
  <2>3. CASE r \notin ServedBy(n)
    BY <1>1, <2>1, <2>3 DEF AttemptsInv
  <2> QED BY <2>2, <2>3
<1>9. ASSUME NEW r \in Requests
      PROVE  req'[r].known <=> (call'[r[1]].phase = "open" /\ r[2] = call'[r[1]].attempt)
  <2>1. r[1] \in Calls /\ call'[r[1]].attempt = call[r[1]].attempt
    BY <1>5, RequestPairs
  <2>2. CASE r \in ServedBy(n)
    <3>1. Current(r[1]) \in ServedBy(n)
      BY <1>3, <2>2
    <3>2. call'[r[1]].phase # "open"
      BY <1>2, <1>4, <2>1, <3>1
    <3> QED BY <1>1, <1>6, <2>2, <3>2
  <2>3. CASE r \notin ServedBy(n) /\ Current(r[1]) \in ServedBy(n)
    <3>1. req'[r] = req[r] /\ call'[r[1]].phase # "open"
      BY <1>1, <1>2, <1>4, <2>1, <2>3
    <3>2. r # Current(r[1])
      BY <2>3
    <3>3. ~req[r].known
      BY <3>2, RequestPairs DEF AttemptsInv, Current
    <3> QED BY <3>1, <3>3
  <2>4. CASE r \notin ServedBy(n) /\ Current(r[1]) \notin ServedBy(n)
    BY <1>1, <1>2, <2>1, <2>4 DEF AttemptsInv
  <2> QED BY <2>2, <2>3, <2>4
<1> QED
  BY <1>5, <1>7, <1>8, <1>9 DEF AttemptsInv

LEMMA AttemptsStep ==
    ASSUME TypeOK, TypeOK', AttemptsInv, [Next]_vars
    PROVE  AttemptsInv'
<1>1. ASSUME NEW c \in Calls, NEW n \in Nodes \cup {NoNode}, NEW b \in BOOLEAN, Subscribe(c, n, b)
      PROVE  AttemptsInv'
  BY <1>1, TryKeepsAttempts DEF Subscribe
<1>2. ASSUME NEW c \in Calls, NEW b \in BOOLEAN, RetryTimer(c, b) PROVE AttemptsInv'
  <2>1. call[c].node \in Nodes \cup {NoNode}
    BY DEF TypeOK, CallType
  <2> QED BY <1>2, <2>1, TryKeepsAttempts DEF RetryTimer
<1>3. ASSUME NEW c \in Calls, Timeout(c) PROVE AttemptsInv'
  BY <1>3, GiveUpKeepsAttempts DEF Timeout, TimeoutArmed
<1>4. ASSUME NEW c \in Calls, Unsubscribe(c) PROVE AttemptsInv'
  <2>1. CASE call[c].phase = "open" /\ GiveUp(c, "left")
    BY <2>1, GiveUpKeepsAttempts
  <2>2. CASE /\ call[c].phase = "delay"
             /\ call' = [call EXCEPT ![c].phase = "over", ![c].outcome = "left"]
             /\ UNCHANGED <<req, wire>>
    <3> DEFINE v == [call[c] EXCEPT !.phase = "over", !.outcome = "left"]
    <3>1. call[c] \in CallType
      BY DEF TypeOK
    <3>2. v.phase = "over" /\ v.attempt = call[c].attempt
      BY <3>1 DEF CallType
    <3>3. \A d \in Calls : call'[d] = IF d = c THEN v ELSE call[d]
      BY <2>2 DEF TypeOK
    <3>4. req' = req
      BY <2>2
    <3> HIDE DEF v
    <3>5. \A d \in Calls : CallSound(call'[d]) /\ call'[d].attempt = call[d].attempt
      BY <3>2, <3>3 DEF AttemptsInv, CallSound
    <3>6. \A d \in Calls : call'[d].phase = "open" <=> call[d].phase = "open"
      BY <2>2, <3>2, <3>3
    <3> QED BY <3>4, <3>5, <3>6, RequestPairs DEF AttemptsInv
  <2> QED BY <1>4, <2>1, <2>2 DEF Unsubscribe
<1>5. ASSUME NEW r \in Requests, NEW n \in Nodes, RequestLeaves(r, n) PROVE AttemptsInv'
  <2> DEFINE q == [req[r] EXCEPT !.send = "left"]
  <2>1. req[r].send = "sending" /\ req' = [req EXCEPT ![r] = q] /\ call' = call
    BY <1>5 DEF RequestLeaves
  <2>2. req[r] # Unused
    BY <2>1 DEF Unused
  <2>3. q \in ReqType /\ ReqSound(q) /\ (q.known <=> req[r].known)
    BY <2>1, RequestRecordTypes, LeftSound DEF TypeOK, AttemptsInv
  <2> HIDE DEF q
  <2> QED BY <2>1, <2>2, <2>3, RequestMovesAlone
<1>6. ASSUME NEW r \in Requests, NEW b \in BOOLEAN, SendResolves(r, b) PROVE AttemptsInv'
  <2> DEFINE q == LateCancel(req[r])
             m == IF b THEN [q EXCEPT !.node = wire[r].carrier] ELSE q
  <2>1. req[r].send = "left" /\ req' = [req EXCEPT ![r] = m] /\ call' = call
    BY <1>6 DEF SendResolves
  <2>2. req[r] # Unused
    BY <2>1 DEF Unused
  <2>3. q \in ReqType /\ ReqSound(q) /\ (q.known <=> req[r].known)
    BY <2>1, RequestRecordTypes, SettledSound DEF TypeOK, AttemptsInv
  <2>4. wire[r].carrier \in Nodes \cup {NoNode}
    BY DEF TypeOK, WireType
  <2> HIDE DEF q
  <2>5. m \in ReqType /\ ReqSound(m) /\ (m.known <=> req[r].known)
    BY <2>3, <2>4, RequestRecordTypes, NodeSound
  <2> HIDE DEF m
  <2> QED BY <2>1, <2>2, <2>5, RequestMovesAlone
<1>7. ASSUME NEW r \in Requests, NEW code \in Codes, SendRejects(r, code) PROVE AttemptsInv'
  <2> DEFINE q == Teardown(Finished([req[r] EXCEPT !.send = "failed"]))
             v == Failed(call[r[1]], code)
  <2>1. req[r].send \in {"sending", "left"} /\ req' = [req EXCEPT ![r] = q]
    BY <1>7 DEF SendRejects, RejectionFails
  <2>2. q \in ReqType /\ ReqSound(q) /\ ~q.known
    BY <2>1, RequestRecordTypes, RejectedSound DEF TypeOK, AttemptsInv
  <2>3. r[1] \in Calls /\ call[r[1]] \in CallType
    BY RequestPairs DEF TypeOK
  <2>4. /\ v \in CallType /\ CallSound(v)
        /\ v.phase \in {"delay", "over"} /\ v.attempt = call[r[1]].attempt
    BY <2>3, FailedType, FailedSound
  <2>5. CASE req[r].known
    <3>1. call' = [call EXCEPT ![r[1]] = v]
      BY <1>7, <2>5 DEF SendRejects, RejectionFails
    <3> HIDE DEF q, v
    <3> QED BY <2>1, <2>2, <2>4, <2>5, <3>1, AttemptEnds
  <2>6. CASE ~req[r].known
    <3>1. call' = call
      BY <1>7, <2>6 DEF SendRejects, RejectionFails
    <3>2. req[r] # Unused
      BY <2>1 DEF Unused
    <3> HIDE DEF q
    <3> QED BY <2>1, <2>2, <2>6, <3>1, <3>2, RequestMovesAlone
  <2> QED BY <2>5, <2>6
<1>8. ASSUME NEW r \in Requests, NEW b \in BOOLEAN, ResponseArrives(r, b) PROVE AttemptsInv'
  BY <1>8, ResponseKeepsAttempts
<1>9. ASSUME NEW n \in Nodes, NodeOffline(n) PROVE AttemptsInv'
  BY <1>9, OfflineKeepsAttempts
<1>10. ASSUME NEW r \in Requests, NEW k \in 0..(MaxItems + 1), NEW b \in BOOLEAN,
              LinkLost(r, k, b) PROVE AttemptsInv'
  BY <1>10 DEF LinkLost, AttemptsInv
<1>11. ASSUME ProviderStep PROVE AttemptsInv'
  <2>1. UNCHANGED <<call, req>>
    BY <1>11 DEF ProviderStep, RequestArrives, MethodReturns, MethodFails, StreamStarts,
                 StreamEmits, StreamEnds, ReplySends, ReplyFails, CancelArrives
  <2> QED BY <2>1 DEF AttemptsInv
<1>12. CASE UNCHANGED vars
  BY <1>12 DEF vars, AttemptsInv
<1> QED
  BY <1>1, <1>2, <1>3, <1>4, <1>5, <1>6, <1>7, <1>8, <1>9, <1>10, <1>11, <1>12
     DEF Next, CallerStep

LEMMA InitSound == Init => TypeOK /\ AttemptsInv
<1> SUFFICES ASSUME Init PROVE TypeOK /\ AttemptsInv
  OBVIOUS
<1>1. /\ [phase |-> "idle", attempt |-> 0, node |-> NoNode,
          got |-> 0, outcome |-> "none"] \in CallType
      /\ Unused \in ReqType
  BY RpcCallAssumption DEF CallType, Endings, Unused, ReqType
<1>2. Unsent \in WireType
  BY DEF Unsent, WireType
<1>3. Unserved \in ServerType
  BY RpcCallAssumption DEF Unserved, ServerType
<1>4. TypeOK
  BY <1>1, <1>2, <1>3 DEF Init, TypeOK
<1>5. /\ \A c \in Calls : call[c].phase = "idle" /\ call[c].attempt = 0
      /\ \A r \in Requests : req[r] = Unused
  BY DEF Init
<1>6. ReqSound(Unused) /\ ~Unused.known
  BY DEF ReqSound, Unused
<1>7. AttemptsInv
  BY <1>5, <1>6, RequestPairs DEF AttemptsInv, CallSound
<1> QED
  BY <1>4, <1>7

LEMMA InvStep == TypeOK /\ AttemptsInv /\ [Next]_vars => TypeOK' /\ AttemptsInv'
<1> SUFFICES ASSUME TypeOK, AttemptsInv, [Next]_vars PROVE TypeOK' /\ AttemptsInv'
  OBVIOUS
<1>1. \A c \in Calls : call[c].phase \in {"idle", "delay"} => call[c].attempt <= Retry
  BY RpcCallAssumption DEF AttemptsInv, CallSound
<1>2. CASE CallerStep
  BY <1>1, <1>2, CallerTypeStep, AttemptsStep
<1>3. CASE ProviderStep
  BY <1>3, ProviderTypeStep, AttemptsStep
<1>4. CASE UNCHANGED vars
  <2>1. TypeOK'
    BY <1>4 DEF TypeOK, vars
  <2> QED BY <2>1, AttemptsStep
<1> QED
  BY <1>2, <1>3, <1>4 DEF Next

LEMMA Soundness == Spec => [](TypeOK /\ AttemptsInv)
  BY InitSound, InvStep, PTL DEF Spec

\* In every reachable state the four variables have their types; in particular
\* no call makes more than Retry + 1 attempts, and no value of an answer is
\* numbered beyond what its provider may make.
THEOREM TypeCorrect == Spec => []TypeOK
  BY Soundness, PTL

\* #rpc.pending never leaks an entry and never loses one that is needed: its
\* entries are exactly the attempts in flight, on every way out of an attempt.
THEOREM PendingExact == Spec => []PendingIsCurrent
<1>1. TypeOK /\ AttemptsInv => PendingIsCurrent
  BY RequestPairs DEF AttemptsInv, PendingIsCurrent, Current
<1> QED
  BY <1>1, Soundness, PTL

\* However send() and unsubscribing race, an abandoned request is cancelled
\* exactly once after send() has resolved and a finished one never.
THEOREM CancelsExact == Spec => []CancelsAreExact
<1>1. AttemptsInv => CancelsAreExact
  BY DEF AttemptsInv, ReqSound, CancelsAreExact
<1> QED
  BY <1>1, Soundness, PTL

-----------------------------------------------------------------------------
(* Who serves an attempt: what the calling node believes and what is so.   *)

\* Before a request has left, nobody carries it, and its node is the one the
\* call is pinned to; afterwards a known node is the one that carries it.
ServedAsBelieved(r) ==
    /\ req[r].send \in {"none", "sending"} => wire[r].carrier = NoNode
    /\ (req[r].known /\ req[r].send = "sending") => req[r].node = call[r[1]].node
    /\ (req[r].known /\ req[r].node # NoNode /\ wire[r].carrier # NoNode)
         => req[r].node = wire[r].carrier

CarrierInv == \A r \in Requests : ServedAsBelieved(r)

\* Ending or finishing a request, or marking its send(), keeps its node.
LEMMA RecordsKeepNode ==
    ASSUME NEW q \in ReqType
    PROVE  /\ Teardown(q).node = q.node /\ Teardown(q).send = q.send /\ ~Teardown(q).known
           /\ Finished(q).node = q.node /\ Finished(q).send = q.send
           /\ Finished(q).known <=> q.known
           /\ Abandoned(q).node = q.node /\ Abandoned(q).send = q.send
           /\ Abandoned(q).known <=> q.known
           /\ LateCancel(q).node = q.node /\ LateCancel(q).send = "settled"
           /\ LateCancel(q).known <=> q.known
<1>1. Teardown(q).node = q.node /\ Teardown(q).send = q.send /\ ~Teardown(q).known
  BY DEF Teardown, ReqType
<1>2. /\ Finished(q).node = q.node /\ Finished(q).send = q.send
      /\ Finished(q).known <=> q.known
  BY DEF Finished, ReqType
<1>3. /\ Abandoned(q).node = q.node /\ Abandoned(q).send = q.send
      /\ Abandoned(q).known <=> q.known
  BY DEF Abandoned, ReqType
<1>4. /\ LateCancel(q).node = q.node /\ LateCancel(q).send = "settled"
      /\ LateCancel(q).known <=> q.known
  BY DEF LateCancel, ReqType
<1> QED
  BY <1>1, <1>2, <1>3, <1>4

LEMMA WithCancelKeepsCarrier ==
    ASSUME NEW w \in WireType, NEW before, NEW after
    PROVE  WithCancel(w, before, after).carrier = w.carrier
  BY DEF WithCancel, WireType

\* A request that is forgotten, or whose send is over, says little.
LEMMA Forgotten ==
    ASSUME NEW r \in Requests, NEW q \in ReqType, NEW w \in WireType, NEW n,
           w.carrier = wire[r].carrier, ServedAsBelieved(r), ~q.known,
           q.send = req[r].send \/ q.send \in {"settled", "failed"},
           req'[r] = q, wire'[r] = w
    PROVE  ServedAsBelieved(r)'
  BY DEF ServedAsBelieved

\* A step that leaves the request and the carrier alone.
LEMMA Untouched ==
    ASSUME NEW r \in Requests, ServedAsBelieved(r),
           req'[r] = req[r], wire'[r].carrier = wire[r].carrier,
           req[r].known => call'[r[1]].node = call[r[1]].node
    PROVE  ServedAsBelieved(r)'
  BY DEF ServedAsBelieved

LEMMA TryKeepsCarrier ==
    ASSUME TypeOK, AttemptsInv, CarrierInv, NEW c \in Calls, NEW node \in Nodes \cup {NoNode},
           NEW routed \in BOOLEAN, call[c].phase \in {"idle", "delay"}, Try(c, node, routed),
           UNCHANGED wire
    PROVE  CarrierInv'
<1> DEFINE k == call[c].attempt + 1
           v == [call[c] EXCEPT !.attempt = k, !.node = node, !.got = 0]
           q == [Unused EXCEPT !.known = TRUE, !.node = node, !.send = "sending"]
<1> SUFFICES ASSUME NEW r \in Requests PROVE ServedAsBelieved(r)'
  BY DEF CarrierInv
<1>1. r[1] \in Calls /\ ServedAsBelieved(r) /\ wire'[r] = wire[r]
  BY RequestPairs DEF CarrierInv
<1>2. r[1] = c => ~req[r].known
  BY DEF AttemptsInv
<1>3. \A d \in Calls : d # c => call'[d] = call[d]
  BY DEF Try, TypeOK
<1>4. CASE req'[r] = req[r]
  <2>1. req[r].known => call'[r[1]].node = call[r[1]].node
    BY <1>1, <1>2, <1>3
  <2> QED BY <1>1, <1>4, <2>1, Untouched
<1>5. CASE req'[r] # req[r]
  <2>1. routed /\ r = <<c, k>> /\ req'[r] = q
    BY <1>5 DEF Try, TypeOK
  <2>2. call'[c].node = node
    <3>1. call[c] \in CallType
      BY DEF TypeOK
    <3>2. v.node = node /\ [v EXCEPT !.phase = "open"].node = node
      BY <3>1 DEF CallType
    <3>3. call'[c] = [v EXCEPT !.phase = "open"]
      BY <2>1 DEF Try, TypeOK
    <3> QED BY <3>2, <3>3
  <2>3. req[r] = Unused
    <3>1. call[c].attempt \in Int /\ r[1] = c /\ r[2] = call[c].attempt + 1
      BY <2>1 DEF TypeOK, CallType
    <3>2. r[2] > call[r[1]].attempt
      BY <3>1
    <3> QED BY <3>2 DEF AttemptsInv
  <2>4. wire[r].carrier = NoNode
    BY <1>1, <2>3 DEF ServedAsBelieved, Unused
  <2>5. q.known /\ q.node = node /\ q.send = "sending"
    BY DEF Unused
  <2>6. r[1] = c
    BY <2>1
  <2> HIDE DEF q
  <2> QED BY <1>1, <2>1, <2>2, <2>4, <2>5, <2>6 DEF ServedAsBelieved
<1> QED
  BY <1>4, <1>5

LEMMA GiveUpKeepsCarrier ==
    ASSUME TypeOK, AttemptsInv, CarrierInv, NEW c \in Calls, NEW how, call[c].phase = "open",
           GiveUp(c, how)
    PROVE  CarrierInv'
<1> DEFINE g == Current(c)
           q == Abandoned(Teardown(req[g]))
<1> SUFFICES ASSUME NEW r \in Requests PROVE ServedAsBelieved(r)'
  BY DEF CarrierInv
<1>1. r[1] \in Calls /\ ServedAsBelieved(r) /\ req[r] \in ReqType /\ wire[r] \in WireType
  BY RequestPairs DEF CarrierInv, TypeOK
<1>2. call'[r[1]].node = call[r[1]].node
  <2>1. call[c] \in CallType
    BY DEF TypeOK
  <2>2. [call[c] EXCEPT !.phase = "over", !.outcome = how].node = call[c].node
    BY <2>1 DEF CallType
  <2>3. call' = [call EXCEPT ![c] = [call[c] EXCEPT !.phase = "over", !.outcome = how]]
    BY DEF GiveUp
  <2> QED BY <1>1, <2>2, <2>3 DEF TypeOK
<1>3. CASE r = g
  <2>1. req'[r] = Abandoned(Teardown(req[r]))
          /\ wire'[r] = WithCancel(wire[r], req[r], Abandoned(Teardown(req[r])))
    BY <1>3 DEF GiveUp, TypeOK
  <2>2. Abandoned(Teardown(req[r])) \in ReqType /\ ~Abandoned(Teardown(req[r])).known
          /\ Abandoned(Teardown(req[r])).send = req[r].send
    BY <1>1, RequestRecordTypes, RecordsKeepNode
  <2>3. wire'[r] \in WireType /\ wire'[r].carrier = wire[r].carrier
    BY <1>1, <2>1, WithCancelType, WithCancelKeepsCarrier
  <2> QED BY <1>1, <2>1, <2>2, <2>3, Forgotten
<1>4. CASE r # g
  <2>1. req'[r] = req[r] /\ wire'[r] = wire[r]
    BY <1>4 DEF GiveUp, TypeOK
  <2> QED BY <1>1, <1>2, <2>1, Untouched
<1> QED
  BY <1>3, <1>4

LEMMA ResponseKeepsCarrier ==
    ASSUME TypeOK, AttemptsInv, CarrierInv, NEW s \in Requests, NEW b \in BOOLEAN,
           ResponseArrives(s, b)
    PROVE  CarrierInv'
<1> DEFINE packet == Head(wire[s].from)
           seen   == [req[s] EXCEPT !.node = wire[s].carrier]
           marked == MarkedFirst(seen, packet)
           after  == IF b /\ ~Terminal(packet) THEN Abandoned(Teardown(marked))
                     ELSE IF b THEN Teardown(marked)
                     ELSE IF Terminal(packet) THEN Teardown(Finished(marked))
                     ELSE marked
           rest   == [wire[s] EXCEPT !.from = Tail(@)]
<1> SUFFICES ASSUME NEW r \in Requests PROVE ServedAsBelieved(r)'
  BY DEF CarrierInv
<1>1. r[1] \in Calls /\ ServedAsBelieved(r) /\ req[r] \in ReqType /\ wire[r] \in WireType
  BY RequestPairs DEF CarrierInv, TypeOK
<1>2. call'[r[1]].node = call[r[1]].node
  <2>1. packet \in Responses
    <3>1. wire[s].from \in Seq(Responses) /\ wire[s].from # <<>>
      BY DEF ResponseArrives, TypeOK, WireType
    <3> QED BY <3>1, HeadTailProperties
  <2>2. s[1] \in Calls /\ call[s[1]] \in CallType /\ CallSound(call[s[1]])
    BY RequestPairs DEF TypeOK, AttemptsInv
  <2>3. Seen(call[s[1]], packet, b).node = call[s[1]].node
    BY <2>1, <2>2, SeenSound
  <2>4. call' = call \/ call' = [call EXCEPT ![s[1]] = Seen(call[s[1]], packet, b)]
    BY DEF ResponseArrives
  <2> HIDE DEF packet
  <2> QED BY <1>1, <2>3, <2>4 DEF TypeOK
<1>3. CASE r # s
  <2>1. req'[r] = req[r] /\ wire'[r] = wire[r]
    BY <1>3 DEF ResponseArrives, TypeOK
  <2> QED BY <1>1, <1>2, <2>1, Untouched
<1>4. rest \in WireType /\ rest.carrier = wire[s].carrier
  <2>1. wire[s].from \in Seq(Responses) /\ wire[s].from # <<>> /\ wire[s] \in WireType
    BY DEF ResponseArrives, TypeOK, WireType
  <2>2. Tail(wire[s].from) \in Seq(Responses)
    BY <2>1, HeadTailProperties
  <2> QED BY <2>1, <2>2 DEF WireType
<1>5. CASE r = s /\ ~req[s].known
  <2>1. req'[r] = req[r] /\ wire'[r] = rest
    BY <1>5 DEF ResponseArrives, TypeOK
  <2> HIDE DEF rest
  <2> QED BY <1>1, <1>2, <1>4, <1>5, <2>1, Untouched
<1>6. CASE r = s /\ req[s].known
  <2>1. req'[r] = after /\ wire'[r] = WithCancel(rest, req[s], after)
    BY <1>6 DEF ResponseArrives, TypeOK
  <2>2. wire'[r] \in WireType /\ wire'[r].carrier = wire[r].carrier
    <3> HIDE DEF rest, after
    <3> QED BY <1>4, <1>6, <2>1, WithCancelType, WithCancelKeepsCarrier
  <2>3. seen \in ReqType /\ seen.node = wire[s].carrier /\ seen.send = "settled" /\ seen.known
    <3>1. wire[s].carrier \in Nodes \cup {NoNode} /\ req[s] \in ReqType /\ req[s].send = "settled"
      BY DEF TypeOK, WireType, ResponseArrives
    <3>2. seen \in ReqType
      BY <3>1, RequestRecordTypes
    <3> QED BY <1>6, <3>1, <3>2 DEF ReqType
  <2>4. marked \in ReqType /\ marked.node = wire[s].carrier /\ marked.send = "settled"
    <3> HIDE DEF seen
    <3> QED BY <2>3, RequestRecordTypes, RecordsKeepNode DEF MarkedFirst
  <2>5. after.node = wire[s].carrier /\ after.send = "settled"
    <3> HIDE DEF marked
    <3>1. Teardown(marked).node = wire[s].carrier /\ Teardown(marked).send = "settled"
            /\ Teardown(marked) \in ReqType
      BY <2>4, RequestRecordTypes, RecordsKeepNode
    <3>2. Abandoned(Teardown(marked)).node = wire[s].carrier
            /\ Abandoned(Teardown(marked)).send = "settled"
      BY <3>1, RecordsKeepNode
    <3>3. Finished(marked).node = wire[s].carrier /\ Finished(marked).send = "settled"
            /\ Finished(marked) \in ReqType
      BY <2>4, RequestRecordTypes, RecordsKeepNode
    <3>4. Teardown(Finished(marked)).node = wire[s].carrier
            /\ Teardown(Finished(marked)).send = "settled"
      BY <3>3, RecordsKeepNode
    <3> QED BY <2>4, <3>1, <3>2, <3>4
  <2> HIDE DEF after
  <2> QED BY <1>6, <2>1, <2>2, <2>5 DEF ServedAsBelieved
<1> QED
  BY <1>3, <1>5, <1>6

LEMMA CarrierStep ==
    ASSUME TypeOK, AttemptsInv, CarrierInv, [Next]_vars
    PROVE  CarrierInv'
<1>1. ASSUME NEW c \in Calls, NEW n \in Nodes \cup {NoNode}, NEW b \in BOOLEAN, Subscribe(c, n, b)
      PROVE  CarrierInv'
  BY <1>1, TryKeepsCarrier DEF Subscribe
<1>2. ASSUME NEW c \in Calls, NEW b \in BOOLEAN, RetryTimer(c, b) PROVE CarrierInv'
  <2>1. call[c].node \in Nodes \cup {NoNode}
    BY DEF TypeOK, CallType
  <2> QED BY <1>2, <2>1, TryKeepsCarrier DEF RetryTimer
<1>3. ASSUME NEW c \in Calls, Timeout(c) PROVE CarrierInv'
  BY <1>3, GiveUpKeepsCarrier DEF Timeout, TimeoutArmed
<1>4. ASSUME NEW c \in Calls, Unsubscribe(c) PROVE CarrierInv'
  <2>1. CASE call[c].phase = "open" /\ GiveUp(c, "left")
    BY <2>1, GiveUpKeepsCarrier
  <2>2. CASE /\ call[c].phase = "delay"
             /\ call' = [call EXCEPT ![c].phase = "over", ![c].outcome = "left"]
             /\ UNCHANGED <<req, wire>>
    <3>1. \A d \in Calls : call'[d].node = call[d].node
      BY <2>2 DEF TypeOK, CallType
    <3> QED BY <2>2, <3>1, RequestPairs, Untouched DEF CarrierInv
  <2> QED BY <1>4, <2>1, <2>2 DEF Unsubscribe
<1>5. ASSUME NEW s \in Requests, NEW n \in Nodes, RequestLeaves(s, n) PROVE CarrierInv'
  <2> SUFFICES ASSUME NEW r \in Requests PROVE ServedAsBelieved(r)'
    BY DEF CarrierInv
  <2>1. ServedAsBelieved(r) /\ call' = call /\ req[r] \in ReqType /\ wire[r] \in WireType
    BY <1>5 DEF CarrierInv, RequestLeaves, TypeOK
  <2>2. CASE r # s
    <3>1. req'[r] = req[r] /\ wire'[r] = wire[r]
      BY <1>5, <2>2 DEF RequestLeaves, TypeOK
    <3> QED BY <2>1, <3>1, Untouched
  <2>3. CASE r = s
    <3>1. /\ req[r].send = "sending" /\ call[r[1]].node \in {NoNode, n}
          /\ req'[r] = [req[r] EXCEPT !.send = "left"]
          /\ wire'[r] = [wire[r] EXCEPT !.to = <<"request">>, !.carrier = n]
      BY <1>5, <2>3 DEF RequestLeaves, TypeOK
    <3>2. req'[r].send = "left" /\ req'[r].node = req[r].node
            /\ (req'[r].known <=> req[r].known) /\ wire'[r].carrier = n
      BY <2>1, <3>1 DEF ReqType, WireType
    <3> QED BY <2>1, <3>1, <3>2 DEF ServedAsBelieved
  <2> QED BY <2>2, <2>3
<1>6. ASSUME NEW s \in Requests, NEW b \in BOOLEAN, SendResolves(s, b) PROVE CarrierInv'
  <2> SUFFICES ASSUME NEW r \in Requests PROVE ServedAsBelieved(r)'
    BY DEF CarrierInv
  <2>1. ServedAsBelieved(r) /\ call' = call /\ req[r] \in ReqType /\ wire[r] \in WireType
    BY <1>6 DEF CarrierInv, SendResolves, TypeOK
  <2>2. CASE r # s
    <3>1. req'[r] = req[r] /\ wire'[r] = wire[r]
      BY <1>6, <2>2 DEF SendResolves, TypeOK
    <3> QED BY <2>1, <3>1, Untouched
  <2>3. CASE r = s
    <3> DEFINE q == LateCancel(req[r])
               m == IF b THEN [q EXCEPT !.node = wire[r].carrier] ELSE q
    <3>1. q \in ReqType /\ q.node = req[r].node /\ q.send = "settled" /\ (q.known <=> req[r].known)
      BY <2>1, RequestRecordTypes, RecordsKeepNode
    <3>2. wire'[r] = WithCancel(wire[r], req[r], q) /\ req'[r] = m
      BY <1>6, <2>3 DEF SendResolves, TypeOK
    <3>3. wire'[r].carrier = wire[r].carrier
      BY <2>1, <3>2, WithCancelKeepsCarrier
    <3> HIDE DEF q
    <3>4. m.send = "settled" /\ (m.known <=> req[r].known)
            /\ m.node \in {req[r].node, wire[r].carrier}
      BY <3>1 DEF ReqType
    <3> HIDE DEF m
    <3> QED BY <2>1, <3>2, <3>3, <3>4 DEF ServedAsBelieved
  <2> QED BY <2>2, <2>3
<1>7. ASSUME NEW s \in Requests, NEW code \in Codes, SendRejects(s, code) PROVE CarrierInv'
  <2> SUFFICES ASSUME NEW r \in Requests PROVE ServedAsBelieved(r)'
    BY DEF CarrierInv
  <2>1. ServedAsBelieved(r) /\ wire' = wire /\ req[r] \in ReqType /\ wire[r] \in WireType
    BY <1>7 DEF CarrierInv, SendRejects, TypeOK
  <2>2. call'[r[1]].node = call[r[1]].node
    <3>1. s[1] \in Calls /\ call[s[1]] \in CallType /\ r[1] \in Calls
      BY RequestPairs DEF TypeOK
    <3>2. Failed(call[s[1]], code).node = call[s[1]].node
      BY <3>1, FailedSound
    <3>3. call' = call \/ call' = [call EXCEPT ![s[1]] = Failed(call[s[1]], code)]
      BY <1>7 DEF SendRejects, RejectionFails
    <3> QED BY <3>1, <3>2, <3>3 DEF TypeOK
  <2>3. CASE r # s
    <3>1. req'[r] = req[r] /\ wire'[r] = wire[r]
      BY <1>7, <2>1, <2>3 DEF SendRejects, RejectionFails, TypeOK
    <3> QED BY <2>1, <2>2, <3>1, Untouched
  <2>4. CASE r = s
    <3> DEFINE p == [req[r] EXCEPT !.send = "failed"]
    <3>1. p \in ReqType /\ p.send = "failed"
      BY <2>1, RequestRecordTypes DEF ReqType
    <3>2. req'[r] = Teardown(Finished(p)) /\ wire'[r] = wire[r]
      BY <1>7, <2>1, <2>4 DEF SendRejects, RejectionFails, TypeOK
    <3> HIDE DEF p
    <3>3. Teardown(Finished(p)) \in ReqType /\ ~Teardown(Finished(p)).known
            /\ Teardown(Finished(p)).send = "failed"
      <4>1. Finished(p) \in ReqType /\ Finished(p).send = "failed"
        BY <3>1, RequestRecordTypes, RecordsKeepNode
      <4> QED BY <4>1, RequestRecordTypes, RecordsKeepNode
    <3> QED BY <2>1, <3>2, <3>3, Forgotten
  <2> QED BY <2>3, <2>4
<1>8. ASSUME NEW s \in Requests, NEW b \in BOOLEAN, ResponseArrives(s, b) PROVE CarrierInv'
  BY <1>8, ResponseKeepsCarrier
<1>9. ASSUME NEW n \in Nodes, NodeOffline(n) PROVE CarrierInv'
  <2> SUFFICES ASSUME NEW r \in Requests PROVE ServedAsBelieved(r)'
    BY DEF CarrierInv
  <2>1. ServedAsBelieved(r) /\ wire' = wire /\ req[r] \in ReqType /\ wire[r] \in WireType
    BY <1>9 DEF CarrierInv, NodeOffline, TypeOK
  <2>2. call'[r[1]].node = call[r[1]].node
    <3>1. \A c \in Calls : Failed(call[c], "offline").node = call[c].node
      BY FailedSound DEF TypeOK, Codes
    <3> QED BY <1>9, <3>1, RequestPairs DEF NodeOffline
  <2>3. CASE r \notin ServedBy(n)
    <3>1. req'[r] = req[r]
      BY <1>9, <2>3 DEF NodeOffline
    <3> QED BY <2>1, <2>2, <3>1, Untouched
  <2>4. CASE r \in ServedBy(n)
    <3>1. req'[r] = Teardown(Finished(req[r]))
      BY <1>9, <2>4 DEF NodeOffline
    <3>2. Teardown(Finished(req[r])) \in ReqType /\ ~Teardown(Finished(req[r])).known
            /\ Teardown(Finished(req[r])).send = req[r].send
      BY <2>1, RequestRecordTypes, RecordsKeepNode
    <3> QED BY <2>1, <3>1, <3>2, Forgotten
  <2> QED BY <2>3, <2>4
<1>10. ASSUME NEW s \in Requests, NEW k \in 0..(MaxItems + 1), NEW b \in BOOLEAN,
              LinkLost(s, k, b) PROVE CarrierInv'
  <2>1. \A r \in Requests : wire'[r].carrier = wire[r].carrier
    BY <1>10 DEF LinkLost, TypeOK, WireType
  <2> QED BY <1>10, <2>1, Untouched DEF LinkLost, CarrierInv
<1>11. ASSUME ProviderStep PROVE CarrierInv'
  <2>1. UNCHANGED <<call, req>>
    BY <1>11 DEF ProviderStep, RequestArrives, MethodReturns, MethodFails, StreamStarts,
                 StreamEmits, StreamEnds, ReplySends, ReplyFails, CancelArrives
  <2>2. \A r \in Requests : wire'[r].carrier = wire[r].carrier
    <3>1. ASSUME NEW s \in Requests, NEW b \in BOOLEAN, RequestArrives(s, b)
          PROVE  \A r \in Requests : wire'[r].carrier = wire[r].carrier
      BY <3>1 DEF RequestArrives, TypeOK, WireType
    <3>2. ASSUME NEW s \in Requests, NEW b \in BOOLEAN, ReplySends(s, b)
          PROVE  \A r \in Requests : wire'[r].carrier = wire[r].carrier
      BY <3>2 DEF ReplySends, TypeOK, WireType
    <3>3. ASSUME NEW s \in Requests, CancelArrives(s)
          PROVE  \A r \in Requests : wire'[r].carrier = wire[r].carrier
      BY <3>3 DEF CancelArrives, TypeOK, WireType
    <3>4. wire' = wire \/ (\E s \in Requests : (\E b \in BOOLEAN : RequestArrives(s, b))
                             \/ (\E b \in BOOLEAN : ReplySends(s, b)) \/ CancelArrives(s))
      BY <1>11 DEF ProviderStep, MethodReturns, MethodFails, StreamStarts, StreamEmits,
                   StreamEnds, ReplyFails
    <3> QED BY <3>1, <3>2, <3>3, <3>4
  <2> QED BY <2>1, <2>2, Untouched DEF CarrierInv
<1>12. CASE UNCHANGED vars
  BY <1>12 DEF vars, CarrierInv, ServedAsBelieved
<1> QED
  BY <1>1, <1>2, <1>3, <1>4, <1>5, <1>6, <1>7, <1>8, <1>9, <1>10, <1>11, <1>12
     DEF Next, CallerStep

\* A node going offline fails only attempts that this node serves or that
\* nobody serves yet: an attempt the transport gave to another node goes on.
THEOREM OfflineIsPrecise == Spec => OfflineSparesOthers
<1>1. Init => CarrierInv
  BY DEF Init, CarrierInv, ServedAsBelieved, Unused, Unsent
<1>2. TypeOK /\ AttemptsInv /\ CarrierInv /\ [Next]_vars => CarrierInv'
  BY CarrierStep
<1>3. CarrierInv => \A n \in Nodes : NodeOffline(n) =>
        \A r \in Requests : req[r].known /\ ~req'[r].known => wire[r].carrier \in {NoNode, n}
  <2> SUFFICES ASSUME CarrierInv, NEW n \in Nodes, NodeOffline(n), NEW r \in Requests,
                      req[r].known, ~req'[r].known
               PROVE  wire[r].carrier \in {NoNode, n}
    OBVIOUS
  <2>1. r \in ServedBy(n)
    BY DEF NodeOffline
  <2>2. req[r].node = n /\ n # NoNode
    BY <2>1, RpcCallAssumption DEF ServedBy
  <2> QED BY <2>2 DEF CarrierInv, ServedAsBelieved
<1> QED
  BY <1>1, <1>2, <1>3, Soundness, PTL DEF Spec, OfflineSparesOthers

-----------------------------------------------------------------------------
(* The provider: #rpc.running and the chain of replies.                    *)

\* A request reaches the provider once, first of all; until then there is no
\* handler.
ArrivesOnce(r) ==
    /\ req[r].send \in {"none", "sending"} => wire[r].to = <<>> /\ server[r] = Unserved
    /\ \A i \in 1..Len(wire[r].to) :
          wire[r].to[i] = "request" => i = 1 /\ server[r].phase = "none"

\* An entry of #rpc.running belongs to a live stream, or the chain of replies
\* still ends in the terminal reply that drops it.
HandlerSound(s) ==
    /\ s.phase \in {"none", "invoking"} => ~s.running /\ s.queue = <<>>
    /\ s.phase = "live" => s.running /\ \A i \in 1..Len(s.queue) : ~Terminal(s.queue[i])
    /\ (s.running /\ s.phase # "live") => s.queue # <<>> /\ Terminal(s.queue[Len(s.queue)])

ProviderInv == \A r \in Requests : ArrivesOnce(r) /\ HandlerSound(server[r])

\* The calling node adds at most a cancel, behind the request, and only after
\* send() has resolved.
LEMMA CancelIsLast ==
    ASSUME NEW r \in Requests, wire[r] \in WireType, ArrivesOnce(r),
           server'[r] = server[r],
           \/ wire'[r].to = wire[r].to
           \/ wire'[r].to = Append(wire[r].to, "cancel") /\ req'[r].send = "settled",
           req'[r].send \in {"none", "sending"} => req[r].send \in {"none", "sending"}
    PROVE  ArrivesOnce(r)'
<1>1. wire[r].to \in Seq({"request", "cancel"})
  BY DEF WireType
<1>2. CASE wire'[r].to = wire[r].to
  BY <1>2 DEF ArrivesOnce
<1>3. CASE wire'[r].to = Append(wire[r].to, "cancel") /\ req'[r].send = "settled"
  <2>1. ASSUME NEW i \in 1..Len(wire'[r].to), wire'[r].to[i] = "request"
        PROVE  i \in 1..Len(wire[r].to) /\ wire[r].to[i] = "request"
    BY <1>1, <1>3, <2>1
  <2> QED BY <1>3, <2>1 DEF ArrivesOnce
<1> QED
  BY <1>2, <1>3

LEMMA WithCancelTo ==
    ASSUME NEW w \in WireType, NEW before, NEW after
    PROVE  \/ WithCancel(w, before, after).to = w.to
           \/ /\ WithCancel(w, before, after).to = Append(w.to, "cancel")
              /\ after.cancels > before.cancels
  BY DEF WithCancel, WireType

LEMMA GiveUpCancels ==
    ASSUME NEW q \in ReqType
    PROVE  Abandoned(Teardown(q)).cancels > q.cancels => q.send = "settled"
<1>1. q.cancels \in Nat
  BY DEF ReqType
<1>2. q.send # "settled" => Teardown(q).cancels = q.cancels
  BY DEF Teardown, ReqType
<1>3. Abandoned(Teardown(q)).cancels = Teardown(q).cancels
  BY RequestRecordTypes DEF Abandoned, ReqType
<1> QED
  BY <1>1, <1>2, <1>3

\* The handler does not change on the calling node, and HandlerSound with it.
LEMMA CallerKeepsHandler ==
    ASSUME ProviderInv, UNCHANGED server, \A r \in Requests : ArrivesOnce(r)'
    PROVE  ProviderInv'
  BY DEF ProviderInv

LEMMA GiveUpKeepsArrival ==
    ASSUME TypeOK, AttemptsInv, ProviderInv, NEW c \in Calls, NEW how, GiveUp(c, how),
           UNCHANGED server
    PROVE  ProviderInv'
<1> DEFINE g == Current(c)
<1> SUFFICES ASSUME NEW r \in Requests PROVE ArrivesOnce(r)'
  BY CallerKeepsHandler
<1>1. wire[r] \in WireType /\ req[r] \in ReqType /\ ArrivesOnce(r) /\ server'[r] = server[r]
  BY DEF TypeOK, ProviderInv
<1>2. CASE r # g
  <2>1. wire'[r] = wire[r] /\ req'[r] = req[r]
    BY <1>2 DEF GiveUp, TypeOK
  <2> QED BY <1>1, <2>1, CancelIsLast
<1>3. CASE r = g
  <2> DEFINE q == Abandoned(Teardown(req[r]))
  <2>1. req'[r] = q /\ wire'[r] = WithCancel(wire[r], req[r], q)
    BY <1>3 DEF GiveUp, TypeOK
  <2>2. q.send = req[r].send
    <3>1. Teardown(req[r]) \in ReqType /\ Teardown(req[r]).send = req[r].send
      BY <1>1, RequestRecordTypes, RecordsKeepNode
    <3> QED BY <3>1, RecordsKeepNode
  <2>3. q.cancels > req[r].cancels => req[r].send = "settled"
    BY <1>1, GiveUpCancels
  <2> HIDE DEF q
  <2> QED BY <1>1, <2>1, <2>2, <2>3, CancelIsLast, WithCancelTo
<1> QED
  BY <1>2, <1>3

LEMMA TryKeepsArrival ==
    ASSUME TypeOK, AttemptsInv, ProviderInv, NEW c \in Calls, NEW node, NEW routed \in BOOLEAN,
           Try(c, node, routed), UNCHANGED <<wire, server>>
    PROVE  ProviderInv'
<1> DEFINE k == call[c].attempt + 1
<1> SUFFICES ASSUME NEW r \in Requests PROVE ArrivesOnce(r)'
  BY CallerKeepsHandler
<1>1. wire[r] \in WireType /\ ArrivesOnce(r) /\ server'[r] = server[r] /\ wire'[r] = wire[r]
  BY DEF TypeOK, ProviderInv
<1>2. CASE req'[r] = req[r]
  BY <1>1, <1>2, CancelIsLast
<1>3. CASE req'[r] # req[r]
  <2>1. r = <<c, k>>
    BY <1>3 DEF Try, TypeOK
  <2>2. req[r] = Unused
    <3>1. call[c].attempt \in Int /\ r[1] = c /\ r[2] = call[c].attempt + 1
      BY <2>1 DEF TypeOK, CallType
    <3>2. r[2] > call[r[1]].attempt
      BY <3>1
    <3> QED BY <3>2 DEF AttemptsInv
  <2> QED BY <1>1, <2>2, CancelIsLast DEF Unused
<1> QED
  BY <1>2, <1>3

LEMMA CallerKeepsProvider ==
    ASSUME TypeOK, AttemptsInv, ProviderInv, CallerStep
    PROVE  ProviderInv'
<1>1. ASSUME NEW c \in Calls, NEW n \in Nodes \cup {NoNode}, NEW b \in BOOLEAN, Subscribe(c, n, b)
      PROVE  ProviderInv'
  BY <1>1, TryKeepsArrival DEF Subscribe
<1>2. ASSUME NEW c \in Calls, NEW b \in BOOLEAN, RetryTimer(c, b) PROVE ProviderInv'
  BY <1>2, TryKeepsArrival DEF RetryTimer
<1>3. ASSUME NEW c \in Calls, Timeout(c) PROVE ProviderInv'
  BY <1>3, GiveUpKeepsArrival DEF Timeout
<1>4. ASSUME NEW c \in Calls, Unsubscribe(c) PROVE ProviderInv'
  <2>1. CASE GiveUp(c, "left")
    BY <1>4, <2>1, GiveUpKeepsArrival DEF Unsubscribe
  <2>2. CASE UNCHANGED <<req, wire>>
    BY <1>4, <2>2 DEF Unsubscribe, ProviderInv, ArrivesOnce
  <2> QED BY <1>4, <2>1, <2>2 DEF Unsubscribe
<1>5. ASSUME NEW s \in Requests, NEW n \in Nodes, RequestLeaves(s, n) PROVE ProviderInv'
  <2> SUFFICES ASSUME NEW r \in Requests PROVE ArrivesOnce(r)'
    BY <1>5, CallerKeepsHandler DEF RequestLeaves
  <2>1. wire[r] \in WireType /\ req[r] \in ReqType /\ ArrivesOnce(r) /\ server'[r] = server[r]
    BY <1>5 DEF TypeOK, ProviderInv, RequestLeaves
  <2>2. CASE r # s
    <3>1. wire'[r] = wire[r] /\ req'[r] = req[r]
      BY <1>5, <2>2 DEF RequestLeaves, TypeOK
    <3> QED BY <2>1, <3>1, CancelIsLast
  <2>3. CASE r = s
    <3>1. /\ req[r].send = "sending" /\ req'[r] = [req[r] EXCEPT !.send = "left"]
          /\ wire'[r] = [wire[r] EXCEPT !.to = <<"request">>, !.carrier = n]
      BY <1>5, <2>3 DEF RequestLeaves, TypeOK
    <3>2. req'[r].send = "left" /\ wire'[r].to = <<"request">> /\ server[r].phase = "none"
      BY <2>1, <3>1 DEF ReqType, WireType, ArrivesOnce, Unserved
    <3>3. Len(wire'[r].to) = 1
      BY <3>2
    <3> QED BY <2>1, <3>2, <3>3 DEF ArrivesOnce
  <2> QED BY <2>2, <2>3
<1>6. ASSUME NEW s \in Requests, NEW b \in BOOLEAN, SendResolves(s, b) PROVE ProviderInv'
  <2> SUFFICES ASSUME NEW r \in Requests PROVE ArrivesOnce(r)'
    BY <1>6, CallerKeepsHandler DEF SendResolves
  <2>1. wire[r] \in WireType /\ req[r] \in ReqType /\ ArrivesOnce(r) /\ server'[r] = server[r]
    BY <1>6 DEF TypeOK, ProviderInv, SendResolves
  <2>2. CASE r # s
    <3>1. wire'[r] = wire[r] /\ req'[r] = req[r]
      BY <1>6, <2>2 DEF SendResolves, TypeOK
    <3> QED BY <2>1, <3>1, CancelIsLast
  <2>3. CASE r = s
    <3> DEFINE q == LateCancel(req[r])
               m == IF b THEN [q EXCEPT !.node = wire[r].carrier] ELSE q
    <3>1. q \in ReqType /\ q.send = "settled"
      BY <2>1, RequestRecordTypes, RecordsKeepNode
    <3>2. wire'[r] = WithCancel(wire[r], req[r], q) /\ req'[r] = m
      BY <1>6, <2>3 DEF SendResolves, TypeOK
    <3> HIDE DEF q
    <3>3. m.send = "settled"
      BY <3>1 DEF ReqType
    <3> HIDE DEF m
    <3> QED BY <2>1, <3>2, <3>3, WithCancelTo, CancelIsLast
  <2> QED BY <2>2, <2>3
<1>7. ASSUME NEW s \in Requests, NEW code \in Codes, SendRejects(s, code) PROVE ProviderInv'
  <2> SUFFICES ASSUME NEW r \in Requests PROVE ArrivesOnce(r)'
    BY <1>7, CallerKeepsHandler DEF SendRejects
  <2>1. /\ wire[r] \in WireType /\ req[r] \in ReqType /\ ArrivesOnce(r)
        /\ server'[r] = server[r] /\ wire'[r] = wire[r]
    BY <1>7 DEF TypeOK, ProviderInv, SendRejects
  <2>2. CASE r # s
    <3>1. req'[r] = req[r]
      BY <1>7, <2>2 DEF SendRejects, RejectionFails, TypeOK
    <3> QED BY <2>1, <3>1, CancelIsLast
  <2>3. CASE r = s
    <3> DEFINE p == [req[r] EXCEPT !.send = "failed"]
    <3>1. p \in ReqType /\ p.send = "failed"
      BY <2>1, RequestRecordTypes DEF ReqType
    <3>2. req'[r] = Teardown(Finished(p))
      BY <1>7, <2>3 DEF SendRejects, RejectionFails, TypeOK
    <3> HIDE DEF p
    <3>3. Finished(p) \in ReqType /\ Finished(p).send = "failed"
      BY <3>1, RequestRecordTypes, RecordsKeepNode
    <3>4. req'[r].send = "failed"
      BY <3>2, <3>3, RecordsKeepNode
    <3> QED BY <2>1, <3>4, CancelIsLast
  <2> QED BY <2>2, <2>3
<1>8. ASSUME NEW s \in Requests, NEW b \in BOOLEAN, ResponseArrives(s, b) PROVE ProviderInv'
  <2> DEFINE packet == Head(wire[s].from)
             seen   == [req[s] EXCEPT !.node = wire[s].carrier]
             marked == MarkedFirst(seen, packet)
             after  == IF b /\ ~Terminal(packet) THEN Abandoned(Teardown(marked))
                       ELSE IF b THEN Teardown(marked)
                       ELSE IF Terminal(packet) THEN Teardown(Finished(marked))
                       ELSE marked
             rest   == [wire[s] EXCEPT !.from = Tail(@)]
  <2> SUFFICES ASSUME NEW r \in Requests PROVE ArrivesOnce(r)'
    BY <1>8, CallerKeepsHandler DEF ResponseArrives
  <2>1. wire[r] \in WireType /\ req[r] \in ReqType /\ ArrivesOnce(r) /\ server'[r] = server[r]
    BY <1>8 DEF TypeOK, ProviderInv, ResponseArrives
  <2>2. CASE r # s
    <3>1. wire'[r] = wire[r] /\ req'[r] = req[r]
      BY <1>8, <2>2 DEF ResponseArrives, TypeOK
    <3> QED BY <2>1, <3>1, CancelIsLast
  <2>3. rest \in WireType /\ rest.to = wire[s].to
    <3>1. wire[s].from \in Seq(Responses) /\ wire[s].from # <<>> /\ wire[s] \in WireType
      BY <1>8 DEF ResponseArrives, TypeOK, WireType
    <3>2. Tail(wire[s].from) \in Seq(Responses)
      BY <3>1, HeadTailProperties
    <3> QED BY <3>1, <3>2 DEF WireType
  <2>4. CASE r = s /\ ~req[s].known
    <3>1. wire'[r] = rest /\ req'[r] = req[r]
      BY <1>8, <2>4 DEF ResponseArrives, TypeOK
    <3> HIDE DEF rest
    <3> QED BY <2>1, <2>3, <2>4, <3>1, CancelIsLast
  <2>5. CASE r = s /\ req[s].known
    <3>1. wire'[r] = WithCancel(rest, req[s], after) /\ req'[r] = after
      BY <1>8, <2>5 DEF ResponseArrives, TypeOK
    <3>2. seen \in ReqType /\ seen.send = "settled"
      <4>1. wire[s].carrier \in Nodes \cup {NoNode} /\ req[s] \in ReqType /\ req[s].send = "settled"
        BY <1>8 DEF TypeOK, WireType, ResponseArrives
      <4>2. seen \in ReqType
        BY <4>1, RequestRecordTypes
      <4> QED BY <4>1, <4>2 DEF ReqType
    <3>3. marked \in ReqType /\ marked.send = "settled"
      <4> HIDE DEF seen
      <4> QED BY <3>2, RequestRecordTypes, RecordsKeepNode DEF MarkedFirst
    <3>4. after.send = "settled"
      <4> HIDE DEF marked
      <4>1. Teardown(marked).send = "settled" /\ Teardown(marked) \in ReqType
        BY <3>3, RequestRecordTypes, RecordsKeepNode
      <4>2. Abandoned(Teardown(marked)).send = "settled"
        BY <4>1, RecordsKeepNode
      <4>3. Finished(marked).send = "settled" /\ Finished(marked) \in ReqType
        BY <3>3, RequestRecordTypes, RecordsKeepNode
      <4>4. Teardown(Finished(marked)).send = "settled"
        BY <4>3, RecordsKeepNode
      <4> QED BY <3>3, <4>1, <4>2, <4>4
    <3> HIDE DEF rest, after
    <3> QED BY <2>1, <2>3, <2>5, <3>1, <3>4, WithCancelTo, CancelIsLast
  <2> QED BY <2>2, <2>4, <2>5
<1>9. ASSUME NEW n \in Nodes, NodeOffline(n) PROVE ProviderInv'
  <2> SUFFICES ASSUME NEW r \in Requests PROVE ArrivesOnce(r)'
    BY <1>9, CallerKeepsHandler DEF NodeOffline
  <2>1. /\ wire[r] \in WireType /\ req[r] \in ReqType /\ ArrivesOnce(r)
        /\ server'[r] = server[r] /\ wire'[r] = wire[r]
    BY <1>9 DEF TypeOK, ProviderInv, NodeOffline
  <2>2. req'[r] = req[r] \/ req'[r] = Teardown(Finished(req[r]))
    BY <1>9 DEF NodeOffline
  <2>3. Teardown(Finished(req[r])).send = req[r].send
    <3>1. Finished(req[r]) \in ReqType /\ Finished(req[r]).send = req[r].send
      BY <2>1, RequestRecordTypes, RecordsKeepNode
    <3> QED BY <3>1, RecordsKeepNode
  <2> QED BY <2>1, <2>2, <2>3, CancelIsLast
<1>10. ASSUME NEW s \in Requests, NEW k \in 0..(MaxItems + 1), NEW b \in BOOLEAN,
              LinkLost(s, k, b) PROVE ProviderInv'
  <2> SUFFICES ASSUME NEW r \in Requests PROVE ArrivesOnce(r)'
    BY <1>10, CallerKeepsHandler DEF LinkLost
  <2>1. /\ wire[r] \in WireType /\ ArrivesOnce(r)
        /\ server'[r] = server[r] /\ req'[r] = req[r]
    BY <1>10 DEF TypeOK, ProviderInv, LinkLost
  <2>2. wire'[r].to = wire[r].to \/ wire'[r].to = <<>>
    BY <1>10 DEF LinkLost, TypeOK, WireType
  <2>3. CASE wire'[r].to = <<>>
    <3>1. Len(wire'[r].to) = 0
      BY <2>3
    <3> QED BY <2>1, <2>3, <3>1 DEF ArrivesOnce
  <2> QED BY <2>1, <2>2, <2>3, CancelIsLast
<1> QED
  BY <1>1, <1>2, <1>3, <1>4, <1>5, <1>6, <1>7, <1>8, <1>9, <1>10 DEF CallerStep

\* The handler moves on by itself.
LEMMA HandlerMoves ==
    ASSUME TypeOK, ProviderInv, NEW s \in Requests, NEW h \in ServerType,
           server[s] # Unserved, server[s].phase = "none" => h.phase = "none", HandlerSound(h),
           UNCHANGED req, \A r \in Requests : wire'[r].to = wire[r].to,
           server' = [server EXCEPT ![s] = h]
    PROVE  ProviderInv'
<1> SUFFICES ASSUME NEW r \in Requests PROVE ArrivesOnce(r)' /\ HandlerSound(server[r])'
  BY DEF ProviderInv
<1>1. ArrivesOnce(r) /\ HandlerSound(server[r]) /\ wire'[r].to = wire[r].to /\ req'[r] = req[r]
  BY DEF ProviderInv
<1>2. server'[r] = IF r = s THEN h ELSE server[r]
  BY DEF TypeOK
<1>3. ArrivesOnce(r)'
  BY <1>1, <1>2 DEF ArrivesOnce
<1>4. HandlerSound(server'[r])
  BY <1>1, <1>2
<1> QED
  BY <1>3, <1>4

\* The handler takes the first packet of the request's wire.
LEMMA HandlerTakes ==
    ASSUME TypeOK, ProviderInv, NEW s \in Requests, NEW h \in ServerType,
           wire[s].to # <<>>, HandlerSound(h),
           Head(wire[s].to) # "request" /\ server[s].phase = "none" => h.phase = "none",
           UNCHANGED req, wire' = [wire EXCEPT ![s].to = Tail(@)],
           server' = [server EXCEPT ![s] = h]
    PROVE  ProviderInv'
<1> SUFFICES ASSUME NEW r \in Requests PROVE ArrivesOnce(r)' /\ HandlerSound(server[r])'
  BY DEF ProviderInv
<1>1. ArrivesOnce(r) /\ HandlerSound(server[r]) /\ req'[r] = req[r] /\ wire[r] \in WireType
  BY DEF ProviderInv, TypeOK
<1>2. server'[r] = IF r = s THEN h ELSE server[r]
  BY DEF TypeOK
<1>3. CASE r # s
  <2>1. wire'[r] = wire[r]
    BY <1>3 DEF TypeOK
  <2> QED BY <1>1, <1>2, <1>3, <2>1 DEF ArrivesOnce
<1>4. CASE r = s
  <2>1. wire'[r].to = Tail(wire[r].to)
    BY <1>1, <1>4 DEF TypeOK, WireType
  <2>2. req[r].send \notin {"none", "sending"}
    BY <1>1, <1>4 DEF ArrivesOnce
  <2>3. wire[r].to \in Seq({"request", "cancel"}) /\ wire[r].to # <<>>
    BY <1>1, <1>4 DEF WireType
  <2>4. ASSUME NEW i \in 1..Len(Tail(wire[r].to)) PROVE Tail(wire[r].to)[i] # "request"
    <3>1. /\ Len(Tail(wire[r].to)) = Len(wire[r].to) - 1
          /\ Tail(wire[r].to)[i] = wire[r].to[i + 1]
          /\ Len(wire[r].to) \in Nat
      BY <2>3, HeadTailProperties, LenProperties
    <3>2. i + 1 \in 1..Len(wire[r].to) /\ i + 1 # 1
      BY <3>1
    <3> QED BY <1>1, <3>1, <3>2 DEF ArrivesOnce
  <2>5. ArrivesOnce(r)'
    BY <1>1, <2>1, <2>2, <2>4 DEF ArrivesOnce
  <2> QED BY <1>2, <1>4, <2>5
<1> QED
  BY <1>3, <1>4

LEMMA EnqueueSound ==
    ASSUME NEW s \in ServerType, NEW packet \in Responses
    PROVE  /\ Enqueue(s, packet).phase = s.phase
           /\ Enqueue(s, packet).running <=> s.running
           /\ Enqueue(s, packet).poisoned <=> s.poisoned
           /\ ~s.poisoned => Enqueue(s, packet).queue = Append(s.queue, packet)
  BY DEF Enqueue, ServerType

LEMMA ProviderKeepsProvider ==
    ASSUME TypeOK, TypeOK', ProviderInv, ProviderStep
    PROVE  ProviderInv'
<1>1. \A r \in Requests : /\ server[r] \in ServerType /\ server'[r] \in ServerType
                          /\ ArrivesOnce(r) /\ HandlerSound(server[r])
  BY DEF TypeOK, ProviderInv
<1>2. ASSUME NEW s \in Requests, NEW b \in BOOLEAN, RequestArrives(s, b) PROVE ProviderInv'
  <2> DEFINE h == server'[s]
  <2>1. server' = [server EXCEPT ![s] = h] /\ h \in ServerType
    BY <1>1, <1>2 DEF RequestArrives, TypeOK
  <2>2. server[s].phase = "none"
    <3>1. wire[s].to \in Seq({"request", "cancel"}) /\ wire[s].to # <<>> /\ Head(wire[s].to) = "request"
      BY <1>2 DEF RequestArrives, TypeOK, WireType
    <3>2. 1 \in 1..Len(wire[s].to) /\ wire[s].to[1] = "request"
      BY <3>1, EmptySeq
    <3> QED BY <1>1, <3>2 DEF ArrivesOnce
  <2>3. ~server[s].running /\ server[s].queue = <<>>
    BY <1>1, <2>2 DEF HandlerSound
  <2>4. HandlerSound(h)
    <3>1. CASE b
      <4>1. h = [server[s] EXCEPT !.phase = "invoking"]
        BY <1>2, <3>1 DEF RequestArrives, TypeOK
      <4>2. h.phase = "invoking" /\ (h.running <=> server[s].running) /\ h.queue = server[s].queue
        BY <1>1, <4>1 DEF ServerType
      <4> QED BY <2>3, <4>2 DEF HandlerSound
    <3>2. CASE ~b
      <4>1. h = [server[s] EXCEPT !.phase = "over", !.queue = <<Response(0, "error")>>]
        BY <1>2, <3>2 DEF RequestArrives, TypeOK
      <4>2. h.phase = "over" /\ (h.running <=> server[s].running)
        BY <1>1, <4>1 DEF ServerType
      <4> QED BY <2>3, <4>2 DEF HandlerSound
    <3> QED BY <3>1, <3>2
  <2>5. /\ wire[s].to # <<>> /\ Head(wire[s].to) = "request" /\ UNCHANGED req
        /\ wire' = [wire EXCEPT ![s].to = Tail(@)]
    BY <1>2 DEF RequestArrives
  <2> HIDE DEF h
  <2> QED BY <2>1, <2>4, <2>5, HandlerTakes
<1>3. ASSUME NEW s \in Requests, MethodReturns(s) PROVE ProviderInv'
  <2> DEFINE h == server'[s]
  <2>1. server' = [server EXCEPT ![s] = h] /\ h \in ServerType /\ server[s].phase = "invoking"
    BY <1>1, <1>3 DEF MethodReturns, TypeOK
  <2>2. h.phase = "over" /\ (h.running <=> server[s].running)
    BY <1>1, <1>3 DEF MethodReturns, TypeOK, ServerType
  <2>3. HandlerSound(h) /\ server[s] # Unserved
    BY <1>1, <2>1, <2>2 DEF HandlerSound, Unserved
  <2>4. UNCHANGED req /\ wire' = wire
    BY <1>3 DEF MethodReturns
  <2> HIDE DEF h
  <2> QED BY <2>1, <2>3, <2>4, HandlerMoves
<1>4. ASSUME NEW s \in Requests, NEW code \in Codes, MethodFails(s, code) PROVE ProviderInv'
  <2> DEFINE h == server'[s]
  <2>1. server' = [server EXCEPT ![s] = h] /\ h \in ServerType /\ server[s].phase = "invoking"
    BY <1>1, <1>4 DEF MethodFails, TypeOK
  <2>2. h.phase = "over" /\ (h.running <=> server[s].running)
    BY <1>1, <1>4 DEF MethodFails, TypeOK, ServerType
  <2>3. HandlerSound(h) /\ server[s] # Unserved
    BY <1>1, <2>1, <2>2 DEF HandlerSound, Unserved
  <2>4. UNCHANGED req /\ wire' = wire
    BY <1>4 DEF MethodFails
  <2> HIDE DEF h
  <2> QED BY <2>1, <2>3, <2>4, HandlerMoves
<1>5. ASSUME NEW s \in Requests, StreamStarts(s) PROVE ProviderInv'
  <2> DEFINE h == server'[s]
  <2>1. server' = [server EXCEPT ![s] = h] /\ h \in ServerType /\ server[s].phase = "invoking"
    BY <1>1, <1>5 DEF StreamStarts, TypeOK
  <2>2. h.phase = "live" /\ h.running /\ h.queue = server[s].queue
    BY <1>1, <1>5 DEF StreamStarts, TypeOK, ServerType
  <2>3. HandlerSound(h) /\ server[s] # Unserved
    <3>1. server[s].queue = <<>>
      BY <1>1, <2>1 DEF HandlerSound
    <3>2. Len(h.queue) = 0
      BY <2>2, <3>1
    <3> QED BY <2>1, <2>2, <3>2 DEF HandlerSound, Unserved
  <2>4. UNCHANGED req /\ wire' = wire
    BY <1>5 DEF StreamStarts
  <2> HIDE DEF h
  <2> QED BY <2>1, <2>3, <2>4, HandlerMoves
<1>6. ASSUME NEW s \in Requests, StreamEmits(s) PROVE ProviderInv'
  <2> DEFINE h == server'[s]
             n == server[s].made + 1
             e == Enqueue(server[s], Response(n, "none"))
  <2>1. server' = [server EXCEPT ![s] = h] /\ h \in ServerType /\ server[s].phase = "live"
    BY <1>1, <1>6 DEF StreamEmits, TypeOK
  <2>2. Response(n, "none") \in Responses
    <3>1. n \in 0..MaxItems
      BY <1>1, <1>6, RpcCallAssumption DEF StreamEmits, ServerType
    <3> QED BY <3>1, ResponseType
  <2>3. e \in ServerType /\ e.phase = "live" /\ e.running
    BY <1>1, <2>1, <2>2, EnqueueType, EnqueueSound DEF HandlerSound
  <2>4. h = [e EXCEPT !.made = n]
    BY <1>6 DEF StreamEmits, TypeOK
  <2>5. h.phase = "live" /\ h.running /\ h.queue = e.queue
    <3> HIDE DEF e, n
    <3> QED BY <2>3, <2>4 DEF ServerType
  <2>6. \A i \in 1..Len(e.queue) : ~Terminal(e.queue[i])
    <3>1. server[s].queue \in Seq(Responses)
            /\ \A i \in 1..Len(server[s].queue) : ~Terminal(server[s].queue[i])
      BY <1>1, <2>1 DEF HandlerSound, ServerType
    <3>2. ~Terminal(Response(n, "none"))
      BY DEF Terminal, Response
    <3>3. e.queue = server[s].queue \/ e.queue = Append(server[s].queue, Response(n, "none"))
      BY <1>1 DEF Enqueue, ServerType
    <3> DEFINE packet == Response(n, "none")
    <3> HIDE DEF packet, e, n
    <3> QED BY <2>2, <3>1, <3>2, <3>3 DEF packet
  <2>7. HandlerSound(h) /\ server[s] # Unserved
    BY <2>1, <2>5, <2>6 DEF HandlerSound, Unserved
  <2>8. UNCHANGED req /\ wire' = wire
    BY <1>6 DEF StreamEmits
  <2> HIDE DEF h
  <2> QED BY <2>1, <2>7, <2>8, HandlerMoves
<1>7. ASSUME NEW s \in Requests, NEW end \in {"completed"} \cup Codes, StreamEnds(s, end)
      PROVE  ProviderInv'
  <2> DEFINE h == server'[s]
             packet == Response(0, end)
             e == Enqueue(server[s], packet)
             whole == end = "completed"
             running == ~server[s].poisoned
  <2>1. server' = [server EXCEPT ![s] = h] /\ h \in ServerType /\ server[s].phase = "live"
    BY <1>1, <1>7 DEF StreamEnds, TypeOK
  <2>2. packet \in Responses /\ Terminal(packet)
    <3>1. 0 \in 0..MaxItems /\ end \in {"none", "completed"} \cup Codes /\ end # "none"
      BY RpcCallAssumption DEF Codes
    <3>2. packet \in Responses
      BY <3>1, ResponseType
    <3>3. Terminal(packet)
      BY <3>1 DEF Response, Terminal
    <3> QED BY <3>2, <3>3
  <2>3. e \in ServerType /\ (~server[s].poisoned => e.queue = Append(server[s].queue, packet))
    <3> HIDE DEF packet
    <3> QED BY <1>1, <2>2, EnqueueType, EnqueueSound
  <2>4. h = [e EXCEPT !.phase = "over", !.whole = whole, !.running = running]
    BY <1>7 DEF StreamEnds, TypeOK
  <2>5. h.phase = "over" /\ h.queue = e.queue /\ (h.running <=> ~server[s].poisoned)
    <3> HIDE DEF e, whole
    <3> QED BY <2>3, <2>4 DEF ServerType
  <2>6. Append(server[s].queue, packet) # <<>>
          /\ Append(server[s].queue, packet)[Len(Append(server[s].queue, packet))] = packet
    <3>1. server[s].queue \in Seq(Responses)
      BY <1>1 DEF ServerType
    <3> HIDE DEF packet
    <3> QED BY <2>2, <3>1
  <2>7. HandlerSound(h) /\ server[s] # Unserved
    <3> HIDE DEF h, packet, e
    <3> QED BY <2>1, <2>2, <2>3, <2>5, <2>6 DEF HandlerSound, Unserved
  <2>8. UNCHANGED req /\ wire' = wire
    BY <1>7 DEF StreamEnds
  <2> HIDE DEF h
  <2> QED BY <2>1, <2>7, <2>8, HandlerMoves
<1>8. ASSUME NEW s \in Requests, NEW b \in BOOLEAN, ReplySends(s, b) PROVE ProviderInv'
  <2> DEFINE h == server'[s]
             queue == server[s].queue
             running == server[s].running /\ ~Terminal(Head(queue))
  <2>1. server' = [server EXCEPT ![s] = h] /\ h \in ServerType /\ queue # <<>>
          /\ queue \in Seq(Responses)
    BY <1>1, <1>8 DEF ReplySends, TypeOK, ServerType
  <2>2. h = [server[s] EXCEPT !.queue = Tail(queue), !.running = running]
    BY <1>8 DEF ReplySends, TypeOK, TakeFirst
  <2>3. h.phase = server[s].phase /\ h.queue = Tail(queue)
          /\ (h.running <=> server[s].running /\ ~Terminal(Head(queue)))
    <3> HIDE DEF queue
    <3> QED BY <1>1, <2>2 DEF ServerType
  <2>4. ASSUME Terminal(queue[Len(queue)]), ~Terminal(Head(queue))
        PROVE  Tail(queue) # <<>> /\ Terminal(Tail(queue)[Len(Tail(queue))])
    <3> HIDE DEF queue
    <3>1. Len(queue) \in Nat /\ Len(queue) > 0 /\ Head(queue) = queue[1]
      BY <2>1, EmptySeq
    <3>2. Len(queue) > 1
      BY <2>4, <3>1
    <3>3. /\ Len(Tail(queue)) = Len(queue) - 1
          /\ \A i \in 1..Len(Tail(queue)) : Tail(queue)[i] = queue[i + 1]
      BY <2>1, HeadTailProperties
    <3>4. Len(Tail(queue)) \in 1..Len(Tail(queue)) /\ Len(Tail(queue)) + 1 = Len(queue)
      BY <3>1, <3>2, <3>3
    <3>5. Tail(queue)[Len(Tail(queue))] = queue[Len(queue)]
      BY <3>3, <3>4
    <3>6. Tail(queue) # <<>>
      <4> DEFINE m == Len(Tail(queue))
      <4>1. m # 0
        <5>1. m \in 1..m
          BY <3>4
        <5> HIDE DEF m
        <5> QED BY <5>1
      <4>2. Len(<<>>) = 0
        OBVIOUS
      <4> QED BY <4>1, <4>2
    <3> QED BY <2>4, <3>5, <3>6
  <2>5. server[s].phase \notin {"none", "invoking"}
    BY <1>1, <2>1 DEF HandlerSound
  <2>6. ASSUME server[s].phase = "live"
        PROVE  /\ ~Terminal(Head(queue))
               /\ \A i \in 1..Len(Tail(queue)) : ~Terminal(Tail(queue)[i])
    <3>1. \A i \in 1..Len(queue) : ~Terminal(queue[i])
      BY <1>1, <2>6 DEF HandlerSound
    <3> HIDE DEF queue
    <3>2. Len(queue) \in Nat /\ Len(queue) > 0 /\ Head(queue) = queue[1]
      BY <2>1, EmptySeq
    <3>3. /\ Len(Tail(queue)) = Len(queue) - 1
          /\ \A i \in 1..Len(Tail(queue)) : Tail(queue)[i] = queue[i + 1]
      BY <2>1, HeadTailProperties
    <3> QED BY <3>1, <3>2, <3>3
  <2>7. (server[s].phase = "live" => server[s].running)
          /\ (server[s].running /\ server[s].phase # "live" => Terminal(queue[Len(queue)]))
    BY <1>1 DEF HandlerSound
  <2>8. HandlerSound(h) /\ server[s] # Unserved
    <3>1. server[s] # Unserved
      BY <2>5 DEF Unserved
    <3> HIDE DEF h, queue
    <3> QED BY <2>3, <2>4, <2>5, <2>6, <2>7, <3>1 DEF HandlerSound
  <2>9. UNCHANGED req /\ \A r \in Requests : wire'[r].to = wire[r].to
    BY <1>8 DEF ReplySends, TypeOK, WireType
  <2> HIDE DEF h
  <2> QED BY <2>1, <2>3, <2>8, <2>9, HandlerMoves
<1>9. ASSUME NEW s \in Requests, ReplyFails(s) PROVE ProviderInv'
  <2> DEFINE h == server'[s]
             running == server[s].running /\ server[s].phase = "live"
  <2>1. server' = [server EXCEPT ![s] = h] /\ h \in ServerType /\ server[s].queue # <<>>
    BY <1>1, <1>9 DEF ReplyFails, TypeOK
  <2>2. h = [server[s] EXCEPT !.queue = <<>>, !.poisoned = TRUE, !.running = running]
    BY <1>9 DEF ReplyFails, TypeOK, Poisoned
  <2>3. h.phase = server[s].phase /\ h.queue = <<>>
          /\ (h.running <=> server[s].running /\ server[s].phase = "live")
    BY <1>1, <2>2 DEF ServerType
  <2>4. server[s].phase \notin {"none", "invoking"} /\ server[s] # Unserved
    BY <1>1, <2>1 DEF HandlerSound, Unserved
  <2>5. HandlerSound(h)
    <3>1. Len(h.queue) = 0
      BY <2>3
    <3> HIDE DEF h
    <3> QED BY <1>1, <2>3, <2>4, <3>1 DEF HandlerSound
  <2>6. UNCHANGED req /\ wire' = wire
    BY <1>9 DEF ReplyFails
  <2> HIDE DEF h
  <2> QED BY <2>1, <2>3, <2>4, <2>5, <2>6, HandlerMoves
<1>10. ASSUME NEW s \in Requests, CancelArrives(s) PROVE ProviderInv'
  <2> DEFINE h == server'[s]
  <2>1. server' = [server EXCEPT ![s] = h] /\ h \in ServerType
    BY <1>1, <1>10 DEF CancelArrives, TypeOK
  <2>2. HandlerSound(h) /\ (server[s].phase = "none" => h.phase = "none")
    <3>1. CASE server[s].running
      <4>1. h = [server[s] EXCEPT !.phase = "over", !.running = FALSE, !.cancelSeen = TRUE]
        BY <1>10, <3>1 DEF CancelArrives, TypeOK
      <4>2. h.phase = "over" /\ ~h.running
        BY <1>1, <4>1 DEF ServerType
      <4>3. server[s].phase # "none"
        BY <1>1, <3>1 DEF HandlerSound
      <4> QED BY <4>2, <4>3 DEF HandlerSound
    <3>2. CASE ~server[s].running
      <4>1. h = [server[s] EXCEPT !.cancelSeen = TRUE]
        BY <1>10, <3>2 DEF CancelArrives, TypeOK
      <4>2. h.phase = server[s].phase /\ h.queue = server[s].queue
              /\ (h.running <=> server[s].running)
        BY <1>1, <4>1 DEF ServerType
      <4> HIDE DEF h
      <4> QED BY <1>1, <3>2, <4>2 DEF HandlerSound
    <3> QED BY <3>1, <3>2
  <2>3. /\ wire[s].to # <<>> /\ Head(wire[s].to) = "cancel" /\ UNCHANGED req
        /\ wire' = [wire EXCEPT ![s].to = Tail(@)]
    BY <1>10 DEF CancelArrives
  <2> HIDE DEF h
  <2> QED BY <2>1, <2>2, <2>3, HandlerTakes
<1> QED
  BY <1>2, <1>3, <1>4, <1>5, <1>6, <1>7, <1>8, <1>9, <1>10 DEF ProviderStep

LEMMA ProviderSound == Spec => [](TypeOK /\ ProviderInv)
<1>1. Init => ProviderInv
  <2>1. Len(<<>>) = 0
    OBVIOUS
  <2> QED BY <2>1 DEF Init, ProviderInv, ArrivesOnce, HandlerSound, Unsent, Unserved
<1>2. TypeOK /\ AttemptsInv /\ ProviderInv /\ [Next]_vars => ProviderInv'
  <2> SUFFICES ASSUME TypeOK, AttemptsInv, ProviderInv, [Next]_vars PROVE ProviderInv'
    OBVIOUS
  <2>1. CASE CallerStep
    BY <2>1, CallerKeepsProvider
  <2>2. CASE ProviderStep
    BY <2>2, InvStep, ProviderKeepsProvider
  <2>3. CASE UNCHANGED vars
    BY <2>3 DEF vars, ProviderInv, ArrivesOnce
  <2> QED BY <2>1, <2>2, <2>3 DEF Next
<1> QED
  BY <1>1, <1>2, Soundness, PTL DEF Spec

\* The provider never loses track of a stream: one that runs is in #rpc.running,
\* where a cancel finds it, and an entry whose stream is over still has the
\* terminal reply ahead that drops it, or went with a reply that was rejected.
THEOREM RunningIsExact == Spec => []RunningMatchesStreams
<1>1. ProviderInv => RunningMatchesStreams
  BY DEF ProviderInv, HandlerSound, RunningMatchesStreams
<1> QED
  BY <1>1, ProviderSound, PTL

-----------------------------------------------------------------------------
(***************************************************************************)
(* RpcCall implements CallPromise: each step of the two nodes and of the   *)
(* transport between them is a step of what callRemoteService promises, or *)
(* leaves the promise as it is.                                            *)
(***************************************************************************)
-----------------------------------------------------------------------------
(* Answers.                                                                *)

\* The packet with number n of the answer to a request of which made values were made.
Fits(packet, n, made, whole) ==
    /\ packet.end = "none" => packet.item = n /\ n <= made
    /\ packet.end = "completed" =>
          whole /\ ((packet.item = 0 /\ n = made + 1) \/ (packet.item = n /\ n = made))
    /\ packet.end \in Codes => packet.item = 0

\* Up to the first packet that ends it, an answer goes on from what the subscriber has
\* got without a gap, and it completes only behind the last of all values.
Continues(answer, got, made, whole) ==
    \A i \in 1..Len(answer) :
        (\A j \in 1..(i - 1) : ~Terminal(answer[j])) => Fits(answer[i], got + i, made, whole)

NoEnd(answer) == \A i \in 1..Len(answer) : ~Terminal(answer[i])

LEMMA ContinuesNothing ==
    ASSUME NEW got, NEW made, NEW whole
    PROVE  Continues(<<>>, got, made, whole) /\ NoEnd(<<>>)
<1>1. Len(<<>>) = 0
  OBVIOUS
<1> QED BY <1>1 DEF Continues, NoEnd

\* A part of the answer from its start.
LEMMA ContinuesPrefix ==
    ASSUME NEW a \in Seq(Responses), NEW b \in Seq(Responses), Len(b) <= Len(a),
           \A i \in 1..Len(b) : b[i] = a[i],
           NEW got, NEW made, NEW whole, Continues(a, got, made, whole)
    PROVE  Continues(b, got, made, whole)
<1> SUFFICES ASSUME NEW i \in 1..Len(b), \A j \in 1..(i - 1) : ~Terminal(b[j])
             PROVE  Fits(b[i], got + i, made, whole)
  BY DEF Continues
<1>1. PICK m \in Nat : m = Len(a)
  OBVIOUS
<1>2. PICK n \in Nat : n = Len(b) /\ n <= m
  BY <1>1
<1>3. i \in 1..n /\ i \in 1..m /\ \A j \in 1..(i - 1) : j \in 1..n
  BY <1>2
<1>4. \A j \in 1..(i - 1) : ~Terminal(a[j])
  BY <1>2, <1>3
<1>5. Fits(a[i], got + i, made, whole)
  BY <1>1, <1>3, <1>4 DEF Continues
<1>6. b[i] = a[i]
  OBVIOUS
<1> QED BY <1>5, <1>6

\* One more packet: after the end of the answer it does not matter what.
LEMMA ContinuesLonger ==
    ASSUME NEW a \in Seq(Responses), NEW packet \in Responses,
           NEW got \in Nat, NEW made, NEW whole, Continues(a, got, made, whole),
           NoEnd(a) => Fits(packet, got + Len(a) + 1, made, whole)
    PROVE  /\ Continues(Append(a, packet), got, made, whole)
           /\ NoEnd(Append(a, packet)) <=> NoEnd(a) /\ ~Terminal(packet)
           /\ Len(Append(a, packet)) = Len(a) + 1 /\ Append(a, packet) \in Seq(Responses)
<1>1. PICK m \in Nat : m = Len(a)
  OBVIOUS
<1>2. PICK b \in Seq(Responses) : b = Append(a, packet)
  BY AppendType
<1>3. Len(b) = m + 1 /\ (\A i \in 1..m : b[i] = a[i]) /\ b[m + 1] = packet
  BY <1>1, <1>2, AppendProperties
<1>4. \A i \in 1..(m + 1) : i \in 1..m \/ i = m + 1
  OBVIOUS
<1>5. NoEnd(b) <=> NoEnd(a) /\ ~Terminal(packet)
  BY <1>1, <1>3, <1>4 DEF NoEnd
<1>6. ASSUME NEW i \in 1..(m + 1), \A j \in 1..(i - 1) : ~Terminal(b[j])
      PROVE  Fits(b[i], got + i, made, whole)
  <2>1. CASE i \in 1..m
    <3>1. \A j \in 1..(i - 1) : j \in 1..m
      BY <2>1
    <3>2. \A j \in 1..(i - 1) : ~Terminal(a[j])
      BY <1>3, <1>6, <3>1
    <3> QED BY <1>1, <1>3, <2>1, <3>2 DEF Continues
  <2>2. CASE i = m + 1
    <3>1. \A j \in 1..m : j \in 1..(i - 1)
      BY <2>2
    <3>2. NoEnd(a)
      BY <1>1, <1>3, <1>6, <3>1 DEF NoEnd
    <3>3. Fits(packet, got + m + 1, made, whole) /\ got + i = got + m + 1
      BY <1>1, <2>2, <3>2
    <3> QED BY <1>3, <2>2, <3>3
  <2> QED BY <1>4, <2>1, <2>2
<1>7. Continues(b, got, made, whole)
  BY <1>3, <1>6 DEF Continues
<1> QED BY <1>1, <1>2, <1>3, <1>5, <1>7

\* Values that are made later change nothing of what is under way.
LEMMA ContinuesGrowing ==
    ASSUME NEW a, NEW got \in Nat, NEW made \in Nat, NEW whole, NEW more \in Nat, NEW done,
           made <= more, ~whole \/ (done /\ made = more), Continues(a, got, made, whole),
           Len(a) \in Nat
    PROVE  Continues(a, got, more, done)
<1>1. \A packet, n : n \in Nat /\ Fits(packet, n, made, whole) => Fits(packet, n, more, done)
  BY DEF Fits
<1>2. \A i \in 1..Len(a) : got + i \in Nat
  OBVIOUS
<1> QED BY <1>1, <1>2 DEF Continues

\* What the subscriber gets next, and what follows.
LEMMA ContinuesNext ==
    ASSUME NEW a \in Seq(Responses), a # <<>>, NEW got \in Nat, NEW made, NEW whole,
           Continues(a, got, made, whole)
    PROVE  /\ Fits(Head(a), got + 1, made, whole)
           /\ ~Terminal(Head(a)) => /\ Continues(Tail(a), got + 1, made, whole)
                                    /\ NoEnd(Tail(a)) <=> NoEnd(a)
<1>1. PICK m \in Nat : m = Len(a) /\ m > 0
  BY EmptySeq
<1>2. PICK b \in Seq(Responses) : b = Tail(a)
  BY HeadTailProperties
<1>3. Len(b) = m - 1 /\ (\A i \in 1..(m - 1) : b[i] = a[i + 1]) /\ a[1] = Head(a)
  <2>1. Len(b) = Len(a) - 1 /\ \A i \in 1..Len(b) : b[i] = a[i + 1]
    BY <1>2, HeadTailProperties
  <2> QED BY <1>1, <2>1
<1>4. Fits(a[1], got + 1, made, whole)
  <2>1. 1 \in 1..m /\ \A j \in 1..(1 - 1) : ~Terminal(a[j])
    BY <1>1
  <2> QED BY <1>1, <2>1 DEF Continues
<1>5. ASSUME ~Terminal(a[1]), NEW i \in 1..(m - 1), \A j \in 1..(i - 1) : ~Terminal(b[j])
      PROVE  Fits(b[i], got + 1 + i, made, whole)
  <2>1. i + 1 \in 1..m /\ got + (i + 1) = got + 1 + i
    BY <1>1
  <2>2. ASSUME NEW j \in 1..((i + 1) - 1) PROVE ~Terminal(a[j])
    <3>1. CASE j = 1
      BY <1>5, <3>1
    <3>2. CASE j # 1
      <4>1. j - 1 \in 1..(i - 1) /\ j - 1 \in 1..(m - 1) /\ (j - 1) + 1 = j
        BY <1>1, <3>2
      <4>2. b[j - 1] = a[j]
        BY <1>3, <4>1
      <4> QED BY <1>5, <4>1, <4>2
    <3> QED BY <3>1, <3>2
  <2>3. Fits(a[i + 1], got + (i + 1), made, whole)
    BY <1>1, <2>1, <2>2 DEF Continues
  <2> QED BY <1>3, <2>1, <2>3
<1>6. ~Terminal(a[1]) => Continues(b, got + 1, made, whole)
  BY <1>3, <1>5 DEF Continues
<1>7. ~Terminal(a[1]) => (NoEnd(b) <=> NoEnd(a))
  <2>1. \A i \in 1..m : i = 1 \/ (i - 1 \in 1..(m - 1) /\ (i - 1) + 1 = i)
    BY <1>1
  <2>2. \A i \in 1..(m - 1) : i + 1 \in 1..m
    BY <1>1
  <2>3. ASSUME ~Terminal(a[1]), NoEnd(b), NEW i \in 1..m PROVE ~Terminal(a[i])
    <3>1. CASE i = 1
      BY <2>3, <3>1
    <3>2. CASE i # 1
      <4>1. i - 1 \in 1..(m - 1) /\ (i - 1) + 1 = i
        BY <2>1, <3>2
      <4>2. b[i - 1] = a[i]
        BY <1>3, <4>1
      <4> QED BY <1>3, <2>3, <4>1, <4>2 DEF NoEnd
    <3> QED BY <3>1, <3>2
  <2>4. NoEnd(a) => NoEnd(b)
    BY <1>1, <1>3, <2>2 DEF NoEnd
  <2> QED BY <1>1, <2>3, <2>4 DEF NoEnd
<1> QED BY <1>2, <1>3, <1>4, <1>6, <1>7

-----------------------------------------------------------------------------
(* What is under way: the packets that were sent, and those that wait.     *)

Answer(w, s) == w.from \o s.queue

LEMMA AnswerType ==
    ASSUME NEW w \in WireType, NEW s \in ServerType
    PROVE  /\ w.from \in Seq(Responses) /\ s.queue \in Seq(Responses)
           /\ Answer(w, s) \in Seq(Responses)
           /\ Len(Answer(w, s)) = Len(w.from) + Len(s.queue)
           /\ \A i \in 1..Len(w.from) : Answer(w, s)[i] = w.from[i]
           /\ s.made \in Nat
<1>1. w.from \in Seq(Responses) /\ s.queue \in Seq(Responses)
  BY DEF WireType, ServerType
<1>2. /\ Answer(w, s) \in Seq(Responses)
      /\ Len(Answer(w, s)) = Len(w.from) + Len(s.queue)
      /\ \A i \in 1..(Len(w.from) + Len(s.queue)) :
            Answer(w, s)[i] = IF i <= Len(w.from) THEN w.from[i] ELSE s.queue[i - Len(w.from)]
  BY <1>1, ConcatProperties DEF Answer
<1>3. Len(w.from) \in Nat /\ Len(s.queue) \in Nat
  BY <1>1, LenProperties
<1>4. s.made \in Nat
  BY RpcCallAssumption DEF ServerType
<1>5. ASSUME NEW i \in 1..Len(w.from) PROVE Answer(w, s)[i] = w.from[i]
  <2>1. PICK m \in Nat : m = Len(w.from)
    BY <1>3
  <2>2. PICK n \in Nat : n = Len(s.queue)
    BY <1>3
  <2>3. i \in 1..(m + n) /\ i <= m
    BY <2>1
  <2> QED BY <1>2, <2>1, <2>2, <2>3
<1> QED BY <1>1, <1>2, <1>4, <1>5

\* What a concatenation holds, for lengths and a result that have names.
LEMMA ConcatNamed ==
    ASSUME NEW a \in Seq(Responses), NEW b \in Seq(Responses),
           NEW m \in Nat, m = Len(a), NEW n \in Nat, n = Len(b), NEW c, c = a \o b
    PROVE  /\ c \in Seq(Responses) /\ Len(c) = m + n
           /\ \A i \in 1..(m + n) : c[i] = IF i <= m THEN a[i] ELSE b[i - m]
<1>1. /\ a \o b \in Seq(Responses) /\ Len(a \o b) = Len(a) + Len(b)
      /\ \A i \in 1..(Len(a) + Len(b)) :
             (a \o b)[i] = IF i <= Len(a) THEN a[i] ELSE b[i - Len(a)]
  BY ConcatProperties
<1>2. /\ c \in Seq(Responses) /\ Len(c) = Len(a) + Len(b)
      /\ \A i \in 1..(Len(a) + Len(b)) : c[i] = IF i <= Len(a) THEN a[i] ELSE b[i - Len(a)]
  BY <1>1, Zenon
<1> QED BY <1>2, Zenon

\* Sending the next reply changes nothing of the answer.
LEMMA ConcatShifts ==
    ASSUME NEW a \in Seq(Responses), NEW b \in Seq(Responses), b # <<>>
    PROVE  Append(a, Head(b)) \o Tail(b) = a \o b
<1>1. Head(b) \in Responses /\ Tail(b) \in Seq(Responses)
  BY HeadTailProperties
<1>2. PICK e \in Responses : e = Head(b)
  BY <1>1
<1>3. PICK t \in Seq(Responses) : t = Tail(b)
  BY <1>1
<1>4. Append(a, e) = a \o <<e>> /\ <<e>> \in Seq(Responses)
  BY AppendIsConcat
<1>5. <<e>> \o t = b
  <2>1. PICK one \in Seq(Responses) : one = <<e>> /\ Len(one) = 1 /\ one[1] = e
    BY <1>4
  <2>2. PICK m \in Nat : m = Len(t)
    BY LenProperties
  <2>3. Len(b) = m + 1 /\ (\A i \in 1..m : t[i] = b[i + 1]) /\ b[1] = e
    <3>1. Len(t) = Len(b) - 1 /\ (\A i \in 1..Len(t) : t[i] = b[i + 1]) /\ Head(b) = b[1]
      BY <1>3, HeadTailProperties
    <3>2. Len(b) \in Nat
      BY LenProperties
    <3> QED BY <1>2, <2>2, <3>1, <3>2
  <2>4. PICK c \in Seq(Responses) : c = one \o t
    BY ConcatProperties
  <2>5. Len(c) = 1 + m /\ \A i \in 1..(1 + m) : c[i] = IF i <= 1 THEN one[i] ELSE t[i - 1]
    BY <2>1, <2>2, <2>4, ConcatNamed
  <2>6. c[1] = b[1]
    <3>1. 1 \in 1..(1 + m) /\ 1 <= 1
      OBVIOUS
    <3>2. c[1] = one[1]
      BY <2>5, <3>1
    <3> QED BY <2>1, <2>3, <3>2
  <2>7. ASSUME NEW i \in 1..(1 + m), i # 1 PROVE c[i] = b[i]
    <3>1. i - 1 \in 1..m /\ ~(i <= 1) /\ (i - 1) + 1 = i
      BY <2>7
    <3>2. c[i] = t[i - 1]
      BY <2>5, <3>1
    <3>3. t[i - 1] = b[(i - 1) + 1]
      BY <2>3, <3>1
    <3> QED BY <3>1, <3>2, <3>3
  <2>8. Len(c) = Len(b) /\ \A i \in 1..Len(c) : c[i] = b[i]
    BY <2>3, <2>5, <2>6, <2>7
  <2>9. c = b
    BY <2>4, <2>8, SeqEqual
  <2> QED BY <2>1, <2>4, <2>9
<1>6. (a \o <<e>>) \o t = a \o (<<e>> \o t)
  BY <1>4, ConcatAssociative
<1> QED BY <1>2, <1>3, <1>4, <1>5, <1>6

\* Neither does reading the next packet, but for that packet.
LEMMA ConcatTakes ==
    ASSUME NEW a \in Seq(Responses), NEW b \in Seq(Responses), a # <<>>
    PROVE  /\ a \o b # <<>> /\ Head(a \o b) = Head(a)
           /\ Tail(a \o b) = Tail(a) \o b /\ Len(Tail(a) \o b) = Len(a \o b) - 1
<1>1. PICK t \in Seq(Responses) : t = Tail(a)
  BY HeadTailProperties
<1>2. PICK m \in Nat : m = Len(a) /\ m > 0
  BY EmptySeq
<1>3. PICK n \in Nat : n = Len(b)
  BY LenProperties
<1>4. PICK c \in Seq(Responses) : c = a \o b
  BY ConcatProperties
<1>5. Len(c) = m + n /\ \A i \in 1..(m + n) : c[i] = IF i <= m THEN a[i] ELSE b[i - m]
  BY <1>2, <1>3, <1>4, ConcatNamed
<1>6. c # <<>> /\ Head(c) = c[1] /\ Head(a) = a[1]
  <2>1. Len(<<>>) = 0
    OBVIOUS
  <2> QED BY <1>2, <1>3, <1>5, <2>1
<1>7. Len(t) = m - 1 /\ \A i \in 1..(m - 1) : t[i] = a[i + 1]
  <2>1. Len(t) = Len(a) - 1 /\ \A i \in 1..Len(t) : t[i] = a[i + 1]
    BY <1>1, <1>2, HeadTailProperties
  <2> QED BY <1>2, <2>1
<1>8. PICK d \in Seq(Responses) : d = Tail(c)
  BY <1>6, HeadTailProperties
<1>9. Len(d) = m + n - 1 /\ \A i \in 1..(m + n - 1) : d[i] = c[i + 1]
  <2>1. Len(d) = Len(c) - 1 /\ \A i \in 1..Len(d) : d[i] = c[i + 1]
    BY <1>6, <1>8, HeadTailProperties
  <2> QED BY <1>2, <1>5, <2>1
<1>10. PICK e \in Seq(Responses) : e = t \o b
  BY ConcatProperties
<1>11. /\ Len(e) = m - 1 + n
       /\ \A i \in 1..(m - 1 + n) : e[i] = IF i <= m - 1 THEN t[i] ELSE b[i - (m - 1)]
  <2>1. PICK p \in Nat : p = m - 1
    <3>1. m - 1 \in Nat
      BY <1>2
    <3> QED BY <3>1
  <2>2. p = Len(t)
    BY <1>7, <2>1
  <2>3. Len(e) = p + n /\ \A i \in 1..(p + n) : e[i] = IF i <= p THEN t[i] ELSE b[i - p]
    BY <1>3, <1>10, <2>2, ConcatNamed
  <2> QED BY <2>1, <2>3, Zenon
<1>12. ASSUME NEW i \in 1..(m + n - 1) PROVE d[i] = e[i]
  <2>1. i + 1 \in 1..(m + n) /\ i \in 1..(m - 1 + n) /\ (i + 1) - m = i - (m - 1)
    BY <1>2
  <2>2. CASE i <= m - 1
    <3>1. i + 1 <= m /\ i \in 1..(m - 1)
      BY <2>2
    <3> QED BY <1>5, <1>7, <1>9, <1>11, <2>1, <2>2, <3>1
  <2>3. CASE ~(i <= m - 1)
    <3>1. ~(i + 1 <= m)
      BY <2>3
    <3> QED BY <1>5, <1>9, <1>11, <2>1, <2>3, <3>1
  <2> QED BY <2>2, <2>3
<1>13. d = e
  <2>1. m + n - 1 = m - 1 + n
    OBVIOUS
  <2> QED BY <1>9, <1>11, <1>12, <2>1, SeqEqual
<1>14. a[1] = c[1]
  <2>1. 1 \in 1..(m + n) /\ 1 <= m
    BY <1>2
  <2> QED BY <1>5, <2>1
<1> QED BY <1>1, <1>4, <1>5, <1>6, <1>8, <1>9, <1>10, <1>13, <1>14

\* A handler has made nothing before its method has returned, and everything only after
\* its stream has ended.
MadeSound(s) ==
    /\ s.phase \in {"none", "invoking"} => s.made = 0 /\ ~s.whole
    /\ s.phase = "live" => ~s.whole

\* What the subscriber of an attempt may count on that has got the first values.  While
\* the link is up everything made is under way to it; when the link is lost and send() had
\* resolved, what is under way tells it an end, unless the transport is mute: then no more is added.
AnswerSound(w, s, send, got) ==
    /\ got <= s.made
    /\ w.up =>
          /\ ~s.poisoned
          /\ Continues(Answer(w, s), got, s.made, s.whole)
          /\ s.phase \in {"none", "invoking"} => got = 0 /\ w.from = <<>>
          /\ s.phase = "live" => NoEnd(Answer(w, s)) /\ got + Len(Answer(w, s)) = s.made
    /\ ~w.up /\ (send = "settled" \/ w.mute) => Continues(w.from, got, s.made, s.whole)
    /\ ~w.up /\ send = "settled" /\ ~w.mute => ~NoEnd(w.from)

LEMMA FreshSound ==
    ASSUME NEW w \in WireType, w.up, w.from = <<>>, NEW send
    PROVE  AnswerSound(w, Unserved, send, 0)
<1>1. /\ Unserved.queue = <<>> /\ Unserved.made = 0 /\ ~Unserved.poisoned
      /\ Unserved.phase = "none"
  BY DEF Unserved
<1>2. Answer(w, Unserved) = <<>>
  <2>1. <<>> \o <<>> = <<>>
    BY ConcatEmptySeq, EmptySeq
  <2> QED BY <1>1, <2>1 DEF Answer
<1>3. Continues(<<>>, 0, 0, Unserved.whole)
  BY ContinuesNothing
<1>4. 0 <= 0
  OBVIOUS
<1> QED BY <1>1, <1>2, <1>3, <1>4 DEF AnswerSound

LEMMA WireMovesSound ==
    ASSUME NEW w, NEW s, NEW send, NEW got, AnswerSound(w, s, send, got),
           NEW v, v.from = w.from, v.up <=> w.up, v.mute <=> w.mute,
           NEW sent, sent = "settled" => send = "settled" \/ w.up \/ w.mute
    PROVE  AnswerSound(v, s, sent, got)
<1>1. Answer(v, s) = Answer(w, s)
  BY DEF Answer
<1> QED BY <1>1 DEF AnswerSound

\* Steps of the handler that add nothing to its answer.
LEMMA HandlerWaitsSound ==
    ASSUME NEW w \in WireType, NEW s \in ServerType, NEW send, NEW got \in Nat,
           AnswerSound(w, s, send, got), HandlerSound(s), MadeSound(s),
           NEW h \in ServerType, h.queue = s.queue, h.made = s.made, h.whole <=> s.whole,
           h.poisoned <=> s.poisoned,
           h.phase \in {"none", "invoking"} => s.phase \in {"none", "invoking"},
           h.phase = "live" => s.phase \in {"invoking", "live"}
    PROVE  AnswerSound(w, h, send, got)
<1>1. Answer(w, h) = Answer(w, s)
  BY DEF Answer
<1>2. \A a : Continues(a, got, s.made, s.whole) => Continues(a, got, h.made, h.whole)
  BY DEF Continues, Fits
<1>3. CASE s.phase = "invoking" /\ w.up /\ h.phase = "live"
  <2>1. s.queue = <<>> /\ w.from = <<>> /\ got = 0 /\ s.made = 0
    BY <1>3 DEF HandlerSound, MadeSound, AnswerSound
  <2>2. Answer(w, s) = <<>>
    <3>1. <<>> \o <<>> = <<>>
      BY ConcatEmptySeq, EmptySeq
    <3> QED BY <2>1, <3>1 DEF Answer
  <2>3. NoEnd(<<>>) /\ 0 + Len(<<>>) = 0
    BY ContinuesNothing
  <2> QED BY <1>1, <1>2, <1>3, <2>1, <2>2, <2>3 DEF AnswerSound
<1>4. CASE ~(s.phase = "invoking" /\ w.up /\ h.phase = "live")
  BY <1>1, <1>2, <1>4 DEF AnswerSound
<1> QED BY <1>3, <1>4

\* More is made: what is under way still fits.
LEMMA LostAnswerSound ==
    ASSUME NEW w \in WireType, ~w.up, NEW s \in ServerType, NEW send, NEW got \in Nat,
           AnswerSound(w, s, send, got),
           NEW h \in ServerType, s.made <= h.made, ~s.whole \/ (h.whole /\ h.made = s.made)
    PROVE  AnswerSound(w, h, send, got)
<1>1. s.made \in Nat /\ h.made \in Nat /\ w.from \in Seq(Responses) /\ Len(w.from) \in Nat
  <2>1. w.from \in Seq(Responses)
    BY DEF WireType
  <2> QED BY AnswerType, LenProperties, <2>1
<1>2. Continues(w.from, got, s.made, s.whole) => Continues(w.from, got, h.made, h.whole)
  BY <1>1, ContinuesGrowing
<1>3. got <= s.made => got <= h.made
  BY <1>1
<1> QED BY <1>2, <1>3 DEF AnswerSound

\* The one reply of a method that does not stream.
LEMMA OneReplySound ==
    ASSUME NEW w \in WireType, NEW s \in ServerType, NEW send, NEW got \in Nat,
           AnswerSound(w, s, send, got), HandlerSound(s), MadeSound(s),
           s.phase \in {"none", "invoking"},
           NEW h \in ServerType, NEW packet \in Responses, h.queue = <<packet>>,
           h.phase = "over", h.poisoned <=> s.poisoned, Fits(packet, 1, h.made, h.whole)
    PROVE  AnswerSound(w, h, send, got)
<1>1. s.queue = <<>> /\ s.made = 0 /\ ~s.whole /\ h.made \in Nat
  BY AnswerType DEF HandlerSound, MadeSound
<1>2. CASE ~w.up
  <2>1. s.made <= h.made
    BY <1>1
  <2> QED BY <1>1, <1>2, <2>1, LostAnswerSound
<1>3. CASE w.up
  <2>1. got = 0 /\ w.from = <<>> /\ ~s.poisoned
    BY <1>3 DEF AnswerSound
  <2>2. Answer(w, h) = Append(<<>>, packet)
    <3>1. <<>> \o <<packet>> = Append(<<>>, packet)
      BY AppendIsConcat, EmptySeq
    <3> QED BY <2>1, <3>1 DEF Answer
  <2>3. Continues(Append(<<>>, packet), 0, h.made, h.whole)
    <3>1. Continues(<<>>, 0, h.made, h.whole) /\ <<>> \in Seq(Responses)
      BY ContinuesNothing, EmptySeq
    <3>2. 0 + Len(<<>>) + 1 = 1
      OBVIOUS
    <3> QED BY <3>1, <3>2, ContinuesLonger
  <2>4. 0 <= h.made
    BY <1>1
  <2> QED BY <1>3, <2>1, <2>2, <2>3, <2>4 DEF AnswerSound
<1> QED BY <1>2, <1>3

\* One more reply of a stream.
LEMMA OneMoreSound ==
    ASSUME NEW w \in WireType, NEW s \in ServerType, NEW send, NEW got \in Nat,
           AnswerSound(w, s, send, got), MadeSound(s), s.phase = "live",
           NEW h \in ServerType, NEW packet \in Responses,
           ~s.poisoned => h.queue = Append(s.queue, packet),
           h.phase \in {"live", "over"}, h.poisoned <=> s.poisoned, s.made <= h.made,
           Fits(packet, s.made + 1, h.made, h.whole),
           h.phase = "live" => ~Terminal(packet) /\ h.made = s.made + 1
    PROVE  AnswerSound(w, h, send, got)
<1>1. ~s.whole /\ h.made \in Nat /\ s.made \in Nat
  BY AnswerType DEF MadeSound
<1>2. CASE ~w.up
  BY <1>1, <1>2, LostAnswerSound
<1>3. CASE w.up
  <2>1. /\ ~s.poisoned /\ Continues(Answer(w, s), got, s.made, s.whole)
        /\ NoEnd(Answer(w, s)) /\ got + Len(Answer(w, s)) = s.made /\ got <= s.made
    BY <1>3 DEF AnswerSound
  <2>2. PICK a \in Seq(Responses) : a = Answer(w, s)
    BY AnswerType
  <2>3. PICK m \in Nat : m = Len(a)
    BY LenProperties
  <2>4. Answer(w, h) = Append(a, packet)
    <3>1. PICK from \in Seq(Responses) : from = w.from
      BY AnswerType
    <3>2. PICK queue \in Seq(Responses) : queue = s.queue
      BY AnswerType
    <3>3. PICK one \in Seq(Responses) : one = <<packet>>
      BY OneReplyType
    <3>4. h.queue = queue \o one /\ Append(a, packet) = a \o one
      <4>1. Append(queue, packet) = queue \o <<packet>> /\ Append(a, packet) = a \o <<packet>>
        BY AppendIsConcat
      <4>2. h.queue = Append(queue, packet)
        BY <2>1, <3>2
      <4> QED BY <3>3, <4>1, <4>2
    <3>5. (from \o queue) \o one = from \o (queue \o one)
      BY ConcatAssociative
    <3> QED BY <2>2, <3>1, <3>2, <3>4, <3>5 DEF Answer
  <2>5. Continues(a, got, h.made, h.whole)
    <3>1. Len(a) \in Nat
      BY <2>3
    <3> QED BY <1>1, <2>1, <2>2, <3>1, ContinuesGrowing
  <2>6. got + Len(a) + 1 = s.made + 1 /\ got + m = s.made
    BY <2>1, <2>2, <2>3
  <2>7. /\ Continues(Append(a, packet), got, h.made, h.whole)
        /\ NoEnd(Append(a, packet)) <=> NoEnd(a) /\ ~Terminal(packet)
        /\ Len(Append(a, packet)) = Len(a) + 1
    BY <2>5, <2>6, ContinuesLonger
  <2>8. h.phase = "live" => NoEnd(Append(a, packet)) /\ got + (m + 1) = h.made
    BY <1>1, <2>1, <2>2, <2>6, <2>7
  <2>9. got <= h.made
    BY <1>1, <2>1
  <2> QED BY <1>3, <2>1, <2>3, <2>4, <2>7, <2>8, <2>9 DEF AnswerSound
<1> QED BY <1>2, <1>3

\* The next reply of the chain is sent.
LEMMA ReplySentSound ==
    ASSUME NEW w \in WireType, NEW s \in ServerType, NEW send, NEW got \in Nat,
           AnswerSound(w, s, send, got), s.queue # <<>>,
           NEW v \in WireType, v.up <=> w.up, v.mute <=> w.mute,
           \/ v.from = Append(w.from, Head(s.queue)) /\ ~w.mute
           \/ v.from = w.from /\ ~w.up,
           NEW h \in ServerType, h.queue = Tail(s.queue), h.phase = s.phase, h.made = s.made,
           h.whole <=> s.whole, h.poisoned <=> s.poisoned,
           s.phase \notin {"none", "invoking"}
    PROVE  AnswerSound(v, h, send, got)
<1>1. PICK from \in Seq(Responses) : from = w.from
  BY AnswerType
<1>2. PICK queue \in Seq(Responses) : queue = s.queue /\ queue # <<>>
  BY AnswerType
<1>3. PICK packet \in Responses : packet = Head(queue)
  BY <1>2, HeadTailProperties
<1>4. \A a : Continues(a, got, s.made, s.whole) => Continues(a, got, h.made, h.whole)
  BY DEF Continues, Fits
<1>5. CASE w.up
  <2>1. v.from = Append(from, packet) /\ h.queue = Tail(queue)
    BY <1>1, <1>2, <1>3, <1>5
  <2>2. Append(from, packet) \o Tail(queue) = from \o queue
    BY <1>2, <1>3, ConcatShifts
  <2>3. Answer(v, h) = Answer(w, s)
    BY <1>1, <1>2, <2>1, <2>2 DEF Answer
  <2> QED BY <1>4, <1>5, <2>3 DEF AnswerSound
<1>6. CASE ~w.up
  <2>1. CASE send = "settled" /\ ~w.mute
    <3>1. Continues(from, got, s.made, s.whole) /\ ~NoEnd(from)
      BY <1>1, <1>6, <2>1 DEF AnswerSound
    <3>2. Continues(Append(from, packet), got, s.made, s.whole) /\ ~NoEnd(Append(from, packet))
      BY <3>1, ContinuesLonger
    <3>3. v.from = Append(from, packet) \/ v.from = from
      BY <1>1, <1>2, <1>3
    <3> QED BY <1>4, <1>6, <2>1, <3>1, <3>2, <3>3 DEF AnswerSound
  <2>2. CASE w.mute
    BY <1>4, <1>6, <2>2 DEF AnswerSound
  <2>3. CASE send # "settled" /\ ~w.mute
    BY <1>6, <2>3 DEF AnswerSound
  <2> QED BY <2>1, <2>2, <2>3
<1> QED BY <1>5, <1>6

\* The link is lost: part of what was under way, and the end it is told.
LEMMA LossSound ==
    ASSUME NEW w \in WireType, NEW s \in ServerType, NEW send, NEW got \in Nat,
           AnswerSound(w, s, send, got), w.up,
           NEW k \in Nat, k <= Len(w.from), NEW v, ~v.up,
           v.from = IF ~v.mute /\ send = "settled" /\ \A i \in 1..k : ~Terminal(SubSeq(w.from, 1, k)[i])
                    THEN Append(SubSeq(w.from, 1, k), Response(0, "offline"))
                    ELSE SubSeq(w.from, 1, k)
    PROVE  AnswerSound(v, s, send, got)
<1>1. PICK from \in Seq(Responses) : from = w.from
  BY AnswerType
<1>2. PICK kept \in Seq(Responses) : kept = SubSeq(w.from, 1, k)
  BY <1>1, PrefixType
<1>3. Len(kept) = k /\ \A i \in 1..k : kept[i] = from[i]
  BY <1>1, <1>2, PrefixType
<1>4. PICK a \in Seq(Responses) : a = Answer(w, s)
  BY AnswerType
<1>5. Continues(a, got, s.made, s.whole) /\ got <= s.made
  BY <1>4 DEF AnswerSound
<1>6. Continues(kept, got, s.made, s.whole)
  <2>1. PICK m \in Nat : m = Len(from)
    BY LenProperties
  <2>2. PICK n \in Nat : n = Len(s.queue)
    BY AnswerType, LenProperties
  <2>3. Len(a) = m + n /\ \A i \in 1..m : a[i] = from[i]
    BY <1>1, <1>4, <2>1, <2>2, AnswerType
  <2>4. k <= m
    BY <1>1, <2>1
  <2>5. \A i \in 1..k : i \in 1..m
    BY <2>4
  <2>6. k <= m + n
    BY <2>4
  <2>7. Len(kept) <= Len(a) /\ \A i \in 1..Len(kept) : kept[i] = a[i]
    BY <1>3, <2>3, <2>5, <2>6
  <2> QED BY <1>5, <2>7, ContinuesPrefix
<1>7. PICK packet \in Responses : packet = Response(0, "offline")
  BY ResponseType, RpcCallAssumption DEF Codes
<1>8. packet.item = 0 /\ packet.end = "offline" /\ Terminal(packet)
  BY <1>7 DEF Response, Terminal
<1>9. Fits(packet, got + Len(kept) + 1, s.made, s.whole)
  BY <1>8 DEF Fits
<1>10. Continues(Append(kept, packet), got, s.made, s.whole) /\ ~NoEnd(Append(kept, packet))
  BY <1>6, <1>8, <1>9, ContinuesLonger
<1>11. CASE ~v.mute /\ send = "settled" /\ NoEnd(kept)
  <2>1. \A i \in 1..k : ~Terminal(SubSeq(w.from, 1, k)[i])
    BY <1>2, <1>3, <1>11 DEF NoEnd
  <2>2. v.from = Append(kept, packet)
    BY <1>2, <1>7, <1>11, <2>1
  <2> QED BY <1>5, <1>10, <2>2 DEF AnswerSound
<1>12. CASE send = "settled" /\ ~NoEnd(kept)
  <2>1. ~\A i \in 1..k : ~Terminal(SubSeq(w.from, 1, k)[i])
    BY <1>2, <1>3, <1>12 DEF NoEnd
  <2>2. v.from = kept
    BY <1>2, <2>1
  <2> QED BY <1>5, <1>6, <1>12, <2>2 DEF AnswerSound
<1>13. CASE ~v.mute /\ send # "settled"
  BY <1>5, <1>13 DEF AnswerSound
<1>14. CASE v.mute
  <2>1. v.from = kept
    BY <1>2, <1>14
  <2> QED BY <1>5, <1>6, <1>14, <2>1 DEF AnswerSound
<1> QED BY <1>11, <1>12, <1>13, <1>14

\* The next packet is read.  It is the next value the handler made, or the end.
LEMMA NextPacketFits ==
    ASSUME NEW w \in WireType, NEW s \in ServerType, NEW got \in Nat,
           AnswerSound(w, s, "settled", got), w.from # <<>>
    PROVE  Head(w.from) \in Responses /\ Fits(Head(w.from), got + 1, s.made, s.whole)
<1>1. PICK from \in Seq(Responses) : from = w.from /\ from # <<>>
  BY AnswerType
<1>2. PICK queue \in Seq(Responses) : queue = s.queue
  BY AnswerType
<1>3. Head(from) \in Responses
  BY <1>1, HeadTailProperties
<1>4. CASE w.up
  <2>1. PICK a \in Seq(Responses) : a = from \o queue
    BY ConcatProperties
  <2>2. a # <<>> /\ Head(a) = Head(from)
    BY <1>1, <2>1, ConcatTakes
  <2>3. Continues(a, got, s.made, s.whole)
    BY <1>1, <1>2, <1>4, <2>1 DEF AnswerSound, Answer
  <2>4. Fits(Head(a), got + 1, s.made, s.whole)
    BY <2>2, <2>3, ContinuesNext
  <2> QED BY <1>1, <1>3, <2>2, <2>4
<1>5. CASE ~w.up
  <2>1. Continues(from, got, s.made, s.whole)
    BY <1>1, <1>5 DEF AnswerSound
  <2>2. Fits(Head(from), got + 1, s.made, s.whole)
    BY <1>1, <2>1, ContinuesNext
  <2> QED BY <1>1, <1>3, <2>2
<1> QED BY <1>4, <1>5

LEMMA PacketReadSound ==
    ASSUME NEW w \in WireType, NEW s \in ServerType, NEW got \in Nat,
           AnswerSound(w, s, "settled", got), w.from # <<>>, ~Terminal(Head(w.from)),
           NEW v, v.from = Tail(w.from), v.up <=> w.up, v.mute <=> w.mute
    PROVE  AnswerSound(v, s, "settled", got + 1) /\ got + 1 <= s.made
<1>1. PICK from \in Seq(Responses) : from = w.from /\ from # <<>>
  BY AnswerType
<1>2. PICK queue \in Seq(Responses) : queue = s.queue
  BY AnswerType
<1>3. PICK rest \in Seq(Responses) : rest = Tail(from)
  BY <1>1, HeadTailProperties
<1>4. got + 1 <= s.made
  <2>1. Fits(Head(w.from), got + 1, s.made, s.whole)
    BY NextPacketFits
  <2> QED BY <2>1 DEF Fits, Terminal
<1>5. ~Terminal(Head(from))
  BY <1>1
<1>6. CASE w.up
  <2>1. PICK a \in Seq(Responses) : a = from \o queue
    BY ConcatProperties
  <2>2. a # <<>> /\ Head(a) = Head(from) /\ Tail(a) = rest \o queue
          /\ Len(rest \o queue) = Len(a) - 1
    BY <1>1, <1>3, <2>1, ConcatTakes
  <2>3. Answer(w, s) = a /\ Answer(v, s) = Tail(a)
    BY <1>1, <1>2, <1>3, <2>1, <2>2 DEF Answer
  <2>4. /\ ~s.poisoned /\ Continues(a, got, s.made, s.whole)
        /\ s.phase \in {"none", "invoking"} => from = <<>>
        /\ s.phase = "live" => NoEnd(a) /\ got + Len(a) = s.made
    BY <1>1, <1>6, <2>3 DEF AnswerSound
  <2>5. Continues(Tail(a), got + 1, s.made, s.whole) /\ (NoEnd(Tail(a)) <=> NoEnd(a))
    BY <1>5, <2>2, <2>4, ContinuesNext
  <2>6. got + Len(a) = s.made => got + 1 + Len(Tail(a)) = s.made
    <3>1. PICK m \in Nat : m = Len(a)
      BY LenProperties
    <3>2. Len(Tail(a)) = m - 1
      BY <2>2, <3>1
    <3>3. got + m = got + 1 + (m - 1)
      OBVIOUS
    <3> QED BY <3>1, <3>2, <3>3
  <2> QED BY <1>1, <1>4, <1>6, <2>3, <2>4, <2>5, <2>6 DEF AnswerSound
<1>7. CASE ~w.up
  <2>1. Continues(from, got, s.made, s.whole) /\ (w.mute \/ ~NoEnd(from))
    BY <1>1, <1>7 DEF AnswerSound
  <2>2. Continues(rest, got + 1, s.made, s.whole) /\ (w.mute \/ ~NoEnd(rest))
    BY <1>1, <1>3, <1>5, <2>1, ContinuesNext
  <2> QED BY <1>1, <1>3, <1>4, <1>7, <2>2 DEF AnswerSound
<1> QED BY <1>4, <1>6, <1>7

-----------------------------------------------------------------------------
(* The invariant.                                                          *)

\* Of a request that has not left there is no answer, and its link cannot be lost.
Unanswered(r) ==
    req[r].send \in {"none", "sending"} =>
        wire[r].from = <<>> /\ wire[r].up /\ wire[r].carrier = NoNode

Owed(c) ==
    AnswerSound(wire[Current(c)], server[Current(c)], req[Current(c)].send, call[c].got)

AnswersInv ==
    /\ \A r \in Requests : MadeSound(server[r]) /\ Unanswered(r)
    /\ \A c \in Calls : call[c].phase = "open" => Owed(c)

LEMMA WithCancelKeepsAnswer ==
    ASSUME NEW w \in WireType, NEW before, NEW after
    PROVE  /\ WithCancel(w, before, after).from = w.from
           /\ WithCancel(w, before, after).up <=> w.up
           /\ WithCancel(w, before, after).mute <=> w.mute
           /\ WithCancel(w, before, after).carrier = w.carrier
  BY DEF WithCancel, WireType

\* The current request of an open call.
LEMMA CurrentIsRequest ==
    ASSUME TypeOK, AttemptsInv, NEW c \in Calls, call[c].phase = "open"
    PROVE  /\ Current(c) \in Requests /\ Current(c)[1] = c /\ Current(c)[2] = call[c].attempt
           /\ call[c].got \in Nat
           /\ req[Current(c)].known
<1>1. call[c] \in CallType /\ call[c].attempt > 0
  BY DEF TypeOK, AttemptsInv, CallSound
<1>2. call[c].attempt \in 1..(Retry + 1) /\ call[c].got \in Nat
  BY <1>1, RpcCallAssumption DEF CallType
<1>3. Current(c) \in Requests /\ Current(c)[1] = c /\ Current(c)[2] = call[c].attempt
  BY <1>2, RequestPairs DEF Current
<1> QED BY <1>2, <1>3 DEF AttemptsInv

\* A step of the calling node or the transport that is about one request.
LEMMA CallerMovesAnswers ==
    ASSUME TypeOK, AttemptsInv, AnswersInv, UNCHANGED server, NEW r \in Requests,
           \A x \in Requests \ {r} : req'[x] = req[x] /\ wire'[x] = wire[x],
           \A d \in Calls \ {r[1]} : call'[d] = call[d],
           Unanswered(r)',
           call'[r[1]].phase = "open" =>
              /\ call[r[1]].phase = "open" /\ call'[r[1]].attempt = call[r[1]].attempt
              /\ r = Current(r[1]) =>
                    AnswerSound(wire'[r], server[r], req'[r].send, call'[r[1]].got)
              /\ r # Current(r[1]) => call'[r[1]].got = call[r[1]].got
    PROVE  AnswersInv'
<1>1. ASSUME NEW x \in Requests PROVE MadeSound(server'[x]) /\ Unanswered(x)'
  <2>1. MadeSound(server[x]) /\ Unanswered(x)
    BY DEF AnswersInv
  <2>2. x # r => Unanswered(x)'
    BY <2>1 DEF Unanswered
  <2> QED BY <2>1, <2>2
<1>2. ASSUME NEW c \in Calls, call'[c].phase = "open" PROVE Owed(c)'
  <2>1. call[c].phase = "open" /\ call'[c].attempt = call[c].attempt
    BY <1>2
  <2>2. Owed(c) /\ Current(c) \in Requests /\ Current(c)[1] = c /\ Current(c)' = Current(c)
    BY <2>1, CurrentIsRequest DEF AnswersInv, Current
  <2>3. CASE Current(c) = r
    <3>1. AnswerSound(wire'[r], server[r], req'[r].send, call'[c].got)
      BY <1>2, <2>2, <2>3
    <3> QED BY <2>2, <2>3, <3>1 DEF Owed
  <2>4. CASE Current(c) # r
    <3>1. call'[c].got = call[c].got
      BY <1>2, <2>2, <2>4
    <3>2. req'[Current(c)] = req[Current(c)] /\ wire'[Current(c)] = wire[Current(c)]
      BY <2>2, <2>4
    <3> QED BY <2>2, <3>1, <3>2 DEF Owed
  <2> QED BY <2>3, <2>4
<1> QED BY <1>1, <1>2 DEF AnswersInv

\* A step of a handler.
LEMMA HandlerMovesAnswers ==
    ASSUME TypeOK, AttemptsInv, AnswersInv, UNCHANGED <<call, req>>, NEW s \in Requests,
           \A x \in Requests \ {s} : server'[x] = server[x] /\ wire'[x] = wire[x],
           req[s].send \notin {"none", "sending"}, MadeSound(server'[s]),
           \A got \in Nat :
              AnswerSound(wire[s], server[s], req[s].send, got)
                => AnswerSound(wire'[s], server'[s], req[s].send, got)
    PROVE  AnswersInv'
<1>1. ASSUME NEW x \in Requests PROVE MadeSound(server'[x]) /\ Unanswered(x)'
  <2>1. MadeSound(server[x]) /\ Unanswered(x)
    BY DEF AnswersInv
  <2> QED BY <2>1 DEF Unanswered
<1>2. ASSUME NEW c \in Calls, call'[c].phase = "open" PROVE Owed(c)'
  <2>1. /\ Owed(c) /\ Current(c) \in Requests /\ Current(c)' = Current(c)
        /\ call[c].got \in Nat
    BY <1>2, CurrentIsRequest DEF AnswersInv, Current
  <2>2. CASE Current(c) = s
    <3>1. AnswerSound(wire'[s], server'[s], req[s].send, call[c].got)
      BY <2>1, <2>2 DEF Owed
    <3> QED BY <2>1, <2>2, <3>1 DEF Owed
  <2>3. CASE Current(c) # s
    BY <2>1, <2>3 DEF Owed
  <2> QED BY <2>2, <2>3
<1> QED BY <1>1, <1>2 DEF AnswersInv

\* What the steps do to the answer.
LEMMA GiveUpEffect ==
    ASSUME TypeOK, AttemptsInv, NEW c \in Calls, NEW how, call[c].phase = "open", GiveUp(c, how)
    PROVE  /\ \A x \in Requests \ {Current(c)} : req'[x] = req[x] /\ wire'[x] = wire[x]
           /\ req'[Current(c)].send = req[Current(c)].send
           /\ wire'[Current(c)].from = wire[Current(c)].from
           /\ wire'[Current(c)].up <=> wire[Current(c)].up
           /\ wire'[Current(c)].mute <=> wire[Current(c)].mute
           /\ wire'[Current(c)].carrier = wire[Current(c)].carrier
           /\ call' = [call EXCEPT ![c] = [call[c] EXCEPT !.phase = "over", !.outcome = how]]
<1>1. PICK r \in Requests : r = Current(c)
  BY CurrentIsRequest
<1> DEFINE q == Abandoned(Teardown(req[r]))
<1>2. q.send = req[r].send
  <2>1. Teardown(req[r]) \in ReqType /\ Teardown(req[r]).send = req[r].send
    BY RequestRecordTypes, RecordsKeepNode DEF TypeOK
  <2> QED BY <2>1, RecordsKeepNode
<1>3. /\ call' = [call EXCEPT ![c] = [call[c] EXCEPT !.phase = "over", !.outcome = how]]
      /\ req' = [req EXCEPT ![r] = q]
      /\ wire' = [wire EXCEPT ![r] = WithCancel(wire[r], req[r], q)]
  BY <1>1 DEF GiveUp
<1> HIDE DEF q
<1>4. wire[r] \in WireType
  BY DEF TypeOK
<1>5. req'[r] = q /\ wire'[r] = WithCancel(wire[r], req[r], q)
  BY <1>3 DEF TypeOK
<1>6. /\ wire'[r].from = wire[r].from /\ (wire'[r].up <=> wire[r].up)
      /\ (wire'[r].mute <=> wire[r].mute) /\ wire'[r].carrier = wire[r].carrier
  BY <1>4, <1>5, WithCancelKeepsAnswer
<1>7. \A x \in Requests \ {r} : req'[x] = req[x] /\ wire'[x] = wire[x]
  BY <1>3 DEF TypeOK
<1> QED BY <1>1, <1>2, <1>3, <1>5, <1>6, <1>7

LEMMA ResponseEffect ==
    ASSUME TypeOK, AttemptsInv, NEW s \in Requests, NEW b \in BOOLEAN, ResponseArrives(s, b)
    PROVE  /\ \A x \in Requests \ {s} : req'[x] = req[x] /\ wire'[x] = wire[x]
           /\ req[s].send = "settled" /\ req'[s].send = "settled"
           /\ wire[s].from # <<>> /\ Head(wire[s].from) \in Responses
           /\ wire'[s].from = Tail(wire[s].from)
           /\ wire'[s].up <=> wire[s].up
           /\ wire'[s].mute <=> wire[s].mute
           /\ ~req[s].known => call' = call
           /\ req[s].known =>
                 call' = [call EXCEPT ![s[1]] = Seen(call[s[1]], Head(wire[s].from), b)]
           /\ b => Head(wire[s].from).item > 0
           /\ server' = server
<1> DEFINE packet == Head(wire[s].from)
           seen   == [req[s] EXCEPT !.node = wire[s].carrier]
           marked == MarkedFirst(seen, packet)
           after  == IF b /\ ~Terminal(packet) THEN Abandoned(Teardown(marked))
                     ELSE IF b THEN Teardown(marked)
                     ELSE IF Terminal(packet) THEN Teardown(Finished(marked))
                     ELSE marked
           rest   == [wire[s] EXCEPT !.from = Tail(@)]
<1>1. /\ wire[s].from \in Seq(Responses) /\ wire[s].from # <<>> /\ wire[s] \in WireType
      /\ req[s].send = "settled" /\ req[s] \in ReqType
  BY DEF ResponseArrives, TypeOK, WireType
<1>2. rest \in WireType /\ rest.from = Tail(wire[s].from) /\ (rest.up <=> wire[s].up)
      /\ (rest.mute <=> wire[s].mute) /\ packet \in Responses
  <2>1. Tail(wire[s].from) \in Seq(Responses) /\ packet \in Responses
    BY <1>1, HeadTailProperties
  <2> HIDE DEF packet
  <2> QED BY <1>1, <2>1 DEF WireType
<1>3. seen \in ReqType /\ seen.send = "settled"
  <2>1. wire[s].carrier \in Nodes \cup {NoNode}
    BY <1>1 DEF WireType
  <2>2. seen \in ReqType
    BY <1>1, <2>1, RequestRecordTypes
  <2> QED BY <1>1, <2>2 DEF ReqType
<1>4. marked \in ReqType /\ marked.send = "settled"
  <2> HIDE DEF seen
  <2> QED BY <1>3, RequestRecordTypes, RecordsKeepNode DEF MarkedFirst
<1>5. after.send = "settled"
  <2> HIDE DEF marked
  <2>1. Teardown(marked).send = "settled" /\ Teardown(marked) \in ReqType
    BY <1>4, RequestRecordTypes, RecordsKeepNode
  <2>2. Abandoned(Teardown(marked)).send = "settled"
    BY <2>1, RecordsKeepNode
  <2>3. Finished(marked).send = "settled" /\ Finished(marked) \in ReqType
    BY <1>4, RequestRecordTypes, RecordsKeepNode
  <2>4. Teardown(Finished(marked)).send = "settled"
    BY <2>3, RecordsKeepNode
  <2> QED BY <1>4, <2>1, <2>2, <2>4
<1>6. \A x \in Requests \ {s} : req'[x] = req[x] /\ wire'[x] = wire[x]
  BY DEF ResponseArrives, TypeOK
<1>7. /\ ~req[s].known => call' = call /\ req'[s] = req[s] /\ wire'[s] = rest
      /\ req[s].known => /\ call' = [call EXCEPT ![s[1]] = Seen(call[s[1]], packet, b)]
                         /\ req'[s] = after
                         /\ wire'[s] = WithCancel(rest, req[s], after)
      /\ b => packet.item > 0
      /\ server' = server
  BY DEF ResponseArrives, TypeOK
<1>8. /\ wire'[s].from = Tail(wire[s].from) /\ (wire'[s].up <=> wire[s].up)
      /\ wire'[s].mute <=> wire[s].mute
  <2> HIDE DEF rest, after
  <2> QED BY <1>2, <1>7, WithCancelKeepsAnswer
<1> HIDE DEF after
<1> QED BY <1>1, <1>2, <1>5, <1>6, <1>7, <1>8

LEMMA TryKeepsAnswers ==
    ASSUME TypeOK, AttemptsInv, ProviderInv, AnswersInv, NEW c \in Calls,
           NEW node \in Nodes \cup {NoNode}, NEW routed \in BOOLEAN,
           call[c].phase \in {"idle", "delay"}, Try(c, node, routed), UNCHANGED <<wire, server>>
    PROVE  AnswersInv'
<1> DEFINE k == call[c].attempt + 1
           v == [call[c] EXCEPT !.attempt = k, !.node = node, !.got = 0]
           r == <<c, k>>
<1>1. call[c] \in CallType /\ call[c].attempt \in 0..Retry
  BY RpcCallAssumption DEF TypeOK, CallType, AttemptsInv, CallSound
<1>2. k \in 1..(Retry + 1) /\ k > call[c].attempt
  BY <1>1, RpcCallAssumption
<1>3. r \in Requests /\ r[1] = c /\ r[2] = k
  BY <1>2, RequestPairs
<1>4. req[r] = Unused
  BY <1>2, <1>3 DEF AttemptsInv
<1>5. v \in CallType /\ v.attempt = k /\ v.got = 0
  <2>1. k \in 0..(Retry + 1)
    BY <1>2
  <2> HIDE DEF k
  <2>2. v \in CallType
    BY <1>1, <2>1, TriedType
  <2> QED BY <1>1, <2>2 DEF CallType
<1>6. ASSUME NEW x \in Requests PROVE MadeSound(server'[x]) /\ Unanswered(x)'
  <2>1. MadeSound(server[x]) /\ Unanswered(x)
    BY DEF AnswersInv
  <2>2. CASE req'[x] = req[x]
    BY <2>1, <2>2 DEF Unanswered
  <2>3. CASE req'[x] # req[x]
    <3>1. x = r
      BY <2>3 DEF Try, TypeOK
    <3> QED BY <1>4, <2>1, <3>1 DEF Unanswered, Unused
  <2> QED BY <2>2, <2>3
<1>7. ASSUME NEW d \in Calls \ {c}, call'[d].phase = "open" PROVE Owed(d)'
  <2>1. call'[d] = call[d]
    BY DEF Try, TypeOK
  <2>2. Owed(d) /\ Current(d) \in Requests /\ Current(d)[1] = d /\ Current(d)' = Current(d)
    BY <1>7, <2>1, CurrentIsRequest DEF AnswersInv, Current
  <2>3. Current(d) # r
    BY <1>3, <2>2
  <2>4. req'[Current(d)] = req[Current(d)]
    BY <2>2, <2>3 DEF Try, TypeOK
  <2> QED BY <2>1, <2>2, <2>4 DEF Owed
<1>8. ASSUME call'[c].phase = "open" PROVE Owed(c)'
  <2>1. routed
    <3>1. ASSUME ~routed PROVE FALSE
      <4>1. call'[c] = Failed(v, "offline")
        BY <3>1 DEF Try, TypeOK
      <4> HIDE DEF v
      <4> QED BY <1>5, <1>8, <4>1, FailedSound DEF Codes
    <3> QED BY <3>1
  <2>2. call'[c] = [v EXCEPT !.phase = "open"]
    BY <2>1 DEF Try, TypeOK
  <2>3. call'[c].attempt = k /\ call'[c].got = 0
    <3> HIDE DEF v, k
    <3> QED BY <1>5, <2>2 DEF CallType
  <2>4. Current(c)' = r
    BY <2>3 DEF Current
  <2>5. wire[r] \in WireType /\ wire[r].up /\ wire[r].from = <<>> /\ server[r] = Unserved
    <3>1. req[r].send = "none"
      BY <1>4 DEF Unused
    <3> QED BY <1>3, <3>1 DEF AnswersInv, Unanswered, ProviderInv, ArrivesOnce, TypeOK
  <2>6. AnswerSound(wire[r], server[r], req'[r].send, 0)
    <3> HIDE DEF r
    <3> QED BY <2>5, FreshSound
  <2> HIDE DEF r
  <2> QED BY <2>3, <2>4, <2>6 DEF Owed
<1> QED BY <1>6, <1>7, <1>8 DEF AnswersInv

LEMMA GiveUpKeepsAnswers ==
    ASSUME TypeOK, AttemptsInv, AnswersInv, NEW c \in Calls, NEW how, call[c].phase = "open",
           GiveUp(c, how), UNCHANGED server
    PROVE  AnswersInv'
<1>1. PICK r \in Requests : r = Current(c) /\ r[1] = c
  BY CurrentIsRequest
<1>2. Unanswered(r)'
  <2>1. Unanswered(r)
    BY DEF AnswersInv
  <2> QED BY <1>1, <2>1, GiveUpEffect DEF Unanswered
<1>3. call' = [call EXCEPT ![c] = [call[c] EXCEPT !.phase = "over", !.outcome = how]]
  BY GiveUpEffect
<1>4. call'[c].phase = "over" /\ \A d \in Calls \ {c} : call'[d] = call[d]
  BY <1>3 DEF TypeOK, CallType
<1>5. \A x \in Requests \ {r} : req'[x] = req[x] /\ wire'[x] = wire[x]
  BY <1>1, GiveUpEffect
<1> QED BY <1>1, <1>2, <1>4, <1>5, CallerMovesAnswers

LEMMA OfflineKeepsAnswers ==
    ASSUME TypeOK, AttemptsInv, AnswersInv, NEW n \in Nodes, NodeOffline(n)
    PROVE  AnswersInv'
<1>1. \A r \in Requests : req'[r].send = req[r].send
  <2> SUFFICES ASSUME NEW r \in Requests PROVE req'[r].send = req[r].send
    OBVIOUS
  <2>1. req'[r] = Teardown(Finished(req[r])) \/ req'[r] = req[r]
    BY DEF NodeOffline
  <2>2. Teardown(Finished(req[r])).send = req[r].send
    <3>1. Finished(req[r]) \in ReqType /\ Finished(req[r]).send = req[r].send
      BY RequestRecordTypes, RecordsKeepNode DEF TypeOK
    <3> QED BY <3>1, RecordsKeepNode
  <2> QED BY <2>1, <2>2
<1>2. UNCHANGED <<wire, server>>
  BY DEF NodeOffline
<1>3. ASSUME NEW c \in Calls, call'[c].phase = "open" PROVE Owed(c)'
  <2>1. call'[c] = call[c]
    <3>1. call'[c] = Failed(call[c], "offline") \/ call'[c] = call[c]
      BY DEF NodeOffline
    <3>2. Failed(call[c], "offline").phase # "open"
      BY FailedSound DEF TypeOK, Codes
    <3> QED BY <1>3, <3>1, <3>2
  <2>2. Owed(c) /\ Current(c) \in Requests /\ Current(c)' = Current(c)
    BY <1>3, <2>1, CurrentIsRequest DEF AnswersInv, Current
  <2> QED BY <1>1, <1>2, <2>1, <2>2 DEF Owed
<1> QED BY <1>1, <1>2, <1>3 DEF AnswersInv, Unanswered

LEMMA ResponseKeepsAnswers ==
    ASSUME TypeOK, AttemptsInv, AnswersInv, NEW s \in Requests, NEW b \in BOOLEAN,
           ResponseArrives(s, b)
    PROVE  AnswersInv'
<1>1. PICK packet \in Responses : packet = Head(wire[s].from)
  BY ResponseEffect
<1>2. Unanswered(s)'
  BY ResponseEffect DEF Unanswered
<1>3. /\ \A x \in Requests \ {s} : req'[x] = req[x] /\ wire'[x] = wire[x]
      /\ UNCHANGED server
  BY ResponseEffect
<1>4. s[1] \in Calls /\ call[s[1]] \in CallType /\ CallSound(call[s[1]])
  BY RequestPairs DEF TypeOK, AttemptsInv
<1>5. CASE ~req[s].known
  <2>1. call' = call
    BY <1>5, ResponseEffect
  <2>2. call[s[1]].phase = "open" => s # Current(s[1])
    BY <1>4, <1>5, CurrentIsRequest
  <2> QED BY <1>2, <1>3, <2>1, <2>2, CallerMovesAnswers
<1>6. CASE req[s].known
  <2>1. call[s[1]].phase = "open" /\ s = Current(s[1])
    BY <1>6, RequestPairs DEF AttemptsInv, Current
  <2>2. call' = [call EXCEPT ![s[1]] = Seen(call[s[1]], packet, b)]
    BY <1>1, <1>6, ResponseEffect
  <2>3. /\ call'[s[1]] = Seen(call[s[1]], packet, b)
        /\ \A d \in Calls \ {s[1]} : call'[d] = call[d]
    BY <1>4, <2>2 DEF TypeOK
  <2>4. CASE b \/ Terminal(packet)
    <3>1. call'[s[1]].phase # "open"
      BY <1>4, <2>3, <2>4, SeenSound
    <3> QED BY <1>2, <1>3, <2>3, <3>1, CallerMovesAnswers
  <2>5. CASE ~b /\ ~Terminal(packet)
    <3>1. /\ AnswerSound(wire[s], server[s], "settled", call[s[1]].got)
          /\ call[s[1]].got \in Nat
      BY <1>4, <2>1, CurrentIsRequest, ResponseEffect DEF AnswersInv, Owed
    <3>2. /\ wire[s] \in WireType /\ server[s] \in ServerType
          /\ wire[s].from # <<>> /\ ~Terminal(Head(wire[s].from))
          /\ wire'[s].from = Tail(wire[s].from) /\ (wire'[s].up <=> wire[s].up)
          /\ wire'[s].mute <=> wire[s].mute
      BY <1>1, <2>5, ResponseEffect DEF TypeOK
    <3>3. AnswerSound(wire'[s], server[s], "settled", call[s[1]].got + 1)
      BY <3>1, <3>2, PacketReadSound
    <3>4. packet.item = call[s[1]].got + 1
      <4>1. Fits(packet, call[s[1]].got + 1, server[s].made, server[s].whole)
        BY <1>1, <3>1, <3>2, NextPacketFits
      <4> QED BY <2>5, <4>1 DEF Fits, Terminal
    <3>5. Seen(call[s[1]], packet, b) = [call[s[1]] EXCEPT !.got = packet.item]
      <4>1. packet.item > 0
        BY <3>1, <3>4
      <4>2. packet.end = "none"
        BY <2>5 DEF Terminal
      <4> QED BY <2>5, <4>1, <4>2 DEF Seen, Codes
    <3>6. /\ call'[s[1]].got = call[s[1]].got + 1
          /\ call'[s[1]].attempt = call[s[1]].attempt
      BY <1>4, <2>3, <3>4, <3>5 DEF CallType
    <3>7. req'[s].send = "settled"
      BY ResponseEffect
    <3> QED BY <1>2, <1>3, <2>1, <2>3, <3>3, <3>6, <3>7, CallerMovesAnswers
  <2> QED BY <2>4, <2>5
<1> QED BY <1>5, <1>6

\* A rejected send() ends the attempt, if it goes on.
LEMMA RejectionEffect ==
    ASSUME TypeOK, AttemptsInv, NEW s \in Requests, NEW code \in Codes, SendRejects(s, code)
    PROVE  /\ \A x \in Requests \ {s} : req'[x] = req[x]
           /\ req'[s].send = "failed"
           /\ ~req[s].known => call' = call
           /\ req[s].known => call' = [call EXCEPT ![s[1]] = Failed(call[s[1]], code)]
<1>1. req[s] \in ReqType
  BY DEF TypeOK
<1> DEFINE p == [req[s] EXCEPT !.send = "failed"]
<1>2. p \in ReqType /\ p.send = "failed"
  BY <1>1, RequestRecordTypes DEF ReqType
<1>3. /\ req' = [req EXCEPT ![s] = Teardown(Finished(p))]
      /\ ~req[s].known => call' = call
      /\ req[s].known => call' = [call EXCEPT ![s[1]] = Failed(call[s[1]], code)]
  BY DEF SendRejects, RejectionFails
<1> HIDE DEF p
<1>4. Finished(p) \in ReqType /\ Finished(p).send = "failed"
  BY <1>2, RequestRecordTypes, RecordsKeepNode
<1>5. Teardown(Finished(p)).send = "failed"
  BY <1>4, RecordsKeepNode
<1>6. /\ \A x \in Requests \ {s} : req'[x] = req[x]
      /\ req'[s] = Teardown(Finished(p))
  BY <1>3 DEF TypeOK
<1> QED BY <1>3, <1>5, <1>6

LEMMA CallerKeepsAnswers ==
    ASSUME TypeOK, AttemptsInv, ProviderInv, AnswersInv, CallerStep
    PROVE  AnswersInv'
<1>1. ASSUME NEW c \in Calls, NEW n \in Nodes \cup {NoNode}, NEW b \in BOOLEAN, Subscribe(c, n, b)
      PROVE  AnswersInv'
  BY <1>1, TryKeepsAnswers DEF Subscribe
<1>2. ASSUME NEW c \in Calls, NEW b \in BOOLEAN, RetryTimer(c, b) PROVE AnswersInv'
  <2>1. call[c].node \in Nodes \cup {NoNode}
    BY DEF TypeOK, CallType
  <2> QED BY <1>2, <2>1, TryKeepsAnswers DEF RetryTimer
<1>3. ASSUME NEW c \in Calls, Timeout(c) PROVE AnswersInv'
  BY <1>3, GiveUpKeepsAnswers DEF Timeout, TimeoutArmed
<1>4. ASSUME NEW c \in Calls, Unsubscribe(c) PROVE AnswersInv'
  <2>1. CASE call[c].phase = "open" /\ GiveUp(c, "left")
    BY <1>4, <2>1, GiveUpKeepsAnswers DEF Unsubscribe
  <2>2. CASE ~(call[c].phase = "open" /\ GiveUp(c, "left"))
    <3>1. /\ UNCHANGED <<req, wire, server>>
          /\ call' = [call EXCEPT ![c] = [call[c] EXCEPT !.phase = "over", !.outcome = "left"]]
      BY <1>4, <2>2 DEF Unsubscribe
    <3>2. call'[c].phase = "over" /\ \A d \in Calls \ {c} : call'[d] = call[d]
      BY <3>1 DEF TypeOK, CallType
    <3>3. ASSUME NEW d \in Calls, call'[d].phase = "open" PROVE Owed(d)'
      <4>1. call'[d] = call[d] /\ Owed(d)
        BY <3>2, <3>3 DEF AnswersInv
      <4> QED BY <3>1, <4>1 DEF Owed, Current
    <3> QED BY <3>1, <3>3 DEF AnswersInv, Unanswered
  <2> QED BY <2>1, <2>2
<1>5. ASSUME NEW r \in Requests, NEW n \in Nodes, RequestLeaves(r, n) PROVE AnswersInv'
  <2>1. /\ wire[r] \in WireType /\ req[r] \in ReqType /\ req[r].send = "sending"
        /\ req'[r] = [req[r] EXCEPT !.send = "left"]
        /\ wire'[r] = [wire[r] EXCEPT !.to = <<"request">>, !.carrier = n]
        /\ \A x \in Requests \ {r} : req'[x] = req[x] /\ wire'[x] = wire[x]
        /\ UNCHANGED <<call, server>>
    BY <1>5 DEF RequestLeaves, TypeOK
  <2>2. /\ req'[r].send = "left" /\ wire'[r].from = wire[r].from
        /\ (wire'[r].up <=> wire[r].up) /\ (wire'[r].mute <=> wire[r].mute)
    BY <2>1 DEF WireType, ReqType
  <2>3. Unanswered(r)'
    BY <2>2 DEF Unanswered
  <2>4. ASSUME call[r[1]].phase = "open", r = Current(r[1])
        PROVE  AnswerSound(wire'[r], server[r], req'[r].send, call[r[1]].got)
    <3>1. AnswerSound(wire[r], server[r], req[r].send, call[r[1]].got)
      BY <2>4, RequestPairs DEF AnswersInv, Owed
    <3> QED BY <2>2, <3>1, WireMovesSound
  <2> QED BY <2>1, <2>3, <2>4, CallerMovesAnswers
<1>6. ASSUME NEW r \in Requests, NEW b \in BOOLEAN, SendResolves(r, b) PROVE AnswersInv'
  <2> DEFINE q == LateCancel(req[r])
             m == IF b THEN [q EXCEPT !.node = wire[r].carrier] ELSE q
  <2>1. q \in ReqType /\ q.send = "settled" /\ wire[r] \in WireType /\ req[r] \in ReqType
    BY RequestRecordTypes, RecordsKeepNode DEF TypeOK
  <2>2. /\ req[r].send = "left" /\ (wire[r].up \/ wire[r].mute) /\ req'[r] = m
        /\ wire'[r] = WithCancel(wire[r], req[r], q)
        /\ \A x \in Requests \ {r} : req'[x] = req[x] /\ wire'[x] = wire[x]
        /\ UNCHANGED <<call, server>>
    BY <1>6 DEF SendResolves, TypeOK
  <2>3. m.send = "settled"
    <3> HIDE DEF q
    <3> QED BY <2>1 DEF ReqType
  <2> HIDE DEF m, q
  <2>4. /\ wire'[r].from = wire[r].from /\ (wire'[r].up <=> wire[r].up) /\ Unanswered(r)'
        /\ wire'[r].mute <=> wire[r].mute
    BY <2>1, <2>2, <2>3, WithCancelKeepsAnswer DEF Unanswered
  <2>5. ASSUME call[r[1]].phase = "open", r = Current(r[1])
        PROVE  AnswerSound(wire'[r], server[r], req'[r].send, call[r[1]].got)
    <3>1. AnswerSound(wire[r], server[r], req[r].send, call[r[1]].got)
      BY <2>5, RequestPairs DEF AnswersInv, Owed
    <3> QED BY <2>2, <2>4, <3>1, WireMovesSound
  <2> QED BY <2>2, <2>4, <2>5, CallerMovesAnswers
<1>7. ASSUME NEW r \in Requests, NEW code \in Codes, SendRejects(r, code) PROVE AnswersInv'
  <2>1. Unanswered(r)' /\ UNCHANGED <<wire, server>>
    BY <1>7, RejectionEffect DEF Unanswered, SendRejects
  <2>2. /\ \A x \in Requests \ {r} : req'[x] = req[x] /\ wire'[x] = wire[x]
        /\ \A d \in Calls \ {r[1]} : call'[d] = call[d]
    BY <1>7, <2>1, RejectionEffect DEF TypeOK
  <2>3. r[1] \in Calls
    BY RequestPairs
  <2>4. CASE req[r].known
    <3>1. call'[r[1]] = Failed(call[r[1]], code)
      BY <1>7, <2>3, <2>4, RejectionEffect DEF TypeOK
    <3>2. call'[r[1]].phase # "open"
      BY <2>3, <3>1, FailedSound DEF TypeOK
    <3> QED BY <2>1, <2>2, <3>2, CallerMovesAnswers
  <2>5. CASE ~req[r].known
    <3>1. call' = call
      BY <1>7, <2>5, RejectionEffect
    <3>2. call[r[1]].phase = "open" => r # Current(r[1])
      BY <2>3, <2>5, CurrentIsRequest
    <3> QED BY <2>1, <2>2, <3>1, <3>2, CallerMovesAnswers
  <2> QED BY <2>4, <2>5
<1>8. ASSUME NEW r \in Requests, NEW b \in BOOLEAN, ResponseArrives(r, b) PROVE AnswersInv'
  BY <1>8, ResponseKeepsAnswers
<1>9. ASSUME NEW n \in Nodes, NodeOffline(n) PROVE AnswersInv'
  BY <1>9, OfflineKeepsAnswers
<1>10. ASSUME NEW r \in Requests, NEW k \in 0..(MaxItems + 1), NEW b \in BOOLEAN,
              LinkLost(r, k, b) PROVE AnswersInv'
  <2> DEFINE kept == SubSeq(wire[r].from, 1, k)
             told == ~b /\ req[r].send = "settled" /\ \A i \in 1..k : ~Terminal(kept[i])
             from == IF told THEN Append(kept, Response(0, "offline")) ELSE kept
  <2>0. wire' = [wire EXCEPT ![r] =
                    [wire[r] EXCEPT !.up = FALSE, !.mute = b, !.to = <<>>, !.from = from]]
    BY <1>10 DEF LinkLost
  <2> HIDE DEF kept, told, from
  <2>1. /\ wire[r] \in WireType /\ wire[r].up /\ wire[r].carrier # NoNode
        /\ k \in Nat /\ k <= Len(wire[r].from)
        /\ wire'[r] = [wire[r] EXCEPT !.up = FALSE, !.mute = b, !.to = <<>>, !.from = from]
        /\ \A x \in Requests \ {r} : wire'[x] = wire[x]
        /\ UNCHANGED <<call, req, server>>
    <3>1. /\ wire[r] \in WireType /\ wire[r].up /\ wire[r].carrier # NoNode
          /\ k <= Len(wire[r].from) /\ UNCHANGED <<call, req, server>>
      BY <1>10 DEF LinkLost, TypeOK
    <3>2. k \in Nat
      BY RpcCallAssumption
    <3>3. PICK w : w = [wire[r] EXCEPT !.up = FALSE, !.mute = b, !.to = <<>>, !.from = from]
      OBVIOUS
    <3>4. wire'[r] = w /\ \A x \in Requests \ {r} : wire'[x] = wire[x]
      BY <2>0, <3>3 DEF TypeOK
    <3> QED BY <3>1, <3>2, <3>3, <3>4
  <2>2. ~wire'[r].up /\ wire'[r].mute = b /\ wire'[r].from = from
    BY <2>1 DEF WireType
  <2>3. Unanswered(r)'
    BY <2>1 DEF AnswersInv, Unanswered
  <2>4. ASSUME call[r[1]].phase = "open", r = Current(r[1])
        PROVE  AnswerSound(wire'[r], server[r], req[r].send, call[r[1]].got)
    <3>1. AnswerSound(wire[r], server[r], req[r].send, call[r[1]].got)
            /\ call[r[1]].got \in Nat /\ server[r] \in ServerType
      BY <2>4, RequestPairs, CurrentIsRequest DEF AnswersInv, Owed, TypeOK
    <3>2. PICK v : v = wire'[r]
      OBVIOUS
    <3>3. ~v.up /\ v.from = IF ~v.mute /\ req[r].send = "settled"
                                 /\ \A i \in 1..k : ~Terminal(SubSeq(wire[r].from, 1, k)[i])
                            THEN Append(SubSeq(wire[r].from, 1, k), Response(0, "offline"))
                            ELSE SubSeq(wire[r].from, 1, k)
      BY <2>2, <3>2 DEF from, told, kept
    <3>4. AnswerSound(v, server[r], req[r].send, call[r[1]].got)
      BY <2>1, <3>1, <3>3, LossSound
    <3> QED BY <3>2, <3>4
  <2> QED BY <2>1, <2>3, <2>4, CallerMovesAnswers
<1> QED
  BY <1>1, <1>2, <1>3, <1>4, <1>5, <1>6, <1>7, <1>8, <1>9, <1>10 DEF CallerStep

\* A request that the provider has to do with has left.
LEMMA ServedHasLeft ==
    ASSUME ProviderInv, NEW s \in Requests,
           wire[s].to # <<>> \/ server[s].phase # "none"
    PROVE  req[s].send \notin {"none", "sending"}
  BY DEF ProviderInv, ArrivesOnce, Unserved

LEMMA ProviderKeepsAnswers ==
    ASSUME TypeOK, TypeOK', AttemptsInv, ProviderInv, AnswersInv, ProviderStep
    PROVE  AnswersInv'
<1>1. \A s \in Requests : /\ server[s] \in ServerType /\ server'[s] \in ServerType
                          /\ wire[s] \in WireType /\ wire'[s] \in WireType
                          /\ HandlerSound(server[s]) /\ MadeSound(server[s])
  BY DEF TypeOK, ProviderInv, AnswersInv
<1>0. \A s \in Requests : server[s].made \in Nat /\ server'[s].made \in Nat
  BY <1>1, RpcCallAssumption DEF ServerType
<1>2. ASSUME NEW s \in Requests, NEW b \in BOOLEAN, RequestArrives(s, b) PROVE AnswersInv'
  <2>1. /\ \A x \in Requests \ {s} : server'[x] = server[x] /\ wire'[x] = wire[x]
        /\ UNCHANGED <<call, req>> /\ wire[s].to # <<>>
        /\ wire'[s] = [wire[s] EXCEPT !.to = Tail(wire[s].to)]
    BY <1>2 DEF RequestArrives, TypeOK
  <2>2. /\ wire'[s].from = wire[s].from /\ (wire'[s].up <=> wire[s].up)
        /\ wire'[s].mute <=> wire[s].mute
    BY <1>1, <2>1 DEF WireType
  <2>3. server[s].phase = "none"
    <3>1. wire[s].to \in Seq({"request", "cancel"}) /\ wire[s].to # <<>> /\ Head(wire[s].to) = "request"
      BY <1>1, <1>2 DEF RequestArrives, WireType
    <3>2. 1 \in 1..Len(wire[s].to) /\ wire[s].to[1] = "request"
      BY <3>1, EmptySeq
    <3> QED BY <3>2 DEF ProviderInv, ArrivesOnce
  <2>4. server[s].made = 0 /\ ~server[s].whole
    BY <1>1, <2>3 DEF MadeSound
  <2>5. MadeSound(server'[s])
          /\ \A got \in Nat : AnswerSound(wire[s], server[s], req[s].send, got)
                                => AnswerSound(wire[s], server'[s], req[s].send, got)
    <3>1. CASE b
      <4>1. server'[s] = [server[s] EXCEPT !.phase = "invoking"]
        BY <1>2, <3>1 DEF RequestArrives, TypeOK
      <4>2. /\ server'[s].phase = "invoking" /\ server'[s].queue = server[s].queue
            /\ server'[s].made = server[s].made /\ (server'[s].whole <=> server[s].whole)
            /\ (server'[s].poisoned <=> server[s].poisoned)
        BY <1>1, <4>1 DEF ServerType
      <4>3. PICK h \in ServerType : h = server'[s]
        BY <1>1
      <4> QED BY <1>1, <2>3, <2>4, <4>2, <4>3, HandlerWaitsSound DEF MadeSound
    <3>2. CASE ~b
      <4>1. PICK packet \in Responses : packet = Response(0, "error")
        BY ResponseType, RpcCallAssumption DEF Codes
      <4>2. server'[s] = [server[s] EXCEPT !.phase = "over", !.queue = <<packet>>]
        BY <1>2, <3>2, <4>1 DEF RequestArrives, TypeOK
      <4>3. /\ server'[s].phase = "over" /\ server'[s].queue = <<packet>>
            /\ server'[s].made = server[s].made /\ (server'[s].whole <=> server[s].whole)
            /\ (server'[s].poisoned <=> server[s].poisoned)
        BY <1>1, <4>2 DEF ServerType
      <4>4. PICK h \in ServerType : h = server'[s]
        BY <1>1
      <4>5. Fits(packet, 1, h.made, h.whole)
        BY <4>1 DEF Fits, Response
      <4> QED BY <1>1, <2>3, <4>3, <4>4, <4>5, OneReplySound DEF MadeSound
    <3> QED BY <3>1, <3>2
  <2>6. \A got \in Nat : AnswerSound(wire[s], server'[s], req[s].send, got)
                           => AnswerSound(wire'[s], server'[s], req[s].send, got)
    BY <2>2, WireMovesSound
  <2> QED BY <2>1, <2>5, <2>6, ServedHasLeft, HandlerMovesAnswers
<1>3. ASSUME NEW s \in Requests, MethodReturns(s) PROVE AnswersInv'
  <2>1. /\ \A x \in Requests \ {s} : server'[x] = server[x] /\ wire'[x] = wire[x]
        /\ UNCHANGED <<call, req, wire>> /\ server[s].phase = "invoking"
    BY <1>3 DEF MethodReturns, TypeOK
  <2>2. PICK packet \in Responses : packet = Response(1, "completed")
    BY ResponseType, RpcCallAssumption
  <2>3. server'[s] = [server[s] EXCEPT !.phase = "over", !.made = 1, !.whole = TRUE,
                                       !.queue = <<packet>>]
    BY <1>3, <2>2 DEF MethodReturns, TypeOK
  <2>4. /\ server'[s].phase = "over" /\ server'[s].queue = <<packet>>
        /\ server'[s].made = 1 /\ server'[s].whole
        /\ (server'[s].poisoned <=> server[s].poisoned)
    BY <1>1, <2>3 DEF ServerType
  <2>5. PICK h \in ServerType : h = server'[s]
    BY <1>1
  <2>6. Fits(packet, 1, h.made, h.whole)
    BY <2>2, <2>4, <2>5 DEF Fits, Response, Codes
  <2>7. MadeSound(server'[s])
    BY <2>4 DEF MadeSound
  <2>8. \A got \in Nat : AnswerSound(wire[s], server[s], req[s].send, got)
                           => AnswerSound(wire[s], server'[s], req[s].send, got)
    BY <1>1, <2>1, <2>4, <2>5, <2>6, OneReplySound
  <2> QED BY <2>1, <2>7, <2>8, ServedHasLeft, HandlerMovesAnswers
<1>4. ASSUME NEW s \in Requests, NEW code \in Codes, MethodFails(s, code) PROVE AnswersInv'
  <2>1. /\ \A x \in Requests \ {s} : server'[x] = server[x] /\ wire'[x] = wire[x]
        /\ UNCHANGED <<call, req, wire>> /\ server[s].phase = "invoking"
    BY <1>4 DEF MethodFails, TypeOK
  <2>2. PICK packet \in Responses : packet = Response(0, code)
    BY ResponseType, RpcCallAssumption DEF Codes
  <2>3. server'[s] = [server[s] EXCEPT !.phase = "over", !.queue = <<packet>>]
    BY <1>4, <2>2 DEF MethodFails, TypeOK
  <2>4. /\ server'[s].phase = "over" /\ server'[s].queue = <<packet>>
        /\ (server'[s].poisoned <=> server[s].poisoned)
    BY <1>1, <2>3 DEF ServerType
  <2>5. PICK h \in ServerType : h = server'[s]
    BY <1>1
  <2>6. Fits(packet, 1, h.made, h.whole)
    BY <2>2 DEF Fits, Response, Codes
  <2>7. MadeSound(server'[s])
    BY <2>4 DEF MadeSound
  <2>8. \A got \in Nat : AnswerSound(wire[s], server[s], req[s].send, got)
                           => AnswerSound(wire[s], server'[s], req[s].send, got)
    BY <1>1, <2>1, <2>4, <2>5, <2>6, OneReplySound
  <2> QED BY <2>1, <2>7, <2>8, ServedHasLeft, HandlerMovesAnswers
<1>5. ASSUME NEW s \in Requests, StreamStarts(s) PROVE AnswersInv'
  <2>1. /\ \A x \in Requests \ {s} : server'[x] = server[x] /\ wire'[x] = wire[x]
        /\ UNCHANGED <<call, req, wire>> /\ server[s].phase = "invoking"
        /\ server'[s] = [server[s] EXCEPT !.phase = "live", !.running = TRUE]
    BY <1>5 DEF StreamStarts, TypeOK
  <2>2. /\ server'[s].phase = "live" /\ server'[s].queue = server[s].queue
        /\ server'[s].made = server[s].made /\ (server'[s].whole <=> server[s].whole)
        /\ (server'[s].poisoned <=> server[s].poisoned)
    BY <1>1, <2>1 DEF ServerType
  <2>3. PICK h \in ServerType : h = server'[s]
    BY <1>1
  <2>4. MadeSound(server'[s])
    BY <1>1, <2>1, <2>2 DEF MadeSound
  <2>5. \A got \in Nat : AnswerSound(wire[s], server[s], req[s].send, got)
                           => AnswerSound(wire[s], server'[s], req[s].send, got)
    BY <1>1, <2>1, <2>2, <2>3, HandlerWaitsSound
  <2> QED BY <2>1, <2>4, <2>5, ServedHasLeft, HandlerMovesAnswers
<1>6. ASSUME NEW s \in Requests, StreamEmits(s) PROVE AnswersInv'
  <2>1. /\ \A x \in Requests \ {s} : server'[x] = server[x] /\ wire'[x] = wire[x]
        /\ UNCHANGED <<call, req, wire>> /\ server[s].phase = "live"
    BY <1>6 DEF StreamEmits, TypeOK
  <2>2. PICK n \in 1..MaxItems : n = server[s].made + 1
    BY <1>1, <1>6, RpcCallAssumption DEF StreamEmits, ServerType
  <2>3. PICK packet \in Responses : packet = Response(n, "none")
    BY <2>2, ResponseType, RpcCallAssumption
  <2>4. PICK e \in ServerType : e = Enqueue(server[s], packet)
    BY <1>1, EnqueueType
  <2>5. server'[s] = [e EXCEPT !.made = n]
    BY <1>6, <2>2, <2>3, <2>4 DEF StreamEmits, TypeOK
  <2>6. /\ e.phase = "live" /\ (e.poisoned <=> server[s].poisoned)
        /\ ~server[s].poisoned => e.queue = Append(server[s].queue, packet)
        /\ (e.whole <=> server[s].whole)
    BY <1>1, <2>1, <2>4, EnqueueSound DEF Enqueue, ServerType
  <2>7. PICK h \in ServerType : h = server'[s]
    BY <1>1
  <2>8. /\ h.phase = "live" /\ (h.poisoned <=> server[s].poisoned) /\ h.made = n
        /\ ~server[s].poisoned => h.queue = Append(server[s].queue, packet)
        /\ (h.whole <=> server[s].whole)
    BY <2>5, <2>6, <2>7 DEF ServerType
  <2>9. Fits(packet, server[s].made + 1, h.made, h.whole) /\ ~Terminal(packet)
    BY <2>2, <2>3, <2>8 DEF Fits, Response, Terminal, Codes
  <2>10. MadeSound(server'[s]) /\ server[s].made <= h.made
    BY <1>0, <1>1, <2>1, <2>2, <2>7, <2>8 DEF MadeSound
  <2>11. \A got \in Nat : AnswerSound(wire[s], server[s], req[s].send, got)
                            => AnswerSound(wire[s], server'[s], req[s].send, got)
    BY <1>1, <2>1, <2>2, <2>7, <2>8, <2>9, <2>10, OneMoreSound
  <2> QED BY <2>1, <2>10, <2>11, ServedHasLeft, HandlerMovesAnswers
<1>7. ASSUME NEW s \in Requests, NEW end \in {"completed"} \cup Codes, StreamEnds(s, end)
      PROVE  AnswersInv'
  <2>1. /\ \A x \in Requests \ {s} : server'[x] = server[x] /\ wire'[x] = wire[x]
        /\ UNCHANGED <<call, req, wire>> /\ server[s].phase = "live"
    BY <1>7 DEF StreamEnds, TypeOK
  <2>2. PICK packet \in Responses : packet = Response(0, end)
    BY ResponseType, RpcCallAssumption
  <2>3. PICK e \in ServerType : e = Enqueue(server[s], packet)
    BY <1>1, EnqueueType
  <2>4. PICK whole \in BOOLEAN : whole = (end = "completed")
    OBVIOUS
  <2>5. PICK running \in BOOLEAN : running = ~server[s].poisoned
    OBVIOUS
  <2>6. server'[s] = [e EXCEPT !.phase = "over", !.whole = whole, !.running = running]
    BY <1>7, <2>2, <2>3, <2>4, <2>5 DEF StreamEnds, TypeOK
  <2>7. /\ (e.poisoned <=> server[s].poisoned) /\ e.made = server[s].made
        /\ ~server[s].poisoned => e.queue = Append(server[s].queue, packet)
    BY <1>1, <2>1, <2>3, EnqueueSound DEF Enqueue, ServerType
  <2>8. PICK h \in ServerType : h = server'[s]
    BY <1>1
  <2>9. /\ h.phase = "over" /\ (h.poisoned <=> server[s].poisoned) /\ h.made = server[s].made
        /\ ~server[s].poisoned => h.queue = Append(server[s].queue, packet)
        /\ (h.whole <=> whole)
    BY <2>6, <2>7, <2>8 DEF ServerType
  <2>10. packet.item = 0 /\ packet.end = end
    BY <2>2 DEF Response
  <2>11. Fits(packet, server[s].made + 1, h.made, h.whole)
    BY <2>4, <2>9, <2>10 DEF Fits, Codes
  <2>12. MadeSound(server'[s]) /\ server[s].made <= h.made
    BY <1>0, <1>1, <2>8, <2>9 DEF MadeSound
  <2>13. \A got \in Nat : AnswerSound(wire[s], server[s], req[s].send, got)
                            => AnswerSound(wire[s], server'[s], req[s].send, got)
    BY <1>1, <2>1, <2>8, <2>9, <2>11, <2>12, OneMoreSound
  <2> QED BY <2>1, <2>12, <2>13, ServedHasLeft, HandlerMovesAnswers
<1>8. ASSUME NEW s \in Requests, NEW b \in BOOLEAN, ReplySends(s, b) PROVE AnswersInv'
  <2>1. /\ \A x \in Requests \ {s} : server'[x] = server[x] /\ wire'[x] = wire[x]
        /\ UNCHANGED <<call, req>> /\ server[s].queue # <<>>
        /\ IF b THEN ~wire[s].mute ELSE ~wire[s].up
    BY <1>8 DEF ReplySends, TypeOK
  <2>2. PICK queue \in Seq(Responses) : queue = server[s].queue
    BY <1>1 DEF ServerType
  <2>3. PICK running \in BOOLEAN : running = (server[s].running /\ ~Terminal(Head(queue)))
    OBVIOUS
  <2>4. server'[s] = [server[s] EXCEPT !.queue = Tail(queue), !.running = running]
    BY <1>8, <2>2, <2>3 DEF ReplySends, TypeOK, TakeFirst
  <2>5. PICK h \in ServerType : h = server'[s]
    BY <1>1
  <2>6. /\ h.phase = server[s].phase /\ h.queue = Tail(server[s].queue)
        /\ h.made = server[s].made /\ (h.whole <=> server[s].whole)
        /\ (h.poisoned <=> server[s].poisoned)
    BY <1>1, <2>2, <2>4, <2>5 DEF ServerType
  <2>7. \/ /\ b
           /\ wire' = [wire EXCEPT ![s] =
                         [wire[s] EXCEPT !.from = Append(wire[s].from, Head(queue))]]
        \/ ~b /\ wire' = wire
    BY <1>8, <2>2 DEF ReplySends, TakeFirst
  <2>8. PICK from : from = Append(wire[s].from, Head(queue))
    OBVIOUS
  <2>9. PICK v \in WireType : v = wire'[s]
    BY <1>1
  <2>10. \/ b /\ v = [wire[s] EXCEPT !.from = from]
         \/ ~b /\ v = wire[s]
    BY <2>7, <2>8, <2>9 DEF TypeOK
  <2>11. /\ (v.up <=> wire[s].up) /\ (v.mute <=> wire[s].mute)
         /\ \/ v.from = from /\ ~wire[s].mute
            \/ v.from = wire[s].from /\ ~wire[s].up
    BY <1>1, <2>1, <2>10 DEF WireType
  <2>12. server[s].phase \notin {"none", "invoking"}
    BY <1>1, <2>1 DEF HandlerSound
  <2>13. MadeSound(server'[s])
    BY <1>1, <2>5, <2>6 DEF MadeSound
  <2>14. \A got \in Nat : AnswerSound(wire[s], server[s], req[s].send, got)
                            => AnswerSound(wire'[s], server'[s], req[s].send, got)
    BY <1>1, <2>1, <2>2, <2>5, <2>6, <2>8, <2>9, <2>11, <2>12, ReplySentSound
  <2> QED BY <2>1, <2>12, <2>13, <2>14, ServedHasLeft, HandlerMovesAnswers
<1>9. ASSUME NEW s \in Requests, ReplyFails(s) PROVE AnswersInv'
  <2>1. /\ \A x \in Requests \ {s} : server'[x] = server[x] /\ wire'[x] = wire[x]
        /\ UNCHANGED <<call, req, wire>> /\ server[s].queue # <<>> /\ ~wire[s].up
    BY <1>9 DEF ReplyFails, TypeOK
  <2>2. PICK running \in BOOLEAN : running = (server[s].running /\ server[s].phase = "live")
    OBVIOUS
  <2>3. server'[s] = [server[s] EXCEPT !.queue = <<>>, !.poisoned = TRUE, !.running = running]
    BY <1>9, <2>2 DEF ReplyFails, Poisoned, TypeOK
  <2>4. PICK h \in ServerType : h = server'[s]
    BY <1>1
  <2>5. /\ h.phase = server[s].phase /\ h.made = server[s].made
        /\ (h.whole <=> server[s].whole)
    BY <1>1, <2>3, <2>4 DEF ServerType
  <2>6. MadeSound(server'[s]) /\ server[s].made <= h.made
    BY <1>0, <1>1, <2>4, <2>5 DEF MadeSound
  <2>7. \A got \in Nat : AnswerSound(wire[s], server[s], req[s].send, got)
                           => AnswerSound(wire[s], server'[s], req[s].send, got)
    BY <1>1, <2>1, <2>4, <2>5, <2>6, LostAnswerSound
  <2>8. server[s].phase # "none"
    BY <1>1, <2>1 DEF HandlerSound
  <2> QED BY <2>1, <2>6, <2>7, <2>8, ServedHasLeft, HandlerMovesAnswers
<1>10. ASSUME NEW s \in Requests, CancelArrives(s) PROVE AnswersInv'
  <2>1. /\ \A x \in Requests \ {s} : server'[x] = server[x] /\ wire'[x] = wire[x]
        /\ UNCHANGED <<call, req>> /\ wire[s].to # <<>>
        /\ wire'[s] = [wire[s] EXCEPT !.to = Tail(wire[s].to)]
    BY <1>10 DEF CancelArrives, TypeOK
  <2>2. /\ wire'[s].from = wire[s].from /\ (wire'[s].up <=> wire[s].up)
        /\ wire'[s].mute <=> wire[s].mute
    BY <1>1, <2>1 DEF WireType
  <2>3. \/ server'[s] = [server[s] EXCEPT !.phase = "over", !.running = FALSE, !.cancelSeen = TRUE]
        \/ server'[s] = [server[s] EXCEPT !.cancelSeen = TRUE]
    BY <1>10 DEF CancelArrives, TypeOK
  <2>4. PICK h \in ServerType : h = server'[s]
    BY <1>1
  <2>5. /\ h.phase \in {"over", server[s].phase} /\ h.queue = server[s].queue
        /\ h.made = server[s].made /\ (h.whole <=> server[s].whole)
        /\ (h.poisoned <=> server[s].poisoned)
    BY <1>1, <2>3, <2>4 DEF ServerType
  <2>6. MadeSound(server'[s])
    BY <1>1, <2>4, <2>5 DEF MadeSound
  <2>7. \A got \in Nat : AnswerSound(wire[s], server[s], req[s].send, got)
                           => AnswerSound(wire[s], server'[s], req[s].send, got)
    BY <1>1, <2>4, <2>5, HandlerWaitsSound
  <2>8. \A got \in Nat : AnswerSound(wire[s], server'[s], req[s].send, got)
                           => AnswerSound(wire'[s], server'[s], req[s].send, got)
    BY <2>2, WireMovesSound
  <2> QED BY <2>1, <2>6, <2>7, <2>8, ServedHasLeft, HandlerMovesAnswers
<1> QED
  BY <1>2, <1>3, <1>4, <1>5, <1>6, <1>7, <1>8, <1>9, <1>10 DEF ProviderStep

PromiseInv == TypeOK /\ AttemptsInv /\ ProviderInv /\ AnswersInv

LEMMA PromiseInvStep == PromiseInv /\ [Next]_vars => PromiseInv'
<1> SUFFICES ASSUME PromiseInv, [Next]_vars PROVE PromiseInv'
  OBVIOUS
<1>1. TypeOK' /\ AttemptsInv'
  BY InvStep DEF PromiseInv
<1>2. CASE CallerStep
  BY <1>1, <1>2, CallerKeepsProvider, CallerKeepsAnswers DEF PromiseInv
<1>3. CASE ProviderStep
  BY <1>1, <1>3, ProviderKeepsProvider, ProviderKeepsAnswers DEF PromiseInv
<1>4. CASE UNCHANGED vars
  BY <1>1, <1>4 DEF PromiseInv, vars, ProviderInv, ArrivesOnce, AnswersInv, Unanswered, Owed, Current
<1> QED BY <1>2, <1>3, <1>4 DEF Next

LEMMA PromiseInvInit == Init => PromiseInv
<1> SUFFICES ASSUME Init PROVE PromiseInv
  OBVIOUS
<1>1. TypeOK /\ AttemptsInv
  BY InitSound
<1>2. ProviderInv
  <2>1. Len(<<>>) = 0
    OBVIOUS
  <2> QED BY <2>1 DEF Init, ProviderInv, ArrivesOnce, HandlerSound, Unsent, Unserved
<1>3. AnswersInv
  <2>1. \A r \in Requests : server[r] = Unserved /\ wire[r] = Unsent
    BY DEF Init
  <2>2. \A c \in Calls : call[c].phase = "idle"
    BY DEF Init
  <2> QED BY <2>1, <2>2 DEF AnswersInv, MadeSound, Unanswered, Unserved, Unsent
<1> QED BY <1>1, <1>2, <1>3 DEF PromiseInv

LEMMA AnswersAreSound == Spec => []PromiseInv
  BY PromiseInvInit, PromiseInvStep, PTL DEF Spec

-----------------------------------------------------------------------------
(* What the promise sees of a state.                                       *)

Phases == [c \in Calls |-> call[c].phase]
Tries == [c \in Calls |-> call[c].attempt]
Makes == [c \in Calls |-> IF call[c].attempt = 0 THEN 0 ELSE server[Current(c)].made]
Wholes == [c \in Calls |-> call[c].attempt > 0 /\ server[Current(c)].whole]
Gots == [c \in Calls |-> call[c].got]
Outcomes == [c \in Calls |-> call[c].outcome]

PromiseNext == [Promise!Next]_<<Phases, Tries, Makes, Wholes, Gots, Outcomes>>

LEMMA AttemptOfPromise ==
    ASSUME NEW c \in Calls, Phases[c] \in {"idle", "delay"}, Tries[c] < Retry + 1,
           Tries' = [Tries EXCEPT ![c] = Tries[c] + 1], Makes' = [Makes EXCEPT ![c] = 0],
           Wholes' = [Wholes EXCEPT ![c] = FALSE], Gots' = [Gots EXCEPT ![c] = 0],
           \/ Phases' = [Phases EXCEPT ![c] = "open"] /\ Outcomes' = Outcomes
           \/ /\ Tries[c] + 1 < Retry + 1
              /\ Phases' = [Phases EXCEPT ![c] = "delay"] /\ Outcomes' = Outcomes
           \/ /\ Tries[c] + 1 = Retry + 1 /\ Phases' = [Phases EXCEPT ![c] = "over"]
              /\ Outcomes' = [Outcomes EXCEPT ![c] = "offline"]
    PROVE  PromiseNext
<1>1. Promise!Attempt(c)
  BY DEF Promise!Attempt, Promise!Ends, Phases, Tries, Makes, Wholes, Gots, Outcomes
<1> QED BY <1>1 DEF PromiseNext, Promise!Next, Promise!Step

LEMMA MakeOfPromise ==
    ASSUME NEW c \in Calls, ~Wholes[c],
           (Makes[c] < MaxItems /\ Makes' = [Makes EXCEPT ![c] = Makes[c] + 1]) \/ Makes' = Makes,
           Wholes' \in {Wholes, [Wholes EXCEPT ![c] = TRUE]},
           Phases' = Phases, Tries' = Tries, Gots' = Gots, Outcomes' = Outcomes
    PROVE  PromiseNext
<1>1. Promise!Make(c)
  BY DEF Promise!Make, Phases, Tries, Makes, Wholes, Gots, Outcomes
<1> QED BY <1>1 DEF PromiseNext, Promise!Next, Promise!Step

LEMMA DeliveryOfPromise ==
    ASSUME NEW c \in Calls, Phases[c] = "open", Gots[c] < Makes[c],
           Gots' = [Gots EXCEPT ![c] = Gots[c] + 1],
           Tries' = Tries, Makes' = Makes, Wholes' = Wholes,
           \/ Phases' = Phases /\ Outcomes' = Outcomes
           \/ /\ Phases' = [Phases EXCEPT ![c] = "over"]
              /\ Outcomes' = [Outcomes EXCEPT ![c] = "left"]
           \/ /\ Wholes[c] /\ Gots[c] + 1 = Makes[c]
              /\ Phases' = [Phases EXCEPT ![c] = "over"]
              /\ Outcomes' = [Outcomes EXCEPT ![c] = "completed"]
    PROVE  PromiseNext
<1>1. Promise!Deliver(c)
  BY DEF Promise!Deliver, Promise!Ends, Phases, Tries, Makes, Wholes, Gots, Outcomes
<1> QED BY <1>1 DEF PromiseNext, Promise!Next, Promise!Step

\* The ends of a call that deliver nothing.
LEMMA EndOfPromise ==
    ASSUME NEW c \in Calls, Gots' = Gots, Tries' = Tries, Makes' = Makes, Wholes' = Wholes,
           NEW how, Phases' = [Phases EXCEPT ![c] = "over"],
           Outcomes' = [Outcomes EXCEPT ![c] = how],
           \/ how = "left" /\ Phases[c] \in {"open", "delay"}
           \/ how = "completed" /\ Phases[c] = "open" /\ Wholes[c] /\ Gots[c] = Makes[c]
           \/ /\ how \in {"error", "offline", "timeout"} /\ Phases[c] = "open"
              /\ how = "offline" => Tries[c] = Retry + 1
    PROVE  PromiseNext
<1>1. CASE how = "left"
  <2>1. Promise!Leave(c)
    BY <1>1 DEF Promise!Leave, Promise!Ends, Phases, Tries, Makes, Wholes, Gots, Outcomes
  <2> QED BY <2>1 DEF PromiseNext, Promise!Next, Promise!Step
<1>2. CASE how = "completed"
  <2>1. Promise!Complete(c)
    BY <1>2 DEF Promise!Complete, Promise!Ends, Phases, Tries, Makes, Wholes, Gots, Outcomes
  <2> QED BY <2>1 DEF PromiseNext, Promise!Next, Promise!Step
<1>3. CASE how \notin {"left", "completed"}
  <2>1. Promise!Fail(c, how) /\ how \in Promise!Failures
    BY <1>3 DEF Promise!Fail, Promise!Failures, Promise!Ends, Phases, Tries, Makes, Wholes,
                Gots, Outcomes
  <2> QED BY <2>1 DEF PromiseNext, Promise!Next, Promise!Step
<1> QED BY <1>1, <1>2, <1>3

LEMMA PauseOfPromise ==
    ASSUME NEW c \in Calls, Phases[c] = "open", Tries[c] < Retry + 1,
           Phases' = [Phases EXCEPT ![c] = "delay"], Tries' = Tries, Makes' = Makes,
           Wholes' = Wholes, Gots' = Gots, Outcomes' = Outcomes
    PROVE  PromiseNext
<1>1. Promise!Pause(c)
  BY DEF Promise!Pause, Phases, Tries, Makes, Wholes, Gots, Outcomes
<1> QED BY <1>1 DEF PromiseNext, Promise!Next, Promise!Step

LEMMA FailuresOfPromise ==
    ASSUME Tries' = Tries, Makes' = Makes, Wholes' = Wholes, Gots' = Gots,
           \A c \in Calls :
              \/ Phases'[c] = Phases[c] /\ Outcomes'[c] = Outcomes[c]
              \/ /\ Phases[c] = "open" /\ Tries[c] < Retry + 1
                 /\ Phases'[c] = "delay" /\ Outcomes'[c] = Outcomes[c]
              \/ /\ Phases[c] = "open" /\ Tries[c] = Retry + 1
                 /\ Phases'[c] = "over" /\ Outcomes'[c] = "offline"
    PROVE  PromiseNext
<1>1. Promise!AllFail
  BY DEF Promise!AllFail, Phases, Tries, Makes, Wholes, Gots, Outcomes
<1> QED BY <1>1 DEF PromiseNext, Promise!Next

LEMMA StutterOfPromise ==
    ASSUME Tries' = Tries, Makes' = Makes, Wholes' = Wholes, Gots' = Gots,
           Phases' = Phases, Outcomes' = Outcomes
    PROVE  PromiseNext
  BY DEF PromiseNext

LEMMA OneChanges ==
    ASSUME NEW D, NEW S, NEW f \in [D -> S], NEW g \in [D -> S], NEW c \in D, NEW e,
           g[c] = e, \A d \in D \ {c} : g[d] = f[d]
    PROVE  g = [f EXCEPT ![c] = e] /\ (e = f[c] => g = f)
  OBVIOUS

\* How a step of one call changes what the promise sees.
LEMMA ViewsOfCall ==
    ASSUME TypeOK, NEW c \in Calls, NEW v \in CallType, call' = [call EXCEPT ![c] = v]
    PROVE  /\ Phases' = [Phases EXCEPT ![c] = v.phase]
           /\ Tries' = [Tries EXCEPT ![c] = v.attempt]
           /\ Gots' = [Gots EXCEPT ![c] = v.got]
           /\ Outcomes' = [Outcomes EXCEPT ![c] = v.outcome]
           /\ v.phase = call[c].phase => Phases' = Phases
           /\ v.attempt = call[c].attempt => Tries' = Tries
           /\ v.got = call[c].got => Gots' = Gots
           /\ v.outcome = call[c].outcome => Outcomes' = Outcomes
           /\ Phases[c] = call[c].phase /\ Tries[c] = call[c].attempt
           /\ Gots[c] = call[c].got /\ Outcomes[c] = call[c].outcome
<1>1. call'[c] = v /\ \A d \in Calls \ {c} : call'[d] = call[d]
  BY DEF TypeOK
<1>3. /\ Phases' = [Phases EXCEPT ![c] = v.phase]
      /\ Phases[c] = call[c].phase
      /\ v.phase = call[c].phase => Phases' = Phases
  <2>1. PICK S : S = {call[d].phase : d \in Calls} \cup {call'[d].phase : d \in Calls}
    OBVIOUS
  <2>2. Phases \in [Calls -> S] /\ Phases' \in [Calls -> S]
    BY <2>1 DEF Phases
  <2>3. Phases[c] = call[c].phase /\ Phases'[c] = v.phase /\ \A d \in Calls \ {c} : Phases'[d] = Phases[d]
    BY <1>1 DEF Phases
  <2> QED BY <2>2, <2>3, OneChanges
<1>4. /\ Tries' = [Tries EXCEPT ![c] = v.attempt]
      /\ Tries[c] = call[c].attempt
      /\ v.attempt = call[c].attempt => Tries' = Tries
  <2>1. PICK S : S = {call[d].attempt : d \in Calls} \cup {call'[d].attempt : d \in Calls}
    OBVIOUS
  <2>2. Tries \in [Calls -> S] /\ Tries' \in [Calls -> S]
    BY <2>1 DEF Tries
  <2>3. Tries[c] = call[c].attempt /\ Tries'[c] = v.attempt /\ \A d \in Calls \ {c} : Tries'[d] = Tries[d]
    BY <1>1 DEF Tries
  <2> QED BY <2>2, <2>3, OneChanges
<1>5. /\ Gots' = [Gots EXCEPT ![c] = v.got]
      /\ Gots[c] = call[c].got
      /\ v.got = call[c].got => Gots' = Gots
  <2>1. PICK S : S = {call[d].got : d \in Calls} \cup {call'[d].got : d \in Calls}
    OBVIOUS
  <2>2. Gots \in [Calls -> S] /\ Gots' \in [Calls -> S]
    BY <2>1 DEF Gots
  <2>3. Gots[c] = call[c].got /\ Gots'[c] = v.got /\ \A d \in Calls \ {c} : Gots'[d] = Gots[d]
    BY <1>1 DEF Gots
  <2> QED BY <2>2, <2>3, OneChanges
<1>6. /\ Outcomes' = [Outcomes EXCEPT ![c] = v.outcome]
      /\ Outcomes[c] = call[c].outcome
      /\ v.outcome = call[c].outcome => Outcomes' = Outcomes
  <2>1. PICK S : S = {call[d].outcome : d \in Calls} \cup {call'[d].outcome : d \in Calls}
    OBVIOUS
  <2>2. Outcomes \in [Calls -> S] /\ Outcomes' \in [Calls -> S]
    BY <2>1 DEF Outcomes
  <2>3. Outcomes[c] = call[c].outcome /\ Outcomes'[c] = v.outcome /\ \A d \in Calls \ {c} : Outcomes'[d] = Outcomes[d]
    BY <1>1 DEF Outcomes
  <2> QED BY <2>2, <2>3, OneChanges
<1> QED BY <1>3, <1>4, <1>5, <1>6

LEMMA ViewsOfSameCalls ==
    ASSUME call' = call
    PROVE  Phases' = Phases /\ Tries' = Tries /\ Gots' = Gots /\ Outcomes' = Outcomes
  BY DEF Phases, Tries, Gots, Outcomes

\* The answers that are made are those of the current requests.
LEMMA ViewsOfSameAnswers ==
    ASSUME TypeOK, \A c \in Calls : call'[c].attempt = call[c].attempt,
           \A r \in Requests : server'[r].made = server[r].made /\ server'[r].whole = server[r].whole
    PROVE  Makes' = Makes /\ Wholes' = Wholes
<1>1. \A c \in Calls : call[c].attempt \in Int /\ (call[c].attempt # 0 => Current(c) \in Requests)
  BY RpcCallAssumption, RequestPairs DEF TypeOK, CallType, Current
<1>2. \A c \in Calls : Current(c)' = Current(c)
  BY DEF Current
<1>3. \A c \in Calls : (IF call'[c].attempt = 0 THEN 0 ELSE server'[Current(c)'].made)
                          = (IF call[c].attempt = 0 THEN 0 ELSE server[Current(c)].made)
  BY <1>1, <1>2
<1>4. \A c \in Calls : (call'[c].attempt > 0 /\ server'[Current(c)'].whole)
                          = (call[c].attempt > 0 /\ server[Current(c)].whole)
  BY <1>1, <1>2
<1> QED BY <1>3, <1>4 DEF Makes, Wholes

-----------------------------------------------------------------------------
(* Every step keeps the promise.                                           *)

LEMMA FailedCall ==
    ASSUME NEW v \in CallType, NEW code \in Codes
    PROVE  /\ Failed(v, code) \in CallType
           /\ Failed(v, code).attempt = v.attempt /\ Failed(v, code).got = v.got
           /\ \/ /\ Failed(v, code).phase = "delay" /\ Failed(v, code).outcome = v.outcome
                 /\ v.attempt <= Retry /\ code = "offline"
              \/ /\ Failed(v, code).phase = "over" /\ Failed(v, code).outcome = code
                 /\ code = "offline" => ~(v.attempt <= Retry)
<1>1. Failed(v, code) \in CallType
  BY FailedType
<1> QED BY <1>1 DEF Failed, MayRetry, CallType

LEMMA TryKeepsPromise ==
    ASSUME PromiseInv, NEW c \in Calls, NEW node \in Nodes \cup {NoNode}, NEW routed \in BOOLEAN,
           call[c].phase \in {"idle", "delay"}, Try(c, node, routed), UNCHANGED server
    PROVE  PromiseNext
<1> USE DEF PromiseInv
<1>1. call[c] \in CallType /\ call[c].attempt \in 0..Retry
  BY RpcCallAssumption DEF TypeOK, CallType, AttemptsInv, CallSound
<1>2. PICK k \in 1..(Retry + 1) : k = call[c].attempt + 1
  BY <1>1, RpcCallAssumption
<1>3. PICK r \in Requests : r = <<c, k>> /\ r[1] = c /\ r[2] = k
  BY <1>2, RequestPairs
<1>4. server[r] = Unserved
  <2>1. k > call[c].attempt
    BY <1>1, <1>2
  <2>2. req[r] = Unused
    BY <1>3, <2>1 DEF AttemptsInv
  <2> QED BY <2>2 DEF ProviderInv, ArrivesOnce, Unused
<1>5. PICK v : v = [call[c] EXCEPT !.attempt = k, !.node = node, !.got = 0]
  OBVIOUS
<1>6. v \in CallType /\ v.attempt = k /\ v.got = 0 /\ v.outcome = call[c].outcome
  <2>1. k \in 0..(Retry + 1)
    BY RpcCallAssumption
  <2>2. PICK w \in CallType : w = call[c]
    BY <1>1
  <2>3. v = [w EXCEPT !.attempt = k, !.node = node, !.got = 0]
    BY <1>5, <2>2
  <2>4. [w EXCEPT !.attempt = k, !.node = node, !.got = 0] \in CallType
    BY <2>1, TriedType
  <2>5. v \in CallType /\ v.attempt = k /\ v.got = 0 /\ v.outcome = w.outcome
    BY <2>3, <2>4 DEF CallType
  <2> QED BY <2>2, <2>5
<1>7. PICK w \in CallType :
        /\ call' = [call EXCEPT ![c] = w] /\ w.attempt = k /\ w.got = 0
        /\ \/ w.phase = "open" /\ w.outcome = call[c].outcome
           \/ w.phase = "delay" /\ w.outcome = call[c].outcome /\ k <= Retry
           \/ w.phase = "over" /\ w.outcome = "offline" /\ ~(k <= Retry)
  <2>1. CASE routed
    <3>1. call' = [call EXCEPT ![c] = [v EXCEPT !.phase = "open"]]
      BY <1>2, <1>5, <2>1 DEF Try
    <3>2. PICK w : w = [v EXCEPT !.phase = "open"]
      OBVIOUS
    <3>3. w \in CallType /\ w.attempt = k /\ w.got = 0 /\ w.phase = "open"
            /\ w.outcome = call[c].outcome
      BY <1>6, <3>2 DEF CallType
    <3> QED BY <3>1, <3>2, <3>3
  <2>2. CASE ~routed
    <3>1. call' = [call EXCEPT ![c] = Failed(v, "offline")]
      BY <1>2, <1>5, <2>2 DEF Try
    <3>2. "offline" \in Codes
      BY DEF Codes
    <3>3. PICK w : w = Failed(v, "offline")
      OBVIOUS
    <3>4. /\ w \in CallType /\ w.attempt = k /\ w.got = 0
          /\ \/ w.phase = "delay" /\ w.outcome = call[c].outcome /\ k <= Retry
             \/ w.phase = "over" /\ w.outcome = "offline" /\ ~(k <= Retry)
      BY <1>6, <3>2, <3>3, FailedCall
    <3> QED BY <3>1, <3>3, <3>4
  <2> QED BY <2>1, <2>2
<1>8. /\ Phases' = [Phases EXCEPT ![c] = w.phase] /\ Tries' = [Tries EXCEPT ![c] = k]
      /\ Gots' = [Gots EXCEPT ![c] = 0] /\ Outcomes' = [Outcomes EXCEPT ![c] = w.outcome]
      /\ w.outcome = call[c].outcome => Outcomes' = Outcomes
      /\ Phases[c] = call[c].phase /\ Tries[c] = call[c].attempt
  BY <1>7, ViewsOfCall
<1>9. Makes' = [Makes EXCEPT ![c] = 0] /\ Wholes' = [Wholes EXCEPT ![c] = FALSE]
  <2>1. call'[c] = w /\ \A d \in Calls \ {c} : call'[d] = call[d]
    BY <1>7 DEF TypeOK
  <2>2. Current(c)' = r
    BY <1>3, <1>7, <2>1 DEF Current
  <2>3. Makes'[c] = 0 /\ Wholes'[c] = FALSE
    <3>1. server'[r].made = 0 /\ server'[r].whole = FALSE
      BY <1>4 DEF Unserved
    <3> QED BY <1>7, <2>1, <2>2, <3>1 DEF Makes, Wholes
  <2>4. \A d \in Calls \ {c} : Makes'[d] = Makes[d] /\ Wholes'[d] = Wholes[d]
    BY <2>1 DEF Makes, Wholes, Current
  <2>5. PICK S : S = {Makes[d] : d \in Calls} \cup {Makes'[d] : d \in Calls}
    OBVIOUS
  <2>6. Makes \in [Calls -> S] /\ Makes' \in [Calls -> S]
    BY <2>5 DEF Makes
  <2>7. Wholes \in [Calls -> BOOLEAN] /\ Wholes' \in [Calls -> BOOLEAN]
    BY DEF Wholes
  <2>8. Makes' = [Makes EXCEPT ![c] = 0]
    BY <2>3, <2>4, <2>6, OneChanges
  <2>9. Wholes' = [Wholes EXCEPT ![c] = FALSE]
    BY <2>3, <2>4, <2>7, OneChanges
  <2> QED BY <2>8, <2>9
<1>10. Tries[c] \in Int /\ Tries[c] < Retry + 1 /\ Tries[c] + 1 = k
  BY <1>1, <1>2, <1>8, RpcCallAssumption
<1>11. (k <= Retry => Tries[c] + 1 < Retry + 1) /\ (~(k <= Retry) => Tries[c] + 1 = Retry + 1)
  BY <1>2, <1>10, RpcCallAssumption
<1>12. Tries' = [Tries EXCEPT ![c] = Tries[c] + 1] /\ Phases[c] \in {"idle", "delay"}
  BY <1>8, <1>10
<1>13. \/ Phases' = [Phases EXCEPT ![c] = "open"] /\ Outcomes' = Outcomes
       \/ /\ Tries[c] + 1 < Retry + 1
          /\ Phases' = [Phases EXCEPT ![c] = "delay"] /\ Outcomes' = Outcomes
       \/ /\ Tries[c] + 1 = Retry + 1 /\ Phases' = [Phases EXCEPT ![c] = "over"]
          /\ Outcomes' = [Outcomes EXCEPT ![c] = "offline"]
  BY <1>7, <1>8, <1>11
<1> QED BY <1>8, <1>9, <1>10, <1>12, <1>13, AttemptOfPromise

\* An attempt that ends with an error is tried again or reported.
LEMMA FailKeepsPromise ==
    ASSUME PromiseInv, NEW c \in Calls, call[c].phase = "open", NEW code \in Codes,
           call' = [call EXCEPT ![c] = Failed(call[c], code)], UNCHANGED server
    PROVE  PromiseNext
<1> USE DEF PromiseInv
<1>1. call[c] \in CallType /\ call[c].attempt \in 1..(Retry + 1)
  BY RpcCallAssumption DEF TypeOK, CallType, AttemptsInv, CallSound
<1>2. PICK w : w = Failed(call[c], code)
  OBVIOUS
<1>3. /\ w \in CallType /\ w.attempt = call[c].attempt /\ w.got = call[c].got
      /\ \/ w.phase = "delay" /\ w.outcome = call[c].outcome /\ call[c].attempt <= Retry
         \/ /\ w.phase = "over" /\ w.outcome = code
            /\ code = "offline" => ~(call[c].attempt <= Retry)
  BY <1>1, <1>2, FailedCall
<1>4. /\ Phases' = [Phases EXCEPT ![c] = w.phase] /\ Tries' = Tries /\ Gots' = Gots
      /\ Outcomes' = [Outcomes EXCEPT ![c] = w.outcome]
      /\ w.outcome = call[c].outcome => Outcomes' = Outcomes
      /\ Phases[c] = "open" /\ Tries[c] = call[c].attempt
  BY <1>2, <1>3, ViewsOfCall
<1>5. Makes' = Makes /\ Wholes' = Wholes
  <2>1. \A d \in Calls : call'[d].attempt = call[d].attempt
    BY <1>2, <1>3 DEF TypeOK
  <2> QED BY <2>1, ViewsOfSameAnswers
<1>6. CASE w.phase = "delay"
  <2>1. Tries[c] < Retry + 1 /\ Outcomes' = Outcomes
    BY <1>1, <1>3, <1>4, <1>6, RpcCallAssumption
  <2> QED BY <1>4, <1>5, <1>6, <2>1, PauseOfPromise
<1>7. CASE w.phase # "delay"
  <2>1. w.phase = "over" /\ w.outcome = code /\ (code = "offline" => Tries[c] = Retry + 1)
    BY <1>1, <1>3, <1>4, <1>7, RpcCallAssumption
  <2>2. code \in {"error", "offline", "timeout"}
    BY DEF Codes
  <2> QED BY <1>4, <1>5, <2>1, <2>2, EndOfPromise
<1> QED BY <1>6, <1>7

\* Giving up an attempt, or the wait for the next one.
LEMMA EndKeepsPromise ==
    ASSUME PromiseInv, NEW c \in Calls, NEW how \in {"left", "timeout"},
           call[c].phase = "open" \/ (call[c].phase = "delay" /\ how = "left"),
           call' = [call EXCEPT ![c] = [call[c] EXCEPT !.phase = "over", !.outcome = how]],
           UNCHANGED server
    PROVE  PromiseNext
<1> USE DEF PromiseInv
<1>1. PICK w : w = [call[c] EXCEPT !.phase = "over", !.outcome = how]
  OBVIOUS
<1>2. /\ w \in CallType /\ w.attempt = call[c].attempt /\ w.got = call[c].got
      /\ w.phase = "over" /\ w.outcome = how
  <2>1. call[c] \in CallType
    BY DEF TypeOK
  <2> QED BY <1>1, <2>1 DEF CallType, Endings
<1>3. /\ Phases' = [Phases EXCEPT ![c] = "over"] /\ Tries' = Tries /\ Gots' = Gots
      /\ Outcomes' = [Outcomes EXCEPT ![c] = how] /\ Phases[c] = call[c].phase
  <2>1. call' = [call EXCEPT ![c] = w]
    BY <1>1
  <2>2. /\ Phases' = [Phases EXCEPT ![c] = w.phase] /\ Tries' = Tries /\ Gots' = Gots
        /\ Outcomes' = [Outcomes EXCEPT ![c] = w.outcome] /\ Phases[c] = call[c].phase
    BY <1>2, <2>1, ViewsOfCall
  <2> QED BY <1>2, <2>2
<1>4. Makes' = Makes /\ Wholes' = Wholes
  <2>1. \A d \in Calls : call'[d].attempt = call[d].attempt
    BY <1>1, <1>2 DEF TypeOK
  <2> QED BY <2>1, ViewsOfSameAnswers
<1> QED BY <1>3, <1>4, EndOfPromise

\* What Seen makes of a packet that fits.
LEMMA SeenCall ==
    ASSUME NEW v \in CallType, v.phase = "open", NEW packet \in Responses, NEW leaves \in BOOLEAN,
           leaves => packet.item > 0, NEW made \in Nat, NEW whole \in BOOLEAN, v.got <= made,
           Fits(packet, v.got + 1, made, whole)
    PROVE  \/ /\ v.got < made /\ Seen(v, packet, leaves).got = v.got + 1
              /\ Seen(v, packet, leaves).attempt = v.attempt
              /\ \/ /\ Seen(v, packet, leaves).phase = "open"
                    /\ Seen(v, packet, leaves).outcome = v.outcome
                 \/ /\ Seen(v, packet, leaves).phase = "over"
                    /\ Seen(v, packet, leaves).outcome = "left"
                 \/ /\ whole /\ v.got + 1 = made
                    /\ Seen(v, packet, leaves).phase = "over"
                    /\ Seen(v, packet, leaves).outcome = "completed"
           \/ /\ whole /\ v.got = made /\ Seen(v, packet, leaves).got = v.got
              /\ Seen(v, packet, leaves).attempt = v.attempt
              /\ Seen(v, packet, leaves).phase = "over"
              /\ Seen(v, packet, leaves).outcome = "completed"
           \/ \E code \in Codes : Seen(v, packet, leaves) = Failed(v, code)
<1>1. v.got \in Nat /\ packet.item \in Nat
  BY RpcCallAssumption DEF CallType, Responses
<1>2. CASE packet.end \in Codes
  <2>1. packet.item = 0 /\ ~leaves /\ packet.end # "completed"
    BY <1>2 DEF Fits, Codes
  <2>2. Seen(v, packet, leaves) = Failed(v, packet.end)
    BY <1>2, <2>1 DEF Seen
  <2> QED BY <1>2, <2>2
<1>3. CASE packet.end \notin Codes /\ packet.item > 0
  <2>1. PICK w : w = [v EXCEPT !.got = packet.item]
    OBVIOUS
  <2>2. packet.item = v.got + 1 /\ v.got < made
          /\ (packet.end = "completed" => whole /\ v.got + 1 = made)
    BY <1>1, <1>3 DEF Fits, Responses
  <2>3. w.got = v.got + 1 /\ w.attempt = v.attempt /\ w.phase = "open" /\ w.outcome = v.outcome
    BY <2>1, <2>2 DEF CallType
  <2>4. w \in CallType
    <3>1. packet.item \in 0..MaxItems
      BY DEF Responses
    <3> QED BY <2>1, <3>1 DEF CallType
  <2>5. Seen(v, packet, leaves) =
          IF leaves THEN [w EXCEPT !.phase = "over", !.outcome = "left"]
          ELSE IF packet.end = "completed"
               THEN [w EXCEPT !.phase = "over", !.outcome = "completed"] ELSE w
    BY <1>3, <2>1 DEF Seen
  <2>6. CASE leaves
    <3>1. Seen(v, packet, leaves) = [w EXCEPT !.phase = "over", !.outcome = "left"]
      BY <2>5, <2>6
    <3> QED BY <2>2, <2>3, <2>4, <3>1 DEF CallType
  <2>7. CASE ~leaves /\ packet.end = "completed"
    <3>1. Seen(v, packet, leaves) = [w EXCEPT !.phase = "over", !.outcome = "completed"]
      BY <2>5, <2>7
    <3> QED BY <2>2, <2>3, <2>4, <2>7, <3>1 DEF CallType
  <2>8. CASE ~leaves /\ packet.end # "completed"
    BY <2>2, <2>3, <2>5, <2>8
  <2> QED BY <2>6, <2>7, <2>8
<1>4. CASE packet.end \notin Codes /\ ~(packet.item > 0)
  <2>1. packet.item = 0 /\ ~leaves
    BY <1>1, <1>4
  <2>2. packet.end = "completed"
    <3>1. packet.end \in {"none", "completed"}
      BY <1>4 DEF Responses
    <3>2. packet.end = "none" => packet.item = v.got + 1
      BY DEF Fits
    <3> QED BY <1>1, <2>1, <3>1, <3>2
  <2>3. whole /\ v.got = made
    BY <1>1, <2>1, <2>2 DEF Fits
  <2>4. Seen(v, packet, leaves) = [v EXCEPT !.phase = "over", !.outcome = "completed"]
    BY <1>4, <2>1, <2>2 DEF Seen
  <2> QED BY <2>3, <2>4 DEF CallType
<1> QED BY <1>2, <1>3, <1>4

LEMMA ResponseKeepsPromise ==
    ASSUME PromiseInv, NEW s \in Requests, NEW b \in BOOLEAN, ResponseArrives(s, b)
    PROVE  PromiseNext
<1> USE DEF PromiseInv
<1>1. PICK packet \in Responses : packet = Head(wire[s].from)
  BY ResponseEffect
<1>2. UNCHANGED server
  BY ResponseEffect
<1>3. CASE ~req[s].known
  <2>1. call' = call
    BY <1>3, ResponseEffect
  <2> QED BY <1>2, <2>1, ViewsOfSameCalls, ViewsOfSameAnswers, StutterOfPromise
<1>4. CASE req[s].known
  <2>1. PICK c \in Calls : c = s[1] /\ call[c].phase = "open" /\ s = Current(c)
    BY <1>4, RequestPairs DEF AttemptsInv, Current
  <2>2. PICK v \in CallType : v = call[c]
    BY DEF TypeOK
  <2>3. v.got \in Nat /\ v.attempt > 0 /\ v.attempt \in Nat /\ v.phase = "open"
    <3>1. CallSound(v) /\ v.phase = "open"
      BY <2>1, <2>2 DEF AttemptsInv
    <3>2. v.attempt > 0
      BY <3>1 DEF CallSound
    <3> QED BY <3>1, <3>2, RpcCallAssumption DEF CallType
  <2>4. PICK made \in Nat : made = server[s].made
    BY RpcCallAssumption DEF TypeOK, ServerType
  <2>5. PICK whole \in BOOLEAN : whole = server[s].whole
    BY DEF TypeOK, ServerType
  <2>6. Fits(packet, v.got + 1, made, whole) /\ v.got <= made
    <3>1. AnswerSound(wire[s], server[s], "settled", v.got) /\ wire[s].from # <<>>
      BY <2>1, <2>2, ResponseEffect DEF AnswersInv, Owed
    <3>2. wire[s] \in WireType /\ server[s] \in ServerType
      BY DEF TypeOK
    <3>3. Fits(Head(wire[s].from), v.got + 1, server[s].made, server[s].whole)
      BY <2>3, <3>1, <3>2, NextPacketFits
    <3>4. v.got <= server[s].made
      BY <3>1 DEF AnswerSound
    <3> QED BY <1>1, <2>4, <2>5, <3>3, <3>4
  <2>7. PICK w : w = Seen(v, packet, b)
    OBVIOUS
  <2>8. call' = [call EXCEPT ![c] = w] /\ w \in CallType /\ (b => packet.item > 0)
    BY <1>1, <1>4, <2>1, <2>2, <2>7, ResponseEffect, SeenType
  <2>9. /\ Phases' = [Phases EXCEPT ![c] = w.phase] /\ Gots' = [Gots EXCEPT ![c] = w.got]
        /\ Outcomes' = [Outcomes EXCEPT ![c] = w.outcome]
        /\ w.phase = v.phase => Phases' = Phases
        /\ w.attempt = v.attempt => Tries' = Tries
        /\ w.got = v.got => Gots' = Gots
        /\ w.outcome = v.outcome => Outcomes' = Outcomes
        /\ Phases[c] = "open" /\ Gots[c] = v.got
    BY <2>2, <2>3, <2>8, ViewsOfCall
  <2>10. Makes[c] = made /\ (Wholes[c] <=> whole)
    <3>1. call[c].attempt > 0 /\ call[c].attempt # 0
      BY <2>2, <2>3
    <3> QED BY <2>1, <2>4, <2>5, <3>1 DEF Makes, Wholes
  <2>11. w.attempt = v.attempt => Makes' = Makes /\ Wholes' = Wholes
    <3>1. ASSUME w.attempt = v.attempt, NEW d \in Calls PROVE call'[d].attempt = call[d].attempt
      BY <2>2, <2>8, <3>1 DEF TypeOK
    <3> QED BY <1>2, <3>1, ViewsOfSameAnswers
  <2>12. \/ /\ v.got < made /\ w.got = v.got + 1 /\ w.attempt = v.attempt
            /\ \/ w.phase = "open" /\ w.outcome = v.outcome
               \/ w.phase = "over" /\ w.outcome = "left"
               \/ whole /\ v.got + 1 = made /\ w.phase = "over" /\ w.outcome = "completed"
         \/ /\ whole /\ v.got = made /\ w.got = v.got /\ w.attempt = v.attempt
            /\ w.phase = "over" /\ w.outcome = "completed"
         \/ \E code \in Codes : w = Failed(v, code)
    BY <2>3, <2>6, <2>7, <2>8, SeenCall
  <2>13. CASE v.got < made /\ w.got = v.got + 1 /\ w.attempt = v.attempt
            /\ (\/ w.phase = "open" /\ w.outcome = v.outcome
                \/ w.phase = "over" /\ w.outcome = "left"
                \/ whole /\ v.got + 1 = made /\ w.phase = "over" /\ w.outcome = "completed")
    <3>1. /\ Tries' = Tries /\ Makes' = Makes /\ Wholes' = Wholes
          /\ Gots[c] < Makes[c] /\ Gots' = [Gots EXCEPT ![c] = Gots[c] + 1]
      BY <2>9, <2>10, <2>11, <2>13
    <3>2. \/ Phases' = Phases /\ Outcomes' = Outcomes
          \/ /\ Phases' = [Phases EXCEPT ![c] = "over"]
             /\ Outcomes' = [Outcomes EXCEPT ![c] = "left"]
          \/ /\ Wholes[c] /\ Gots[c] + 1 = Makes[c]
             /\ Phases' = [Phases EXCEPT ![c] = "over"]
             /\ Outcomes' = [Outcomes EXCEPT ![c] = "completed"]
      BY <2>3, <2>9, <2>10, <2>13
    <3> QED BY <2>9, <3>1, <3>2, DeliveryOfPromise
  <2>14. CASE /\ whole /\ v.got = made /\ w.got = v.got /\ w.attempt = v.attempt
              /\ w.phase = "over" /\ w.outcome = "completed"
    <3>1. /\ Tries' = Tries /\ Makes' = Makes /\ Wholes' = Wholes /\ Gots' = Gots
          /\ Wholes[c] /\ Gots[c] = Makes[c]
          /\ Phases' = [Phases EXCEPT ![c] = "over"]
          /\ Outcomes' = [Outcomes EXCEPT ![c] = "completed"]
      BY <2>9, <2>10, <2>11, <2>14
    <3> QED BY <2>9, <3>1, EndOfPromise
  <2>15. CASE \E code \in Codes : w = Failed(v, code)
    BY <1>2, <2>1, <2>2, <2>8, <2>15, FailKeepsPromise
  <2> QED BY <2>12, <2>13, <2>14, <2>15
<1> QED BY <1>3, <1>4

LEMMA OfflineKeepsPromise ==
    ASSUME PromiseInv, NEW n \in Nodes, NodeOffline(n)
    PROVE  PromiseNext
<1> USE DEF PromiseInv
<1>1. UNCHANGED server
  BY DEF NodeOffline
<1>2. \A c \in Calls : \/ call'[c] = call[c]
                       \/ call'[c] = Failed(call[c], "offline") /\ call[c].phase = "open"
  <2> SUFFICES ASSUME NEW c \in Calls, call'[c] # call[c]
               PROVE  call'[c] = Failed(call[c], "offline") /\ call[c].phase = "open"
    OBVIOUS
  <2>1. call'[c] = Failed(call[c], "offline") /\ Current(c) \in ServedBy(n)
    BY DEF NodeOffline
  <2>2. Current(c) \in Requests /\ req[Current(c)].known /\ Current(c)[1] = c
    BY <2>1 DEF ServedBy, Current
  <2>3. call[c].phase = "open"
    BY <2>2 DEF AttemptsInv
  <2> QED BY <2>1, <2>3
<1>3. \A c \in Calls :
         /\ call'[c].attempt = call[c].attempt /\ call'[c].got = call[c].got
         /\ \/ call'[c].phase = call[c].phase /\ call'[c].outcome = call[c].outcome
            \/ /\ call[c].phase = "open" /\ call[c].attempt < Retry + 1
               /\ call'[c].phase = "delay" /\ call'[c].outcome = call[c].outcome
            \/ /\ call[c].phase = "open" /\ call[c].attempt = Retry + 1
               /\ call'[c].phase = "over" /\ call'[c].outcome = "offline"
  <2> SUFFICES ASSUME NEW c \in Calls, call'[c] = Failed(call[c], "offline"),
                      call[c].phase = "open"
               PROVE  /\ call'[c].attempt = call[c].attempt /\ call'[c].got = call[c].got
                      /\ \/ /\ call[c].attempt < Retry + 1
                            /\ call'[c].phase = "delay" /\ call'[c].outcome = call[c].outcome
                         \/ /\ call[c].attempt = Retry + 1
                            /\ call'[c].phase = "over" /\ call'[c].outcome = "offline"
    BY <1>2
  <2>1. call[c] \in CallType /\ "offline" \in Codes /\ call[c].attempt \in 0..(Retry + 1)
    BY DEF TypeOK, CallType, Codes
  <2>2. /\ call'[c].attempt = call[c].attempt /\ call'[c].got = call[c].got
        /\ \/ /\ call'[c].phase = "delay" /\ call'[c].outcome = call[c].outcome
              /\ call[c].attempt <= Retry
           \/ /\ call'[c].phase = "over" /\ call'[c].outcome = "offline"
              /\ ~(call[c].attempt <= Retry)
    BY <2>1, FailedCall
  <2> QED BY <2>1, <2>2, RpcCallAssumption
<1>4. Tries' = Tries /\ Gots' = Gots
  BY <1>3 DEF Tries, Gots
<1>5. Makes' = Makes /\ Wholes' = Wholes
  BY <1>1, <1>3, ViewsOfSameAnswers
<1>6. \A c \in Calls :
         \/ Phases'[c] = Phases[c] /\ Outcomes'[c] = Outcomes[c]
         \/ /\ Phases[c] = "open" /\ Tries[c] < Retry + 1
            /\ Phases'[c] = "delay" /\ Outcomes'[c] = Outcomes[c]
         \/ /\ Phases[c] = "open" /\ Tries[c] = Retry + 1
            /\ Phases'[c] = "over" /\ Outcomes'[c] = "offline"
  BY <1>3 DEF Phases, Outcomes, Tries
<1> QED BY <1>4, <1>5, <1>6, FailuresOfPromise

\* A handler makes something.
LEMMA HandlerKeepsPromise ==
    ASSUME PromiseInv, UNCHANGED call, NEW s \in Requests,
           \A r \in Requests \ {s} : server'[r] = server[r],
           server'[s] \in ServerType,
           \/ server'[s].made = server[s].made /\ server'[s].whole = server[s].whole
           \/ /\ ~server[s].whole
              /\ \/ server'[s].made = server[s].made
                 \/ server[s].made < MaxItems /\ server'[s].made = server[s].made + 1
    PROVE  PromiseNext
<1> USE DEF PromiseInv
<1>1. Phases' = Phases /\ Tries' = Tries /\ Gots' = Gots /\ Outcomes' = Outcomes
  BY ViewsOfSameCalls
<1>2. CASE server'[s].made = server[s].made /\ server'[s].whole = server[s].whole
  BY <1>1, <1>2, ViewsOfSameAnswers, StutterOfPromise
<1>3. CASE /\ ~server[s].whole
           /\ \/ server'[s].made = server[s].made
              \/ server[s].made < MaxItems /\ server'[s].made = server[s].made + 1
  <2>1. PICK c \in Calls : c = s[1]
    BY RequestPairs
  <2>2. \A d \in Calls : Current(d)' = Current(d) /\ call'[d] = call[d]
    BY DEF Current
  <2>3. \A d \in Calls : call[d].attempt \in Int
                           /\ (call[d].attempt # 0 => Current(d) \in Requests)
    BY RpcCallAssumption, RequestPairs DEF TypeOK, CallType, Current
  <2>4. \A d \in Calls \ {c} : Current(d) # s
    BY <2>1 DEF Current
  <2>5. \A d \in Calls \ {c} : Makes'[d] = Makes[d] /\ Wholes'[d] = Wholes[d]
    <3> SUFFICES ASSUME NEW d \in Calls \ {c} PROVE Makes'[d] = Makes[d] /\ Wholes'[d] = Wholes[d]
      OBVIOUS
    <3>1. CASE call[d].attempt = 0
      BY <2>2, <3>1 DEF Makes, Wholes
    <3>2. CASE call[d].attempt # 0
      <4>1. server'[Current(d)] = server[Current(d)]
        BY <2>3, <2>4, <3>2
      <4> QED BY <2>2, <4>1 DEF Makes, Wholes
    <3> QED BY <3>1, <3>2
  <2>6. PICK S : S = {Makes[d] : d \in Calls} \cup {Makes'[d] : d \in Calls}
    OBVIOUS
  <2>7. Makes \in [Calls -> S] /\ Makes' \in [Calls -> S]
    BY <2>6 DEF Makes
  <2>8. Wholes \in [Calls -> BOOLEAN] /\ Wholes' \in [Calls -> BOOLEAN]
    BY DEF Wholes
  <2>9. Makes' = [Makes EXCEPT ![c] = Makes'[c]] /\ (Makes'[c] = Makes[c] => Makes' = Makes)
    <3>1. PICK m : m = Makes'[c]
      OBVIOUS
    <3> QED BY <2>5, <2>7, <3>1, OneChanges
  <2>10. /\ Wholes' = [Wholes EXCEPT ![c] = Wholes'[c]]
         /\ Wholes'[c] = Wholes[c] => Wholes' = Wholes
    <3>1. PICK b : b = Wholes'[c]
      OBVIOUS
    <3> QED BY <2>5, <2>8, <3>1, OneChanges
  <2>11. CASE call[c].attempt = 0 \/ Current(c) # s
    <3>1. Makes'[c] = Makes[c] /\ Wholes'[c] = Wholes[c]
      <4>1. CASE call[c].attempt = 0
        BY <2>2, <4>1 DEF Makes, Wholes
      <4>2. CASE call[c].attempt # 0
        <5>1. server'[Current(c)] = server[Current(c)]
          BY <2>3, <2>11, <4>2
        <5> QED BY <2>2, <5>1 DEF Makes, Wholes
      <4> QED BY <4>1, <4>2
    <3> QED BY <1>1, <2>9, <2>10, <3>1, StutterOfPromise
  <2>12. CASE call[c].attempt # 0 /\ Current(c) = s
    <3>1. /\ Makes[c] = server[s].made /\ Makes'[c] = server'[s].made
          /\ ~Wholes[c]
      BY <1>3, <2>2, <2>12 DEF Makes, Wholes
    <3>2. Makes'[c] = Makes[c] \/ (Makes[c] < MaxItems /\ Makes'[c] = Makes[c] + 1)
      BY <1>3, <3>1
    <3>3. (Makes[c] < MaxItems /\ Makes' = [Makes EXCEPT ![c] = Makes[c] + 1]) \/ Makes' = Makes
      BY <2>9, <3>2
    <3>4. Wholes' \in {Wholes, [Wholes EXCEPT ![c] = TRUE]}
      <4>1. Wholes[c] = FALSE /\ (Wholes'[c] = FALSE \/ Wholes'[c] = TRUE)
        BY <2>8, <3>1
      <4> QED BY <2>10, <4>1
    <3> QED BY <1>1, <3>1, <3>3, <3>4, MakeOfPromise
  <2> QED BY <2>11, <2>12
<1> QED BY <1>2, <1>3

LEMMA CallerKeepsPromise ==
    ASSUME PromiseInv, CallerStep
    PROVE  PromiseNext
<1> USE DEF PromiseInv
<1>1. ASSUME NEW c \in Calls, NEW n \in Nodes \cup {NoNode}, NEW b \in BOOLEAN, Subscribe(c, n, b)
      PROVE  PromiseNext
  BY <1>1, TryKeepsPromise DEF Subscribe
<1>2. ASSUME NEW c \in Calls, NEW b \in BOOLEAN, RetryTimer(c, b) PROVE PromiseNext
  <2>1. call[c].node \in Nodes \cup {NoNode}
    BY DEF TypeOK, CallType
  <2> QED BY <1>2, <2>1, TryKeepsPromise DEF RetryTimer
<1>3. ASSUME NEW c \in Calls, Timeout(c) PROVE PromiseNext
  <2>1. call[c].phase = "open" /\ GiveUp(c, "timeout") /\ UNCHANGED server
    BY <1>3 DEF Timeout, TimeoutArmed
  <2>2. call' = [call EXCEPT ![c] = [call[c] EXCEPT !.phase = "over", !.outcome = "timeout"]]
    BY <2>1, GiveUpEffect
  <2> QED BY <2>1, <2>2, EndKeepsPromise
<1>4. ASSUME NEW c \in Calls, Unsubscribe(c) PROVE PromiseNext
  <2>1. UNCHANGED server
    BY <1>4 DEF Unsubscribe
  <2>2. CASE call[c].phase = "open" /\ GiveUp(c, "left")
    <3>1. call' = [call EXCEPT ![c] = [call[c] EXCEPT !.phase = "over", !.outcome = "left"]]
      BY <2>2, GiveUpEffect
    <3> QED BY <2>1, <2>2, <3>1, EndKeepsPromise
  <2>3. CASE call[c].phase = "delay"
    <3>1. call' = [call EXCEPT ![c] = [call[c] EXCEPT !.phase = "over", !.outcome = "left"]]
      BY <1>4, <2>3 DEF Unsubscribe
    <3> QED BY <2>1, <2>3, <3>1, EndKeepsPromise
  <2> QED BY <1>4, <2>2, <2>3 DEF Unsubscribe
<1>5. ASSUME UNCHANGED <<call, server>> PROVE PromiseNext
  BY <1>5, ViewsOfSameCalls, ViewsOfSameAnswers, StutterOfPromise
<1>6. ASSUME NEW s \in Requests, NEW code \in Codes, SendRejects(s, code) PROVE PromiseNext
  <2>1. UNCHANGED server
    BY <1>6 DEF SendRejects
  <2>2. CASE ~req[s].known
    BY <1>5, <1>6, <2>1, <2>2, RejectionEffect
  <2>3. CASE req[s].known
    <3>1. PICK c \in Calls : c = s[1] /\ call[c].phase = "open"
      BY <2>3, RequestPairs DEF AttemptsInv
    <3>2. call' = [call EXCEPT ![c] = Failed(call[c], code)]
      BY <1>6, <2>3, <3>1, RejectionEffect
    <3> QED BY <2>1, <3>1, <3>2, FailKeepsPromise
  <2> QED BY <2>2, <2>3
<1> QED
  BY <1>1, <1>2, <1>3, <1>4, <1>5, <1>6, ResponseKeepsPromise, OfflineKeepsPromise
     DEF CallerStep, RequestLeaves, SendResolves, LinkLost

LEMMA ProviderKeepsPromise ==
    ASSUME PromiseInv, PromiseInv', ProviderStep
    PROVE  PromiseNext
<1> USE DEF PromiseInv
<1>1. \A s \in Requests : /\ server[s] \in ServerType /\ server'[s] \in ServerType
                          /\ MadeSound(server[s])
  BY DEF TypeOK, AnswersInv
<1>2. UNCHANGED call
  BY DEF ProviderStep, RequestArrives, MethodReturns, MethodFails, StreamStarts, StreamEmits,
         StreamEnds, ReplySends, ReplyFails, CancelArrives
<1>3. ASSUME NEW s \in Requests, \A x \in Requests \ {s} : server'[x] = server[x],
             server'[s].made = server[s].made, server'[s].whole = server[s].whole
      PROVE  PromiseNext
  BY <1>1, <1>2, <1>3, HandlerKeepsPromise
<1>4. ASSUME NEW s \in Requests, NEW b \in BOOLEAN, RequestArrives(s, b) PROVE PromiseNext
  <2>1. /\ \A x \in Requests \ {s} : server'[x] = server[x]
        /\ server'[s] = IF b THEN [server[s] EXCEPT !.phase = "invoking"]
                        ELSE [server[s] EXCEPT !.phase = "over", !.queue = <<Response(0, "error")>>]
    BY <1>4 DEF RequestArrives, TypeOK
  <2>2. server'[s].made = server[s].made /\ server'[s].whole = server[s].whole
    BY <1>1, <2>1 DEF ServerType
  <2> QED BY <1>3, <2>1, <2>2
<1>5. ASSUME NEW s \in Requests, MethodReturns(s) PROVE PromiseNext
  <2>1. /\ \A x \in Requests \ {s} : server'[x] = server[x]
        /\ server[s].phase = "invoking" /\ server'[s].made = 1
    BY <1>1, <1>5 DEF MethodReturns, TypeOK, ServerType
  <2>2. server[s].made = 0 /\ ~server[s].whole
    BY <1>1, <2>1 DEF MadeSound
  <2>3. server[s].made < MaxItems /\ server'[s].made = server[s].made + 1
    BY <2>1, <2>2, RpcCallAssumption
  <2> QED BY <1>1, <1>2, <2>1, <2>2, <2>3, HandlerKeepsPromise
<1>6. ASSUME NEW s \in Requests, NEW code \in Codes, MethodFails(s, code) PROVE PromiseNext
  <2>1. /\ \A x \in Requests \ {s} : server'[x] = server[x]
        /\ server'[s] = [server[s] EXCEPT !.phase = "over", !.queue = <<Response(0, code)>>]
    BY <1>6 DEF MethodFails, TypeOK
  <2>2. server'[s].made = server[s].made /\ server'[s].whole = server[s].whole
    BY <1>1, <2>1 DEF ServerType
  <2> QED BY <1>3, <2>1, <2>2
<1>7. ASSUME NEW s \in Requests, StreamStarts(s) PROVE PromiseNext
  <2>1. /\ \A x \in Requests \ {s} : server'[x] = server[x]
        /\ server'[s] = [server[s] EXCEPT !.phase = "live", !.running = TRUE]
    BY <1>7 DEF StreamStarts, TypeOK
  <2>2. server'[s].made = server[s].made /\ server'[s].whole = server[s].whole
    BY <1>1, <2>1 DEF ServerType
  <2> QED BY <1>3, <2>1, <2>2
<1>8. ASSUME NEW s \in Requests, StreamEmits(s) PROVE PromiseNext
  <2>1. /\ \A x \in Requests \ {s} : server'[x] = server[x]
        /\ server[s].phase = "live" /\ server[s].made < MaxItems
    BY <1>8 DEF StreamEmits, TypeOK
  <2>2. PICK n \in 1..MaxItems : n = server[s].made + 1
    BY <1>1, <2>1, RpcCallAssumption DEF ServerType
  <2>3. PICK packet \in Responses : packet = Response(n, "none")
    BY <2>2, ResponseType, RpcCallAssumption
  <2>4. PICK e \in ServerType : e = Enqueue(server[s], packet)
    BY <1>1, EnqueueType
  <2>5. server'[s] = [e EXCEPT !.made = n]
    BY <1>8, <2>2, <2>3, <2>4 DEF StreamEmits, TypeOK
  <2>6. server'[s].made = n
    BY <2>4, <2>5 DEF ServerType
  <2>7. ~server[s].whole
    BY <1>1, <2>1 DEF MadeSound
  <2> QED BY <1>1, <1>2, <2>1, <2>2, <2>6, <2>7, HandlerKeepsPromise
<1>9. ASSUME NEW s \in Requests, NEW end \in {"completed"} \cup Codes, StreamEnds(s, end)
      PROVE  PromiseNext
  <2>1. /\ \A x \in Requests \ {s} : server'[x] = server[x]
        /\ server[s].phase = "live"
    BY <1>9 DEF StreamEnds, TypeOK
  <2>2. PICK packet \in Responses : packet = Response(0, end)
    BY ResponseType, RpcCallAssumption
  <2>3. PICK e \in ServerType : e = Enqueue(server[s], packet)
    BY <1>1, EnqueueType
  <2>4. PICK whole \in BOOLEAN : whole = (end = "completed")
    OBVIOUS
  <2>5. PICK running \in BOOLEAN : running = ~server[s].poisoned
    OBVIOUS
  <2>6. server'[s] = [e EXCEPT !.phase = "over", !.whole = whole, !.running = running]
    BY <1>9, <2>2, <2>3, <2>4, <2>5 DEF StreamEnds, TypeOK
  <2>7. e.made = server[s].made
    BY <1>1, <2>3 DEF Enqueue, ServerType
  <2>8. server'[s].made = server[s].made
    BY <2>3, <2>6, <2>7 DEF ServerType
  <2>9. ~server[s].whole
    BY <1>1, <2>1 DEF MadeSound
  <2> QED BY <1>1, <1>2, <2>1, <2>8, <2>9, HandlerKeepsPromise
<1>10. ASSUME NEW s \in Requests, NEW b \in BOOLEAN, ReplySends(s, b) PROVE PromiseNext
  <2>1. PICK queue : queue = TakeFirst(server[s].queue).rest
    OBVIOUS
  <2>2. PICK running : running = (server[s].running /\ ~Terminal(TakeFirst(server[s].queue).packet))
    OBVIOUS
  <2>3. /\ \A x \in Requests \ {s} : server'[x] = server[x]
        /\ server'[s] = [server[s] EXCEPT !.queue = queue, !.running = running]
    BY <1>10, <2>1, <2>2 DEF ReplySends, TypeOK
  <2>4. server'[s].made = server[s].made /\ server'[s].whole = server[s].whole
    BY <1>1, <2>3 DEF ServerType
  <2> QED BY <1>3, <2>3, <2>4
<1>11. ASSUME NEW s \in Requests, ReplyFails(s) PROVE PromiseNext
  <2>1. PICK running : running = (server[s].running /\ server[s].phase = "live")
    OBVIOUS
  <2>2. /\ \A x \in Requests \ {s} : server'[x] = server[x]
        /\ server'[s] = [server[s] EXCEPT !.queue = <<>>, !.poisoned = TRUE, !.running = running]
    BY <1>11, <2>1 DEF ReplyFails, Poisoned, TypeOK
  <2>3. server'[s].made = server[s].made /\ server'[s].whole = server[s].whole
    BY <1>1, <2>2 DEF ServerType
  <2> QED BY <1>3, <2>2, <2>3
<1>12. ASSUME NEW s \in Requests, CancelArrives(s) PROVE PromiseNext
  <2>1. /\ \A x \in Requests \ {s} : server'[x] = server[x]
        /\ \/ server'[s] = [server[s] EXCEPT !.phase = "over", !.running = FALSE, !.cancelSeen = TRUE]
           \/ server'[s] = [server[s] EXCEPT !.cancelSeen = TRUE]
    BY <1>12 DEF CancelArrives, TypeOK
  <2>2. server'[s].made = server[s].made /\ server'[s].whole = server[s].whole
    BY <1>1, <2>1 DEF ServerType
  <2> QED BY <1>3, <2>1, <2>2
<1> QED
  BY <1>4, <1>5, <1>6, <1>7, <1>8, <1>9, <1>10, <1>11, <1>12 DEF ProviderStep

LEMMA PromiseStep == PromiseInv /\ PromiseInv' /\ [Next]_vars => PromiseNext
<1> SUFFICES ASSUME PromiseInv, PromiseInv', [Next]_vars PROVE PromiseNext
  OBVIOUS
<1>1. CASE UNCHANGED vars
  BY <1>1, ViewsOfSameCalls, ViewsOfSameAnswers, StutterOfPromise DEF vars, PromiseInv
<1> QED BY <1>1, CallerKeepsPromise, ProviderKeepsPromise DEF Next

LEMMA PromiseInit == Init => Promise!Init
<1> SUFFICES ASSUME Init PROVE Promise!Init
  OBVIOUS
<1>1. \A c \in Calls : /\ call[c].phase = "idle" /\ call[c].attempt = 0 /\ call[c].got = 0
                       /\ call[c].outcome = "none"
  BY DEF Init
<1>2. Phases = [c \in Calls |-> "idle"] /\ Outcomes = [c \in Calls |-> "none"]
  BY <1>1 DEF Phases, Outcomes
<1>3. Tries = [c \in Calls |-> 0] /\ Gots = [c \in Calls |-> 0]
  BY <1>1 DEF Tries, Gots
<1>4. Makes = [c \in Calls |-> 0]
  BY <1>1 DEF Makes
<1>5. \A c \in Calls : (call[c].attempt > 0 /\ server[Current(c)].whole) = FALSE
  <2> SUFFICES ASSUME NEW c \in Calls PROVE ~(call[c].attempt > 0)
    OBVIOUS
  <2>1. call[c].attempt = 0
    BY <1>1
  <2> QED BY <2>1
<1>6. Wholes = [c \in Calls |-> FALSE]
  BY <1>5 DEF Wholes
<1> QED BY <1>2, <1>3, <1>4, <1>6
        DEF Promise!Init, Phases, Tries, Makes, Wholes, Gots, Outcomes

\* The promise of callRemoteService is kept, for all calls, retries, answers and nodes,
\* however the transports lose their links and reject what is sent: a call is tried at most
\* retry + 1 times and ends once, its values are the first that the provider of the attempt
\* made, in order and without a gap, completion means that it got all of them, OFFLINE that
\* the attempts are used up, and after the end nothing is delivered.  It is the step by step
\* refinement of CallPromise by the two ends of SpiderMesh.ts.
THEOREM PromiseKept == Spec => KeepsPromise
<1>1. PromiseInv /\ PromiseInv' /\ [Next]_vars => [Promise!Next]_(Promise!promised)
  BY PromiseStep DEF PromiseNext, Promise!promised, Phases, Tries, Makes, Wholes, Gots, Outcomes
<1> QED BY <1>1, PromiseInit, AnswersAreSound, PTL DEF Spec, KeepsPromise, Promise!Spec

=============================================================================
