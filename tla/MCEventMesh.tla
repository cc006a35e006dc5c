---------------------------- MODULE MCEventMesh ----------------------------
EXTENDS EventMesh

CONSTANTS a, b, pa, pb, pc, x, y, z, t0

MCNames == {"http2", "http2-pubsub"}
MCEndpoints == {pa, pb, pc, "port"}
MCSockets == [n \in Nodes |-> 2]
MCHomeOf == [i \in Instances |-> IF i = pa THEN a ELSE b]
MCNameOf == [i \in Instances |-> "http2-pubsub"]
MCHostOf == [l \in Links |-> IF l \in {x} THEN a ELSE b]
MCTopicOf == [l \in Links |-> t0]
MCRequested == [l \in Links |-> IF l = x THEN "single" ELSE IF l = y THEN "http2-pubsub" ELSE "fanout"]
MCKept == {<<pa, pb>>}
MCListeners == [l \in Links |-> IF l = x THEN 0 ELSE 1]
=============================================================================
