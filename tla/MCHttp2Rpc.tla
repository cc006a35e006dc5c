----------------------------- MODULE MCHttp2Rpc -----------------------------
EXTENDS Http2Rpc

CONSTANTS a, b, x, y

MCSorted == <<a, b>>
MCTargetsOf == [p \in Peers |-> IF p = a THEN {x, y} ELSE {x}]
MCAtStart == [p \in Peers |-> x]
MCChanges == [p \in Peers |-> IF p = a THEN 2 ELSE 0]
MCProbes == [p \in Peers |-> IF p = a THEN 1 ELSE 0]
MCSessions == [p \in Peers |-> IF p = a THEN 2 ELSE 0]
=============================================================================
