------------------------------ MODULE MCWsMesh ------------------------------
EXTENDS WsMesh

CONSTANTS c, p, v       \* a caller, a provider and its service

MCCallerOf == [r \in Requests |-> c]
MCOffers == [n \in Nodes |-> IF n = p THEN {v} ELSE {}]
MCSockets == [n \in Nodes |-> IF n = p THEN 2 ELSE 1]
MCNone == [n \in Nodes |-> 0]
MCOnlyC == [n \in Nodes |-> IF n = c THEN 1 ELSE 0]
MCOnlyP == [n \in Nodes |-> IF n = p THEN 1 ELSE 0]
=============================================================================
