------------------------------ MODULE MCRpcCall -----------------------------
(* Small instances of RpcCall for TLC: one call.                            *)
EXTENDS RpcCall

\* A bound on faults, for the run that assumes fairness of the timers alone: there a
\* transport that settles and delivers nothing is one that is not scheduled, and being
\* mute (MCServiceCall) adds no other way for a call not to end.
NothingMute == \A r \in Requests : ~wire'[r].mute
=============================================================================
