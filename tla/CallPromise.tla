---------------------------- MODULE CallPromise ----------------------------
(***************************************************************************)
(* What callRemoteService promises the subscriber of a call, whatever the  *)
(* transports and providers do:                                            *)
(*   - a call is tried at most MaxAttempts times, one attempt after the    *)
(*     other, and ends once;                                               *)
(*   - the values an attempt delivers are the first values its provider    *)
(*     made, in order, none missing and none twice;                        *)
(*   - it completes only when every value of a complete answer was         *)
(*     delivered;                                                          *)
(*   - it ends as offline only when the attempts are used up;              *)
(*   - after its end nothing is delivered.                                 *)
(***************************************************************************)
EXTENDS Integers

CONSTANTS Calls, MaxAttempts, MaxItems

VARIABLES
    phase,      \* idle, open (an attempt is in flight), delay or over
    attempt,    \* how many attempts were made
    made,       \* how many values the provider of this attempt has made
    whole,      \* whether its answer is complete
    got,        \* how many of them the subscriber has
    outcome     \* how the call ended

promised == <<phase, attempt, made, whole, got, outcome>>

Failures == {"error", "offline", "timeout"}

Init ==
    /\ phase = [c \in Calls |-> "idle"]
    /\ attempt = [c \in Calls |-> 0]
    /\ made = [c \in Calls |-> 0]
    /\ whole = [c \in Calls |-> FALSE]
    /\ got = [c \in Calls |-> 0]
    /\ outcome = [c \in Calls |-> "none"]

Ends(c, how) ==
    /\ phase' = [phase EXCEPT ![c] = "over"]
    /\ outcome' = [outcome EXCEPT ![c] = how]

Attempt(c) ==
    /\ phase[c] \in {"idle", "delay"}
    /\ attempt[c] < MaxAttempts
    /\ attempt' = [attempt EXCEPT ![c] = @ + 1]
    /\ made' = [made EXCEPT ![c] = 0]
    /\ whole' = [whole EXCEPT ![c] = FALSE]
    /\ got' = [got EXCEPT ![c] = 0]
    /\ \/ phase' = [phase EXCEPT ![c] = "open"] /\ UNCHANGED outcome
       \/ /\ attempt[c] + 1 < MaxAttempts
          /\ phase' = [phase EXCEPT ![c] = "delay"]
          /\ UNCHANGED outcome
       \/ attempt[c] + 1 = MaxAttempts /\ Ends(c, "offline")

Make(c) ==
    /\ ~whole[c]
    /\ \/ made[c] < MaxItems /\ made' = [made EXCEPT ![c] = @ + 1]
       \/ UNCHANGED made
    /\ whole' \in {whole, [whole EXCEPT ![c] = TRUE]}
    /\ UNCHANGED <<phase, attempt, got, outcome>>

Deliver(c) ==
    /\ phase[c] = "open"
    /\ got[c] < made[c]
    /\ got' = [got EXCEPT ![c] = @ + 1]
    /\ \/ UNCHANGED <<phase, outcome>>
       \/ Ends(c, "left")
       \/ whole[c] /\ got[c] + 1 = made[c] /\ Ends(c, "completed")
    /\ UNCHANGED <<attempt, made, whole>>

Complete(c) ==
    /\ phase[c] = "open"
    /\ whole[c] /\ got[c] = made[c]
    /\ Ends(c, "completed")
    /\ UNCHANGED <<attempt, made, whole, got>>

Fail(c, why) ==
    /\ phase[c] = "open"
    /\ why = "offline" => attempt[c] = MaxAttempts
    /\ Ends(c, why)
    /\ UNCHANGED <<attempt, made, whole, got>>

Pause(c) ==
    /\ phase[c] = "open"
    /\ attempt[c] < MaxAttempts
    /\ phase' = [phase EXCEPT ![c] = "delay"]
    /\ UNCHANGED <<attempt, made, whole, got, outcome>>

Leave(c) ==
    /\ phase[c] \in {"open", "delay"}
    /\ Ends(c, "left")
    /\ UNCHANGED <<attempt, made, whole, got>>

Step(c) ==
    \/ Attempt(c) \/ Make(c) \/ Deliver(c) \/ Complete(c) \/ Pause(c) \/ Leave(c)
    \/ \E why \in Failures : Fail(c, why)

\* One event of the code (a node going offline) can end the attempts of many
\* calls; it is a Pause or a Fail of each.
AllFail ==
    /\ UNCHANGED <<attempt, made, whole, got>>
    /\ \A c \in Calls :
          \/ phase'[c] = phase[c] /\ outcome'[c] = outcome[c]
          \/ /\ phase[c] = "open" /\ attempt[c] < MaxAttempts
             /\ phase'[c] = "delay" /\ outcome'[c] = outcome[c]
          \/ /\ phase[c] = "open" /\ attempt[c] = MaxAttempts
             /\ phase'[c] = "over" /\ outcome'[c] = "offline"

Next == AllFail \/ \E c \in Calls : Step(c)

Spec == Init /\ [][Next]_promised
=============================================================================
