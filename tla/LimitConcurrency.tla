-------------------------- MODULE LimitConcurrency --------------------------
(***************************************************************************)
(* The decorator @LimitConcurrency (helpers/LimitConcurrency.ts): calls of *)
(* a method wait in queue$ for one of Limit slots.  A slot is held from    *)
(* the start of the method until it throws or returns a plain value, or    *)
(* until a first subscription of the Observable it returned is over.       *)
(* The calls of the mesh are given their slots by module ServiceCall;      *)
(* here are the calls the process makes itself, which may drop the         *)
(* Observable or subscribe to it more than once.                           *)
(***************************************************************************)
EXTENDS Integers, Sequences, FiniteSets

CONSTANTS
    Locals,         \* calls that the process makes itself
    Limit,          \* the argument of the decorator
    MaxSubscribers  \* bound: subscriptions of one returned Observable

ASSUME LimitConcurrencyAssumption == Limit \in Nat \ {0} /\ MaxSubscribers \in Nat

VARIABLES
    waiting,    \* queue$ and the buffer of mergeMap, first come first served
    slots,      \* the calls mergeMap counts as active
    direct      \* per local call: its phase, its live subscriptions, those there were

limiterVars == <<waiting, slots, direct>>

LimiterInit ==
    /\ waiting = <<>>
    /\ slots = {}
    /\ direct = [l \in Locals |-> [phase |-> "idle", live |-> 0, made |-> 0]]

\* mergeMap starts what waits as soon as a slot is free.
Refilled(held, queue) ==
    LET free == Limit - Cardinality(held)
        some == IF free < Len(queue) THEN free ELSE Len(queue)
    IN [slots   |-> held \cup {queue[k] : k \in 1..some},
        waiting |-> SubSeq(queue, some + 1, Len(queue))]

Admit(held, queue) ==
    LET after == Refilled(held, queue)
    IN slots' = after.slots /\ waiting' = after.waiting

\* queue$.next of a new call.
Queued(x) == Admit(slots, Append(waiting, x))

\* The promise of the mergeMap project settles.
Released(x) == Admit(slots \ {x}, waiting)

\* Mutant: done is called when the Observable completes or fails, not when it is unsubscribed.
ReleasedUnlessLeft(x, left) == IF left THEN UNCHANGED <<slots, waiting>> ELSE Released(x)

\* finalize(done), on completion, error and unsubscription alike; done a second time does nothing.
Finalized(x, left) == Released(x)

Call(l) ==
    /\ direct[l].phase = "idle"
    /\ direct' = [direct EXCEPT ![l].phase = "called"]
    /\ Queued(l)

\* fn returns a plain value or throws.
Settles(l) ==
    /\ direct[l].phase = "called" /\ l \in slots
    /\ direct' = [direct EXCEPT ![l].phase = "over"]
    /\ Released(l)

\* fn returns an Observable: success() hands it out and the slot stays held.
HandsOut(l) ==
    /\ direct[l].phase = "called" /\ l \in slots
    /\ direct' = [direct EXCEPT ![l].phase = "handed"]
    /\ UNCHANGED <<slots, waiting>>

Subscribes(l) ==
    /\ direct[l].phase = "handed"
    /\ direct[l].made < MaxSubscribers
    /\ direct' = [direct EXCEPT ![l].live = @ + 1, ![l].made = @ + 1]
    /\ UNCHANGED <<slots, waiting>>

\* One of the subscriptions ends, by itself or by its subscriber.
SubscriptionEnds(l, left) ==
    /\ direct[l].live > 0
    /\ direct' = [direct EXCEPT ![l].live = @ - 1]
    /\ Finalized(l, left)

LocalCalls ==
    \E l \in Locals :
        \/ Call(l)
        \/ Settles(l)
        \/ HandsOut(l)
        \/ Subscribes(l)
        \/ \E left \in BOOLEAN : SubscriptionEnds(l, left)

\* Who holds a slot, by what it does: a method at work, or an Observable nobody has
\* left yet, even if nobody has ever subscribed to it.
LocalsAtWork ==
    {l \in Locals : \/ direct[l].phase = "called"
                    \/ direct[l].phase = "handed" /\ direct[l].made = direct[l].live}
=============================================================================
