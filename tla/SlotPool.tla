------------------------------- MODULE SlotPool -------------------------------
(* What the restore slots of a runner promise, without the counters, promises *)
(* and workers that implement them: at most Slots clients hold a slot, one    *)
(* that finds none free queues, and a slot that is given back goes to the     *)
(* client that has waited longest, in the same step.                          *)
EXTENDS Integers, Sequences, FiniteSets

CONSTANTS Clients, Slots

VARIABLES
    held,    \* the clients that hold a slot
    queue    \* the clients that wait for one, the longest wait first

poolVars == <<held, queue>>

Queued == {queue[k] : k \in 1..Len(queue)}

Init == held = {} /\ queue = <<>>

Acquire(c) ==
    /\ c \notin held \cup Queued
    /\ Cardinality(held) < Slots
    /\ held' = held \cup {c} /\ queue' = queue

Enqueue(c) ==
    /\ c \notin held \cup Queued
    /\ Cardinality(held) >= Slots
    /\ held' = held /\ queue' = Append(queue, c)

Release(c) ==
    /\ c \in held
    /\ IF queue = <<>>
       THEN held' = held \ {c} /\ queue' = queue
       ELSE held' = (held \ {c}) \cup {Head(queue)} /\ queue' = Tail(queue)

Next == \E c \in Clients : Acquire(c) \/ Enqueue(c) \/ Release(c)

Spec == Init /\ [][Next]_poolVars

=============================================================================
