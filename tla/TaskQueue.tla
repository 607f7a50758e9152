------------------------------ MODULE TaskQueue ------------------------------
(***************************************************************************)
(* What the bus promises the handlers of one task (the ordering contract   *)
(* in the docstring of kernel/bus.py), without heaps, counters or loops:   *)
(* an event is published to the log before anything else happens to it,    *)
(* and the event delivered next is the most urgent one published and not   *)
(* yet delivered, the earlier of two equally urgent ones.                  *)
(***************************************************************************)
EXTENDS Naturals, Sequences, Events

VARIABLES
    log,        \* the types of all published events, in order
    waiting,    \* positions in the log not yet delivered
    delivered   \* positions delivered to the current consumer, in order

Init == log = << >> /\ waiting = {} /\ delivered = << >>

Publish(t) ==
    /\ log' = Append(log, t)
    /\ waiting' = waiting \cup {Len(log) + 1}
    /\ UNCHANGED delivered

MoreUrgent(i, j) ==
    \/ PRIORITY[log[i]] < PRIORITY[log[j]]
    \/ PRIORITY[log[i]] = PRIORITY[log[j]] /\ i < j

Deliver(i) ==
    /\ i \in waiting
    /\ \A j \in waiting \ {i} : MoreUrgent(i, j)
    /\ waiting' = waiting \ {i}
    /\ delivered' = Append(delivered, i)
    /\ UNCHANGED log

(* The consumer is gone (a crash, an error, the end of the run): what it   *)
(* had not handled is not handed to the next one.                          *)
Abandon ==
    /\ waiting' = {}
    /\ delivered' = << >>
    /\ UNCHANGED log

Next ==
    \/ \E t \in EventType : Publish(t)
    \/ \E i \in waiting : Deliver(i)
    \/ Abandon

Spec == Init /\ [][Next]_<<log, waiting, delivered>>
=============================================================================
