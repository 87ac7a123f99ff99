---------------------------- MODULE ServiceOrder ----------------------------
(***************************************************************************)
(* What the ordered queues of digital_fte promise: whoever waits is served *)
(* by priority and, "within the same priority", "in the order they         *)
(* arrived" (task_queue.py; "equal priorities are always served in arrival *)
(* order", priority_queue.py).  Nothing else ever leaves, and a call that  *)
(* is refused changes nothing.                                             *)
(***************************************************************************)
EXTENDS Integers, Sequences

CONSTANTS
    Tasks,       \* what may wait
    Priorities

VARIABLES
    largestFirst,   \* whether the largest priority is served first, for good
    waiting,        \* the entries that wait
    arrivals,       \* how many have ever arrived
    served          \* the entries the last pop or drain returned, in order

vars == <<largestFirst, waiting, arrivals, served>>

(* Entry e is served before entry f. *)
Precedes(e, f) ==
    \/ IF largestFirst THEN e.priority > f.priority ELSE e.priority < f.priority
    \/ e.priority = f.priority /\ e.sequence < f.sequence

(* line is the line of all who wait. *)
IsLine(line) ==
    /\ line \in Seq(waiting)
    /\ waiting = {line[i] : i \in 1 .. Len(line)}
    /\ \A i, j \in 1 .. Len(line) : i < j => Precedes(line[i], line[j])

Init == largestFirst \in BOOLEAN /\ waiting = {} /\ arrivals = 0 /\ served = << >>

Arrive(t, p) ==
    /\ waiting' = waiting \cup {[task |-> t, priority |-> p, sequence |-> arrivals]}
    /\ arrivals' = arrivals + 1
    /\ UNCHANGED <<largestFirst, served>>

Serve ==
    \E e \in waiting :
        /\ \A f \in waiting \ {e} : Precedes(e, f)
        /\ waiting' = waiting \ {e}
        /\ served' = <<e>>
        /\ UNCHANGED <<largestFirst, arrivals>>

ServeAll ==
    /\ IsLine(served')
    /\ waiting' = {}
    /\ UNCHANGED <<largestFirst, arrivals>>

Next == (\E t \in Tasks, p \in Priorities : Arrive(t, p)) \/ Serve \/ ServeAll

Spec == Init /\ [][Next]_vars
=============================================================================
